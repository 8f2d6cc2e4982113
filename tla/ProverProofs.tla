---------------------------- MODULE ProverProofs ----------------------------
(***************************************************************************)
(* Proofs about the provers, for every number of provers, blocks and       *)
(* failures: wherever a process dies, its tree and its rollups stay those  *)
(* of the chain, no block is left unproved by all of them, and none has    *)
(* two transactions in flight.                                             *)
(***************************************************************************)
EXTENDS Prover, FiniteSetTheorems, TLAPS

Tx == [from : Provers, rollup : Rollup, awaited : BOOLEAN]

Lock == [height : NonEmpty, by : {"prover", "sender"}]

(* Where the prover worker has a block in hand.                            *)
AtBlock == {"lock", "skip", "prove", "proved", "skipped", "applied"}

Pcs == AtBlock \cup {"down", "listening", "mismatch", "deleting", "next", "insert"}

DataOK ==
  /\ tip \in 0 .. MaxHeight
  /\ contract \in State
  /\ txs \in SUBSET Tx
  /\ proofs \in SUBSET Rollup
  /\ locks \in [Provers -> SUBSET Lock]
  /\ seen \in [Provers -> State]
  /\ tree \in [Provers -> SUBSET NonEmpty]
  /\ rollups \in [Provers -> SUBSET Rollup]
  /\ initial \in [Provers -> 0 .. MaxHeight]
  /\ job \in [Provers -> [rollup : Rollup \cup {NoJob.rollup}, pre : State]]
  /\ result \in [Provers -> {"none", "timeout", "done"}]
  /\ failures \in 0 .. MaxFailures

ControlOK ==
  /\ pc \in [Provers -> Pcs]
  /\ rpc \in [Provers -> {"down", "look", "send", "receipt"}]
  /\ \A p \in Provers : pc[p] = "down" <=> rpc[p] = "down"
  /\ \A p \in Provers : pc[p] \in AtBlock => CommitHeight(p) \in NonEmpty

VarsOK == DataOK /\ ControlOK

(* A proof of what the chain's block did.                                  *)
Sound(r) == r.old = RootAt(r.height - 1) /\ r.new = RootAt(r.height)

(* The state of the contract, or the last seen block, is one of the chain. *)
OfChain(s) == s.root = RootAt(s.height)

RootsOK ==
  /\ OfChain(contract)
  /\ \A r \in proofs : Sound(r)
  /\ \A t \in txs : Sound(t.rollup)
  /\ \A p \in Provers :
       /\ OfChain(seen[p])
       /\ \A r \in rollups[p] : Sound(r)
       /\ rpc[p] \in {"send", "receipt"} => job[p].rollup \in Rollup /\ Sound(job[p].rollup)
       /\ pc[p] \notin {"down", "mismatch", "deleting"} =>
            tree[p] = RootAt(IF pc[p] \in {"skipped", "applied"} THEN CommitHeight(p) ELSE seen[p].height)

(* A rollup of the block is on the prover's disk.                          *)
Kept(p, h) == \E r \in rollups[p] : r.height = h

(* The prover has the block to come, and has not decided to skip it.       *)
Coming(p, h) ==
  /\ seen[p].height < h
  /\ ~ (pc[p] \in {"skip", "skipped"} /\ CommitHeight(p) = h)

(* What a lock stands for: the prover that holds it has the block in hand  *)
(* or its rollup on disk, and a proof that is sent for another is in the   *)
(* table, so that somebody has it on disk.                                 *)
Listed(h) == \E r \in proofs : r.height = h

LockOK(p, l) ==
  IF l.by = "sender" THEN Listed(l.height)
  ELSE \/ pc[p] \in {"prove", "proved", "applied"} /\ CommitHeight(p) = l.height
       \/ pc[p] = "insert" /\ seen[p].height = l.height

AtWorkOK(p) ==
  /\ initial[p] <= contract.height
  /\ pc[p] \in {"proved", "applied"} => Kept(p, CommitHeight(p))
  /\ pc[p] = "insert" => Kept(p, seen[p].height)
  /\ \A l \in locks[p] : LockOK(p, l)

LocksOK ==
  /\ \A p \in Provers : AtWorkOK(p)
  /\ \A r \in proofs : \E p \in Provers : Kept(p, r.height)

(* A block that the contract does not have is kept by a prover, or comes   *)
(* to one.                                                                 *)
BlocksOK ==
  \A h \in NonEmpty \ BadBlocks :
    h > contract.height => \E p \in Provers : Coming(p, h) \/ Kept(p, h)

(* Each sender has at most one transaction in the mempool.                 *)
OneEach(S) == \A t, u \in S : t.from = u.from => t = u

TxsOK ==
  /\ OneEach(txs)
  /\ \A p \in Provers : rpc[p] = "send" => ~ TxnIsPending(p)

ProverInv == VarsOK /\ RootsOK /\ LocksOK /\ BlocksOK /\ TxsOK

-----------------------------------------------------------------------------
(* The roots of the chain.                                                 *)
LEMMA RootFacts ==
  /\ RootAt(0) = {}
  /\ \A h : RootAt(h) \subseteq NonEmpty
  /\ \A h \in Nat : h + 1 \in NonEmpty => RootAt(h + 1) = RootAt(h) \cup {h + 1}
  /\ \A h \in Nat : h + 1 \notin NonEmpty => RootAt(h + 1) = RootAt(h)
<1>1. \A k \in NonEmpty : k \in Nat /\ k # 0
  BY ProverAssumption
<1>2. RootAt(0) = {} /\ \A h : RootAt(h) \subseteq NonEmpty
  BY <1>1 DEF RootAt
<1>3. ASSUME NEW h \in Nat, h + 1 \in NonEmpty PROVE RootAt(h + 1) = RootAt(h) \cup {h + 1}
  BY <1>1, <1>3 DEF RootAt
<1>4. ASSUME NEW h \in Nat, h + 1 \notin NonEmpty PROVE RootAt(h + 1) = RootAt(h)
  BY <1>1, <1>4 DEF RootAt
<1> QED BY <1>2, <1>3, <1>4, Zenon

(* Heights are numbers, and a block with transactions is below the last.   *)
LEMMA HeightFacts ==
  ASSUME DataOK, NEW p \in Provers
  PROVE  /\ MaxHeight \in Nat /\ NonEmpty \subseteq Nat /\ NonEmpty \subseteq 0 .. MaxHeight
         /\ 0 \in 0 .. MaxHeight
         /\ tip \in Nat /\ tip <= MaxHeight
         /\ contract.height \in Nat /\ contract.height \in 0 .. MaxHeight
         /\ contract.root \in SUBSET NonEmpty
         /\ seen[p] \in State /\ seen[p].height \in Nat /\ seen[p].root \in SUBSET NonEmpty
         /\ CommitHeight(p) \in Nat /\ CommitHeight(p) = seen[p].height + 1
         /\ tree[p] \in SUBSET NonEmpty /\ rollups[p] \in SUBSET Rollup
         /\ locks[p] \in SUBSET Lock /\ initial[p] \in Nat
<1>1. MaxHeight \in Nat /\ NonEmpty \subseteq 0 .. MaxHeight
  BY ProverAssumption
<1>2. seen[p] \in State /\ contract \in State
  BY Zenon DEF DataOK
<1>3. seen[p].height \in 0 .. MaxHeight /\ seen[p].root \in SUBSET NonEmpty
      /\ contract.height \in 0 .. MaxHeight /\ contract.root \in SUBSET NonEmpty
  BY <1>2, Zenon DEF State
<1>4. tree[p] \in SUBSET NonEmpty /\ rollups[p] \in SUBSET Rollup
      /\ locks[p] \in SUBSET Lock /\ initial[p] \in 0 .. MaxHeight /\ tip \in 0 .. MaxHeight
  BY Zenon DEF DataOK
<1> QED BY <1>1, <1>2, <1>3, <1>4 DEF CommitHeight

(* The state of a fresh contract, and a rollup worker without a job.       *)
LEMMA NothingFacts ==
  /\ Nothing \in State /\ Nothing.height = 0 /\ Nothing.root = {}
  /\ NoJob \in [rollup : Rollup \cup {NoJob.rollup}, pre : State]
<1>1. Nothing \in State /\ Nothing.height = 0 /\ Nothing.root = {}
  BY ProverAssumption DEF Nothing, State
<1> QED BY <1>1, Zenon DEF NoJob

(* The transactions that are left when nobody waits for those of p.        *)
Unawaited(S, p, T) ==
  T = {IF t.from = p THEN [t EXCEPT !.awaited = FALSE] ELSE t : t \in S}

SameCalls(S, T) == \A u \in T : \E t \in S : u.from = t.from /\ u.rollup = t.rollup

(* Giving up waiting changes no call in the mempool.                       *)
LEMMA UnawaitedIs ==
  ASSUME NEW S, S \in SUBSET Tx, NEW p, NEW T, Unawaited(S, p, T)
  PROVE  T \in SUBSET Tx /\ SameCalls(S, T) /\ (OneEach(S) => OneEach(T))
<1> DEFINE f(t) == IF t.from = p THEN [t EXCEPT !.awaited = FALSE] ELSE t
<1>1. ASSUME NEW t \in S
      PROVE  f(t) \in Tx /\ f(t).from = t.from /\ f(t).rollup = t.rollup
  BY Zenon DEF Tx
<1>2. \A u \in T : \E t \in S : u = f(t)
  BY Zenon DEF Unawaited
<1> HIDE DEF f
<1>3. T \in SUBSET Tx /\ \A u \in T : \E t \in S : u.from = t.from /\ u.rollup = t.rollup
  BY <1>1, <1>2, Zenon
<1>4. ASSUME OneEach(S), NEW u \in T, NEW w \in T, u.from = w.from
      PROVE  u = w
  <2>1. PICK t \in S : u = f(t)
    BY <1>2, Zenon
  <2>2. PICK x \in S : w = f(x)
    BY <1>2, Zenon
  <2>3. t = x
    <3>1. t.from = x.from
      BY <1>1, <1>4, <2>1, <2>2, Zenon
    <3> QED BY <1>4, <3>1, Zenon DEF OneEach
  <2> QED BY <2>1, <2>2, <2>3, Zenon
<1>5. OneEach(S) => OneEach(T)
  BY <1>4, Zenon DEF OneEach
<1> QED BY <1>3, <1>5, Zenon DEF SameCalls

-----------------------------------------------------------------------------
(* The types.                                                              *)
LEMMA ExitVars ==
  ASSUME DataOK, ControlOK, NEW p \in Provers, Exit(p)
  PROVE  /\ txs' \in SUBSET Tx
         /\ locks' \in [Provers -> SUBSET Lock]
         /\ initial' \in [Provers -> 0 .. MaxHeight]
         /\ job' \in [Provers -> [rollup : Rollup \cup {NoJob.rollup}, pre : State]]
         /\ result' \in [Provers -> {"none", "timeout", "done"}]
<1>1. txs' \in SUBSET Tx
  <2>1. Unawaited(txs, p, txs')
    BY Zenon DEF Exit, Unawaited
  <2>2. txs \in SUBSET Tx
    BY Zenon DEF DataOK
  <2> QED BY <2>1, <2>2, UnawaitedIs, Zenon
<1>2. job' \in [Provers -> [rollup : Rollup \cup {NoJob.rollup}, pre : State]]
  BY NothingFacts, Zenon DEF Exit, DataOK
<1>3. 0 \in 0 .. MaxHeight
  BY ProverAssumption
<1>4. /\ locks' \in [Provers -> SUBSET Lock] /\ initial' \in [Provers -> 0 .. MaxHeight]
      /\ result' \in [Provers -> {"none", "timeout", "done"}]
  BY <1>3, Zenon DEF Exit, DataOK
<1> QED BY <1>1, <1>2, <1>4, Zenon

(* Steps of the prover worker keep the types of the data.                  *)
LEMMA WorkerData ==
  ASSUME DataOK, ControlOK, NEW p \in Provers, ProverWorker(p)
  PROVE  DataOK'
<1>0. /\ contract.height \in 0 .. MaxHeight /\ NonEmpty \subseteq 0 .. MaxHeight
      /\ CommitHeight(p) \in Nat /\ tip <= MaxHeight /\ MaxHeight \in Nat /\ tip \in Nat
  BY HeightFacts, Zenon
<1>r. \A h \in 0 .. MaxHeight : [height |-> h, root |-> RootAt(h)] \in State
  BY RootFacts, Zenon DEF State
<1>c. pc[p] \in AtBlock => CommitHeight(p) \in NonEmpty
  BY Zenon DEF ControlOK
<1>1. CASE Start(p)
  BY <1>0, <1>1, Zenon DEF Start, DataOK, diskVars
<1>2. CASE ResetLastSeen(p)
  BY <1>2, NothingFacts, Zenon DEF ResetLastSeen, DataOK, senderVars
<1>3. CASE DeleteSmirk(p)
  BY <1>3, ExitVars, Zenon DEF DeleteSmirk, DataOK
<1>4. CASE SeeEmpty(p)
  BY <1>0, <1>r, <1>4 DEF SeeEmpty, DataOK, workVars, senderVars
<1>5. CASE LookForProof(p)
  BY <1>5, Zenon DEF LookForProof, DataOK, diskVars, senderVars
<1>6. CASE TryLock(p)
  BY <1>c, <1>6 DEF TryLock, DataOK, AtBlock, Lock, diskVars, senderVars
<1>7. CASE SkipApply(p)
  BY <1>c, <1>7, Zenon DEF SkipApply, DataOK, AtBlock, senderVars
<1>8. CASE Prove(p)
  <2>1. [height |-> CommitHeight(p), old |-> tree[p], new |-> tree[p] \cup {CommitHeight(p)}] \in Rollup
    BY <1>c, <1>8, HeightFacts, Zenon DEF Prove, AtBlock, Rollup
  <2> QED BY <1>8, <2>1, Zenon DEF Prove, DataOK, senderVars
<1>9. CASE ApplyProved(p)
  BY <1>c, <1>9, Zenon DEF ApplyProved, DataOK, AtBlock, senderVars
<1>10. CASE SetLastSeen(p)
  BY <1>0, <1>r, <1>c, <1>10, Zenon DEF SetLastSeen, DataOK, AtBlock, senderVars
<1>11. CASE InsertProof(p)
  BY <1>11, Zenon DEF InsertProof, DataOK, diskVars, senderVars
<1>12. CASE InsertPanics(p)
  BY <1>12, ExitVars, Zenon DEF InsertPanics, DataOK, diskVars
<1> QED BY <1>1, <1>2, <1>3, <1>4, <1>5, <1>6, <1>7, <1>8, <1>9, <1>10, <1>11, <1>12, Zenon
    DEF ProverWorker

(* So do steps of the rollup worker and the mining of a transaction.       *)
LEMMA SenderData ==
  ASSUME DataOK, ControlOK, NEW p \in Provers, RollupWorker(p) \/ Mine(p)
  PROVE  DataOK'
<1>0. contract \in State /\ proofs \in SUBSET Rollup /\ NextRollup(p) \in SUBSET Rollup
  BY HeightFacts, Zenon DEF DataOK, NextRollup
<1>1. CASE FindRollup(p)
  <2>1. PICK r \in NextRollup(p) : StartRound(p, r) /\ UNCHANGED locks
    BY <1>1, Zenon DEF FindRollup
  <2> QED BY <1>0, <2>1, Zenon DEF StartRound, DataOK, diskVars, workVars
<1>2. CASE FindMissedProof(p)
  <2>1. PICK r \in proofs :
          /\ StartRound(p, r)
          /\ locks' = [locks EXCEPT ![p] = @ \cup {[height |-> r.height, by |-> "sender"]}]
    BY <1>2, Zenon DEF FindMissedProof
  <2>2. [height |-> r.height, by |-> "sender"] \in Lock
    BY <1>0, Zenon DEF Rollup, Lock
  <2> QED BY <1>0, <2>1, <2>2, Zenon DEF StartRound, DataOK, diskVars, workVars
<1>3. CASE Send(p)
  <2>1. job[p].rollup \in Rollup
    BY <1>0, <1>3 DEF Send, Accepts, DataOK, NoJob, State
  <2>2. [from |-> p, rollup |-> job[p].rollup, awaited |-> TRUE] \in Tx
    BY <2>1, Zenon DEF Tx
  <2> QED BY <1>3, <2>2, Zenon DEF Send, DataOK, diskVars, workVars
<1>4. CASE SendRefused(p)
  BY <1>4, Zenon DEF SendRefused, DataOK, diskVars, workVars
<1>5. CASE Finish(p)
  BY <1>5, NothingFacts, Zenon DEF Finish, EndRound, DataOK, diskVars, workVars
<1>6. CASE FinishTimeout(p)
  BY <1>6, ExitVars, Zenon DEF FinishTimeout, DataOK, diskVars
<1>7. CASE Mine(p)
  <2>1. PICK t \in txs :
          /\ txs' = txs \ {t}
          /\ contract' = IF Accepts(t.rollup)
                         THEN [height |-> t.rollup.height, root |-> t.rollup.new]
                         ELSE contract
          /\ result' = IF t.awaited THEN [result EXCEPT ![p] = "done"] ELSE result
    BY <1>7, Zenon DEF Mine
  <2>2. t.rollup \in Rollup
    BY Zenon DEF DataOK, Tx
  <2>3. [height |-> t.rollup.height, root |-> t.rollup.new] \in State
    BY <2>2, HeightFacts, Zenon DEF Rollup, State
  <2> QED BY <1>0, <1>7, <2>1, <2>3, Zenon DEF Mine, DataOK, diskVars, workVars
<1> QED BY <1>1, <1>2, <1>3, <1>4, <1>5, <1>6, <1>7, Zenon DEF RollupWorker

(* So do failures.                                                         *)
LEMMA FailureData ==
  ASSUME DataOK, ControlOK, NEW p \in Provers, Failure(p)
  PROVE  DataOK'
<1>0. failures < MaxFailures => failures + 1 \in 0 .. MaxFailures
  BY ProverAssumption DEF DataOK
<1>1. CASE Crash(p)
  BY <1>0, <1>1, ExitVars, Zenon DEF Crash, DataOK, diskVars
<1>2. CASE SendLost(p)
  <2>1. txs' \in SUBSET Tx
    <3>1. CASE txs' = txs
      BY <3>1, Zenon DEF DataOK
    <3>2. CASE /\ Accepts(job[p].rollup)
               /\ txs' = txs \cup {[from |-> p, rollup |-> job[p].rollup, awaited |-> FALSE]}
      <4>1. job[p].rollup \in Rollup
        BY <3>2, HeightFacts DEF Accepts, DataOK, NoJob
      <4>2. [from |-> p, rollup |-> job[p].rollup, awaited |-> FALSE] \in Tx
        BY <4>1, Zenon DEF Tx
      <4> QED BY <3>2, <4>2, Zenon DEF DataOK
    <3> QED BY <1>2, <3>1, <3>2, Zenon DEF SendLost
  <2> QED BY <1>0, <1>2, <2>1, Zenon DEF SendLost, DataOK, diskVars, workVars
<1>3. CASE Drop(p)
  BY <1>0, <1>3, Zenon DEF Drop, DataOK, diskVars, workVars
<1>4. ASSUME NEW err \in {"done", "timeout"}, GiveUp(p, err) PROVE DataOK'
  <2>1. txs' \in SUBSET Tx
    <3>1. Unawaited(txs, p, txs') /\ txs \in SUBSET Tx
      BY <1>4, Zenon DEF GiveUp, Unawaited, DataOK
    <3> QED BY <3>1, UnawaitedIs, Zenon
  <2> QED BY <1>0, <1>4, <2>1, Zenon DEF GiveUp, DataOK, diskVars, workVars
<1> QED BY <1>1, <1>2, <1>3, <1>4, Zenon DEF Failure

(* So does every step.                                                     *)
LEMMA DataStep ==
  ASSUME DataOK, ControlOK, ProverNext
  PROVE  DataOK'
<1>1. CASE ChainGrows
  BY <1>1, ProverAssumption DEF ChainGrows, DataOK, diskVars, senderVars
<1>2. Faulty \subseteq Provers
  BY ProverAssumption, Zenon
<1> QED BY <1>1, <1>2, WorkerData, SenderData, FailureData, Zenon DEF ProverNext

-----------------------------------------------------------------------------
(* The control.                                                            *)
LEMMA ControlStep ==
  ASSUME DataOK, ControlOK, ProverNext
  PROVE  ControlOK'
<1>1. CASE ChainGrows
  BY <1>1, Zenon DEF ChainGrows, ControlOK, Pcs, AtBlock, CommitHeight, diskVars, senderVars
<1>2. ASSUME NEW p \in Provers, Exit(p), seen' = seen PROVE ControlOK'
  BY <1>2, Zenon DEF Exit, ControlOK, Pcs, AtBlock, CommitHeight
<1>3. ASSUME NEW p \in Provers, ProverWorker(p) PROVE ControlOK'
  <2>1. CASE Start(p)
    BY <1>3, <2>1, Zenon DEF Start, ControlOK, Pcs, AtBlock, CommitHeight, diskVars
  <2>2. CASE ResetLastSeen(p)
    BY <1>3, <2>2 DEF ResetLastSeen, ControlOK, Pcs, AtBlock, CommitHeight, senderVars
  <2>3. CASE DeleteSmirk(p)
    BY <1>2, <1>3, <2>3, Zenon DEF DeleteSmirk
  <2>4. CASE SeeEmpty(p)
    BY <1>3, <2>4 DEF SeeEmpty, ControlOK, Pcs, AtBlock, CommitHeight, workVars, senderVars
  <2>5. CASE LookForProof(p)
    BY <1>3, <2>5, Zenon DEF LookForProof, SetPc, ControlOK, Pcs, AtBlock, CommitHeight, diskVars, senderVars
  <2>6. CASE TryLock(p)
    BY <1>3, <2>6 DEF TryLock, SetPc, ControlOK, Pcs, AtBlock, CommitHeight, diskVars, senderVars
  <2>7. CASE SkipApply(p)
    BY <1>3, <2>7, Zenon DEF SkipApply, SetPc, ControlOK, Pcs, AtBlock, CommitHeight, senderVars
  <2>8. CASE Prove(p)
    BY <1>3, <2>8, Zenon DEF Prove, SetPc, ControlOK, Pcs, AtBlock, CommitHeight, senderVars
  <2>9. CASE ApplyProved(p)
    BY <1>3, <2>9, Zenon DEF ApplyProved, SetPc, ControlOK, Pcs, AtBlock, CommitHeight, senderVars
  <2>10. CASE SetLastSeen(p)
    BY <1>3, <2>10 DEF SetLastSeen, SetPc, ControlOK, Pcs, AtBlock, CommitHeight, senderVars
  <2>11. CASE InsertProof(p)
    BY <1>3, <2>11, Zenon DEF InsertProof, SetPc, ControlOK, Pcs, AtBlock, CommitHeight, diskVars, senderVars
  <2>12. CASE InsertPanics(p)
    BY <1>2, <1>3, <2>12, Zenon DEF InsertPanics, diskVars
  <2> QED BY <1>3, <2>1, <2>2, <2>3, <2>4, <2>5, <2>6, <2>7, <2>8, <2>9, <2>10, <2>11, <2>12,
             Zenon DEF ProverWorker
<1>4. ASSUME NEW p \in Provers, RollupWorker(p) \/ Mine(p) \/ Failure(p) PROVE ControlOK'
  <2>1. ASSUME pc' = pc, seen' = seen, rpc[p] # "down",
               \/ rpc' = rpc
               \/ \E to \in {"look", "send", "receipt"} : rpc' = [rpc EXCEPT ![p] = to]
        PROVE  ControlOK'
    BY <1>4, <2>1, Zenon DEF ControlOK, CommitHeight
  <2>2. CASE FindRollup(p) \/ FindMissedProof(p)
    BY <2>1, <2>2, Zenon DEF FindRollup, FindMissedProof, StartRound, SetRpc, diskVars, workVars
  <2>3. CASE Send(p) \/ SendRefused(p) \/ Finish(p) \/ SendLost(p)
    BY <2>1, <2>3, Zenon DEF Send, SendRefused, Finish, Finished, SendLost, SetRpc, diskVars, workVars
  <2>4. CASE FinishTimeout(p) \/ Crash(p)
    BY <1>2, <1>4, <2>4, Zenon DEF FinishTimeout, Crash, diskVars
  <2>5. CASE Mine(p) \/ Drop(p) \/ \E err \in {"done", "timeout"} : GiveUp(p, err)
    <3>1. pc' = pc /\ seen' = seen /\ rpc' = rpc
      BY <2>5, Zenon DEF Mine, Drop, GiveUp, diskVars, workVars
    <3> QED BY <3>1, Zenon DEF ControlOK, CommitHeight
  <2> QED BY <1>4, <2>2, <2>3, <2>4, <2>5, Zenon DEF RollupWorker, Failure
<1>5. Faulty \subseteq Provers
  BY ProverAssumption, Zenon
<1> QED BY <1>1, <1>3, <1>4, <1>5, Zenon DEF ProverNext

-----------------------------------------------------------------------------
(* The roots.                                                              *)
LEMMA RootsExit ==
  ASSUME DataOK, RootsOK, NEW p \in Provers, Exit(p),
         contract' = contract, proofs' = proofs, rollups' = rollups, seen' = seen,
         \A q \in Provers : q = p \/ tree'[q] = tree[q],
         ControlOK
  PROVE  RootsOK'
<1>1. \A u \in txs' : Sound(u.rollup)
  <2>0. txs \in SUBSET Tx
    BY Zenon DEF DataOK
  <2>1. Unawaited(txs, p, txs')
    BY Zenon DEF Exit, Unawaited
  <2>2. SameCalls(txs, txs')
    BY <2>0, <2>1, UnawaitedIs, Zenon
  <2> QED BY <2>2, Zenon DEF RootsOK, SameCalls
<1>2. /\ pc' = [pc EXCEPT ![p] = "down"] /\ rpc' = [rpc EXCEPT ![p] = "down"]
      /\ job' = [job EXCEPT ![p] = NoJob]
  BY Zenon DEF Exit
<1> QED BY <1>1, <1>2 DEF RootsOK, ControlOK, DataOK, CommitHeight

(* Steps of the prover worker keep trees and rollups those of the chain.   *)
LEMMA RootsWorker ==
  ASSUME DataOK, ControlOK, RootsOK, NEW p \in Provers, ProverWorker(p)
  PROVE  RootsOK'
<1> DEFINE h == CommitHeight(p)
<1>0. /\ h \in Nat /\ h = seen[p].height + 1 /\ h - 1 = seen[p].height /\ seen[p].height \in Nat
      /\ pc[p] \in AtBlock => h \in NonEmpty
  BY HeightFacts DEF ControlOK
<1>r. /\ h \in NonEmpty => RootAt(h) = RootAt(seen[p].height) \cup {h}
      /\ h \notin NonEmpty => RootAt(h) = RootAt(seen[p].height)
  BY <1>0, RootFacts, Zenon
<1> HIDE DEF h
<1>t. /\ seen \in [Provers -> State] /\ tree \in [Provers -> SUBSET NonEmpty]
      /\ rollups \in [Provers -> SUBSET Rollup] /\ pc \in [Provers -> Pcs]
  BY Zenon DEF DataOK, ControlOK
<1>1. CASE Start(p)
  BY <1>t, <1>1 DEF Start, RootsOK, OfChain, CommitHeight, diskVars
<1>2. CASE ResetLastSeen(p)
  <2>1. OfChain(Nothing)
    BY RootFacts, NothingFacts, Zenon DEF OfChain
  <2> QED BY <1>t, <1>2, <2>1, Zenon DEF ResetLastSeen, RootsOK, CommitHeight, senderVars
<1>3. CASE DeleteSmirk(p)
  <2>1. /\ Exit(p) /\ contract' = contract /\ proofs' = proofs /\ rollups' = rollups /\ seen' = seen
        /\ tree' = [tree EXCEPT ![p] = {}]
    BY <1>3, Zenon DEF DeleteSmirk
  <2>2. \A q \in Provers : q = p \/ tree'[q] = tree[q]
    BY <1>t, <2>1, Zenon
  <2> QED BY <2>1, <2>2, RootsExit, Zenon
<1>4. CASE SeeEmpty(p)
  <2>1. OfChain([height |-> h, root |-> RootAt(h)])
    BY Zenon DEF OfChain
  <2>2. /\ seen' = [seen EXCEPT ![p] = [height |-> h, root |-> RootAt(h)]] /\ pc[p] = "next"
        /\ UNCHANGED <<contract, txs, proofs, tree, rollups, pc, rpc, job>> /\ h \notin NonEmpty
    BY <1>4, Zenon DEF SeeEmpty, h, workVars, senderVars
  <2> QED BY <1>t, <1>r, <2>1, <2>2, Zenon DEF RootsOK, CommitHeight
<1>5. CASE LookForProof(p) \/ TryLock(p)
  <2>1. /\ UNCHANGED <<contract, txs, proofs, seen, tree, rollups, rpc, job>>
        /\ pc[p] \in {"next", "lock"}
        /\ \E to \in {"lock", "skip", "prove"} : pc' = [pc EXCEPT ![p] = to]
    BY <1>5, Zenon DEF LookForProof, TryLock, SetPc, diskVars, senderVars
  <2> QED BY <1>t, <2>1, Zenon DEF RootsOK, CommitHeight
<1>6. CASE SkipApply(p)
  <2>1. /\ tree' = [tree EXCEPT ![p] = @ \cup {h}] /\ pc' = [pc EXCEPT ![p] = "skipped"]
        /\ UNCHANGED <<contract, txs, proofs, seen, rollups, rpc, job>> /\ pc[p] = "skip"
    BY <1>6, Zenon DEF SkipApply, SetPc, h, senderVars
  <2>2. tree[p] \cup {h} = RootAt(h)
    BY <1>0, <1>r, <2>1, Zenon DEF RootsOK, AtBlock
  <2> QED BY <1>t, <2>1, <2>2, Zenon DEF RootsOK, CommitHeight, h
<1>7. CASE Prove(p)
  <2> DEFINE r == [height |-> h, old |-> tree[p], new |-> tree[p] \cup {h}]
  <2>1. /\ rollups' = [rollups EXCEPT ![p] = {x \in @ : x.height # h} \cup {r}]
        /\ UNCHANGED <<contract, txs, proofs, seen, tree, rpc, job>> /\ pc[p] = "prove"
        /\ pc' = [pc EXCEPT ![p] = "proved"] /\ tree[p] \cup {h} = RootAt(h)
    BY <1>7, Zenon DEF Prove, SetPc, h, senderVars
  <2>2. tree[p] = RootAt(seen[p].height)
    BY <2>1, Zenon DEF RootsOK
  <2>3. Sound(r)
    BY <1>0, <2>1, <2>2, Zenon DEF Sound
  <2> HIDE DEF r
  <2>4. \A q \in Provers : \A x \in rollups'[q] : x \in rollups[q] \/ x = r
    BY <1>t, <2>1, Zenon
  <2>5. \A q \in Provers : \A x \in rollups'[q] : Sound(x)
    BY <2>3, <2>4, Zenon DEF RootsOK
  <2> QED BY <1>t, <2>1, <2>5, Zenon DEF RootsOK, CommitHeight
<1>8. CASE ApplyProved(p)
  <2>1. /\ tree' = [tree EXCEPT ![p] = @ \cup {h}] /\ pc' = [pc EXCEPT ![p] = "applied"]
        /\ UNCHANGED <<contract, txs, proofs, seen, rollups, rpc, job>> /\ pc[p] = "proved"
    BY <1>8, Zenon DEF ApplyProved, SetPc, h, senderVars
  <2>2. tree[p] \cup {h} = RootAt(h)
    BY <1>0, <1>r, <2>1, Zenon DEF RootsOK, AtBlock
  <2> QED BY <1>t, <2>1, <2>2, Zenon DEF RootsOK, CommitHeight, h
<1>9. CASE SetLastSeen(p)
  <2>1. OfChain([height |-> h, root |-> RootAt(h)])
    BY Zenon DEF OfChain
  <2>2. /\ seen' = [seen EXCEPT ![p] = [height |-> h, root |-> RootAt(h)]]
        /\ \E to \in {"next", "insert"} : pc' = [pc EXCEPT ![p] = to]
        /\ UNCHANGED <<contract, txs, proofs, tree, rollups, rpc, job>>
        /\ pc[p] \in {"skipped", "applied"}
    BY <1>9, Zenon DEF SetLastSeen, SetPc, h, senderVars
  <2>3. tree[p] = RootAt(h)
    BY <2>2, Zenon DEF RootsOK, h
  <2> QED BY <1>t, <2>1, <2>2, <2>3, Zenon DEF RootsOK, CommitHeight
<1>10. CASE InsertProof(p)
  <2>1. /\ proofs' = proofs \cup {r \in rollups[p] : r.height = seen[p].height}
        /\ UNCHANGED <<contract, txs, seen, tree, rollups, rpc, job>>
        /\ pc[p] = "insert" /\ pc' = [pc EXCEPT ![p] = "next"]
    BY <1>10, Zenon DEF InsertProof, SetPc, diskVars, senderVars
  <2>2. \A r \in proofs' : Sound(r)
    BY <2>1, Zenon DEF RootsOK
  <2> QED BY <1>t, <2>1, <2>2, Zenon DEF RootsOK, CommitHeight
<1>11. CASE InsertPanics(p)
  BY <1>11, RootsExit, Zenon DEF InsertPanics, diskVars
<1> QED BY <1>1, <1>2, <1>3, <1>4, <1>5, <1>6, <1>7, <1>8, <1>9, <1>10, <1>11, Zenon DEF ProverWorker

(* So does every step.                                                     *)
LEMMA RootsStep ==
  ASSUME DataOK, ControlOK, RootsOK, ProverNext
  PROVE  RootsOK'
<1>1. CASE ChainGrows
  BY <1>1, Zenon DEF ChainGrows, RootsOK, ControlOK, CommitHeight, diskVars, senderVars
<1>2. ASSUME NEW p \in Provers, RollupWorker(p) \/ Mine(p) \/ Failure(p) PROVE RootsOK'
  <2>t. /\ job \in [Provers -> [rollup : Rollup \cup {NoJob.rollup}, pre : State]]
        /\ rpc \in [Provers -> {"down", "look", "send", "receipt"}] /\ txs \in SUBSET Tx
        /\ NextRollup(p) \subseteq rollups[p] /\ rollups[p] \in SUBSET Rollup /\ proofs \in SUBSET Rollup
    BY Zenon DEF DataOK, ControlOK, NextRollup
  <2>1. ASSUME NEW r \in rollups[p] \cup proofs, StartRound(p, r) PROVE RootsOK'
    <3>1. r \in Rollup /\ Sound(r)
      BY <2>t, Zenon DEF RootsOK
    <3>2. /\ job' = [job EXCEPT ![p] = [rollup |-> r, pre |-> contract]]
          /\ rpc' = [rpc EXCEPT ![p] = "send"]
          /\ UNCHANGED <<contract, txs, proofs, seen, tree, rollups, pc>>
      BY <2>1, Zenon DEF StartRound, SetRpc, diskVars, workVars
    <3> QED BY <2>t, <3>1, <3>2, Zenon DEF RootsOK, CommitHeight
  <2>2. CASE FindRollup(p) \/ FindMissedProof(p)
    BY <2>t, <2>1, <2>2, Zenon DEF FindRollup, FindMissedProof
  <2>3. ASSUME \/ txs' \subseteq txs
               \/ \E t \in Tx : rpc[p] = "send" /\ t.rollup = job[p].rollup /\ txs' = txs \cup {t}
        PROVE  \A t \in txs' : Sound(t.rollup)
    BY <2>3, Zenon DEF RootsOK
  <2>4. ASSUME UNCHANGED <<contract, proofs, seen, tree, rollups, pc, job>>,
               \A t \in txs' : Sound(t.rollup),
               \/ rpc' = rpc
               \/ rpc[p] = "send" /\ rpc' = [rpc EXCEPT ![p] = "receipt"]
        PROVE  RootsOK'
    BY <2>t, <2>4, Zenon DEF RootsOK, CommitHeight
  <2>5. CASE Send(p) \/ SendRefused(p) \/ SendLost(p)
    <3>1. /\ UNCHANGED <<contract, proofs, seen, tree, rollups, pc, job>>
          /\ rpc[p] = "send" /\ rpc' = [rpc EXCEPT ![p] = "receipt"]
          /\ \/ txs' = txs
             \/ \E b \in BOOLEAN : txs' = txs \cup {[from |-> p, rollup |-> job[p].rollup, awaited |-> b]}
      BY <2>5, Zenon DEF Send, SendRefused, SendLost, SetRpc, diskVars, workVars
    <3>2. \A b \in BOOLEAN :
            LET t == [from |-> p, rollup |-> job[p].rollup, awaited |-> b]
            IN  t \in Tx /\ t.rollup = job[p].rollup
      BY <2>t, <3>1, Zenon DEF Tx, RootsOK
    <3> QED BY <2>3, <2>4, <3>1, <3>2, Zenon
  <2>6. CASE Finish(p)
    <3>1. /\ job' = [job EXCEPT ![p] = NoJob] /\ rpc' = [rpc EXCEPT ![p] = "look"]
          /\ UNCHANGED <<contract, txs, proofs, seen, tree, rollups, pc>>
      BY <2>6, Zenon DEF Finish, EndRound, SetRpc, diskVars, workVars
    <3> QED BY <2>t, <3>1, Zenon DEF RootsOK, CommitHeight
  <2>7. CASE FinishTimeout(p) \/ Crash(p)
    BY <1>2, <2>7, RootsExit, Zenon DEF FinishTimeout, Crash, diskVars
  <2>8. CASE Mine(p)
    <3>1. PICK t \in txs :
            /\ txs' = txs \ {t}
            /\ contract' = IF Accepts(t.rollup)
                           THEN [height |-> t.rollup.height, root |-> t.rollup.new]
                           ELSE contract
      BY <2>8, Zenon DEF Mine
    <3>2. OfChain(contract')
      BY <3>1, Zenon DEF RootsOK, OfChain, Sound
    <3>3. UNCHANGED <<proofs, seen, tree, rollups, pc, job, rpc>>
      BY <2>8, Zenon DEF Mine, diskVars, workVars
    <3> QED BY <3>1, <3>2, <3>3, Zenon DEF RootsOK, CommitHeight
  <2>9. CASE Drop(p)
    <3>1. UNCHANGED <<contract, proofs, seen, tree, rollups, pc, job, rpc>> /\ txs' \subseteq txs
      BY <2>9, Zenon DEF Drop, diskVars, workVars
    <3> QED BY <2>3, <2>4, <3>1, Zenon
  <2>10. ASSUME NEW err \in {"done", "timeout"}, GiveUp(p, err) PROVE RootsOK'
    <3>1. UNCHANGED <<contract, proofs, seen, tree, rollups, pc, job, rpc>>
      BY <2>10, Zenon DEF GiveUp, diskVars, workVars
    <3>u. Unawaited(txs, p, txs')
      BY <2>10, Zenon DEF GiveUp, Unawaited
    <3>v. txs \in SUBSET Tx
      BY Zenon DEF DataOK
    <3>2. SameCalls(txs, txs')
      BY <3>u, <3>v, UnawaitedIs, Zenon
    <3>3. \A u \in txs' : Sound(u.rollup)
      BY <3>2, Zenon DEF RootsOK, SameCalls
    <3> QED BY <2>4, <3>1, <3>3, Zenon
  <2> QED BY <1>2, <2>2, <2>5, <2>6, <2>7, <2>8, <2>9, <2>10, Zenon DEF RollupWorker, Failure
<1>3. Faulty \subseteq Provers
  BY ProverAssumption, Zenon
<1> QED BY <1>1, <1>2, <1>3, RootsWorker, Zenon DEF ProverNext

-----------------------------------------------------------------------------
(* The locks.  Nothing that was kept or listed is ever removed, and the    *)
(* contract's height only grows.                                           *)
Grows ==
  /\ \A q \in Provers : \A h : Kept(q, h) => Kept(q, h)'
  /\ \A r \in proofs : r \in proofs'
  /\ contract.height <= contract'.height

(* No step takes back what the chain, the contract, the table or a disk    *)
(* has.                                                                    *)
LEMMA StepGrows ==
  ASSUME DataOK, ControlOK, DataOK', ProverNext
  PROVE  Grows
<1>c. contract.height \in Nat /\ contract'.height \in Nat
  <2>1. contract \in State /\ contract' \in State
    BY Zenon DEF DataOK
  <2> QED BY <2>1 DEF State
<1>1. rollups' = rollups \/ \E p \in Provers : Prove(p)
  BY ZenonT(30) DEF ProverNext, ChainGrows, ProverWorker, RollupWorker, Failure, Crash, Start, ResetLastSeen,
     DeleteSmirk, SeeEmpty, LookForProof, TryLock, SkipApply, ApplyProved, SetLastSeen, InsertProof,
     InsertPanics, StartRound, FindRollup, FindMissedProof, Send, SendRefused, SendLost, GiveUp, Mine,
     Drop, Finish, FinishTimeout, diskVars
<1>2. proofs' = proofs \/ \E p \in Provers : InsertProof(p)
  BY ZenonT(30) DEF ProverNext, ChainGrows, ProverWorker, RollupWorker, Failure, Crash, Start, ResetLastSeen,
     DeleteSmirk, SeeEmpty, LookForProof, TryLock, SkipApply, Prove, ApplyProved, SetLastSeen,
     InsertPanics, StartRound, FindRollup, FindMissedProof, Send, SendRefused, SendLost, GiveUp, Mine,
     Drop, Finish, FinishTimeout
<1>3. contract' = contract \/ \E p \in Provers : Mine(p)
  BY ZenonT(30) DEF ProverNext, ChainGrows, ProverWorker, RollupWorker, Failure, Crash, Start, ResetLastSeen,
     DeleteSmirk, SeeEmpty, LookForProof, TryLock, SkipApply, Prove, ApplyProved, SetLastSeen,
     InsertPanics, InsertProof, StartRound, FindRollup, FindMissedProof, Send, SendRefused, SendLost,
     GiveUp, Drop, Finish, FinishTimeout
<1>4. ASSUME NEW p \in Provers, Prove(p), NEW q \in Provers, NEW h, Kept(q, h)
      PROVE  Kept(q, h)'
  <2>1. rollups \in [Provers -> SUBSET Rollup]
    BY Zenon DEF DataOK
  <2> DEFINE new == [height |-> CommitHeight(p), old |-> tree[p], new |-> tree[p] \cup {CommitHeight(p)}]
  <2>2. rollups' = [rollups EXCEPT ![p] = {r \in @ : r.height # CommitHeight(p)} \cup {new}]
    BY <1>4, Zenon DEF Prove
  <2>3. new.height = CommitHeight(p)
    BY Zenon
  <2> HIDE DEF new
  <2> QED BY <1>4, <2>1, <2>2, <2>3, Zenon DEF Kept
<1>5. \A q \in Provers : \A h : Kept(q, h) => Kept(q, h)'
  BY <1>1, <1>4, Zenon DEF Kept
<1>6. \A r \in proofs : r \in proofs'
  BY <1>2, Zenon DEF InsertProof
<1>7. contract.height <= contract'.height
  <2>1. CASE contract' = contract
    BY <1>c, <2>1
  <2>2. ASSUME NEW p \in Provers, Mine(p) PROVE contract.height <= contract'.height
    <3>1. PICK t \in txs :
            contract' = IF Accepts(t.rollup)
                        THEN [height |-> t.rollup.height, root |-> t.rollup.new] ELSE contract
      BY <2>2, Zenon DEF Mine
    <3>2. CASE Accepts(t.rollup)
      <4>1. contract'.height = t.rollup.height
        BY <3>1, <3>2, Zenon
      <4> QED BY <1>c, <3>2, <4>1 DEF Accepts
    <3>3. CASE ~ Accepts(t.rollup)
      BY <1>c, <3>1, <3>3
    <3> QED BY <3>2, <3>3, Zenon
  <2> QED BY <1>3, <2>1, <2>2, Zenon
<1> QED BY <1>5, <1>6, <1>7, Zenon DEF Grows

(* The other provers are not concerned.                                    *)
LEMMA OthersAtWork ==
  ASSUME DataOK, DataOK', Grows, NEW q \in Provers, AtWorkOK(q),
         pc'[q] = pc[q], seen'[q] = seen[q], locks'[q] = locks[q], initial'[q] = initial[q]
  PROVE  AtWorkOK(q)'
<1>1. \A h : Listed(h) => Listed(h)'
  BY Zenon DEF Listed, Grows
<1>2. CommitHeight(q)' = CommitHeight(q)
  BY Zenon DEF CommitHeight
<1>3. \A l \in locks[q] : LockOK(q, l) => LockOK(q, l)'
  BY <1>1, <1>2, Zenon DEF LockOK
<1>4. initial'[q] <= contract'.height
  <2>1. contract \in State /\ contract' \in State /\ initial[q] \in Nat
    BY HeightFacts, Zenon DEF DataOK
  <2> QED BY <2>1 DEF State, AtWorkOK, Grows
<1>5. \A h : Kept(q, h) => Kept(q, h)'
  BY Zenon DEF Grows
<1> QED BY <1>2, <1>3, <1>4, <1>5, Zenon DEF AtWorkOK

(* A prover process that ends leaves nothing that its locks stood for      *)
(* undone.                                                                 *)
LEMMA ExitAtWork ==
  ASSUME DataOK, DataOK', ControlOK, Grows, LocksOK, NEW p \in Provers, Exit(p), seen'[p] = seen[p]
  PROVE  AtWorkOK(p)'
<1>1. pc'[p] = "down" /\ initial'[p] = 0 /\ locks'[p] = {}
  BY DEF Exit, ControlOK, DataOK
<1>2. contract' \in State
  BY Zenon DEF DataOK
<1>3. 0 <= contract'.height
  BY <1>2 DEF State
<1> QED BY <1>1, <1>3, Zenon DEF AtWorkOK

(* A step of one prover leaves the prover worker of another alone.         *)
LEMMA OnlyOwn ==
  ASSUME DataOK, ControlOK, NEW p \in Provers,
         ProverWorker(p) \/ RollupWorker(p) \/ Mine(p) \/ Failure(p),
         NEW q \in Provers, q # p
  PROVE  pc'[q] = pc[q] /\ seen'[q] = seen[q] /\ locks'[q] = locks[q] /\ initial'[q] = initial[q]
<1>t. /\ pc \in [Provers -> Pcs] /\ seen \in [Provers -> State]
      /\ locks \in [Provers -> SUBSET Lock] /\ initial \in [Provers -> 0 .. MaxHeight]
  BY Zenon DEF DataOK, ControlOK
<1>1. pc' = pc \/ \E x : pc' = [pc EXCEPT ![p] = x]
  BY Zenon DEF ProverWorker, RollupWorker, Failure, Crash, Exit, Start, ResetLastSeen,
     DeleteSmirk, SeeEmpty, LookForProof, TryLock, SkipApply, Prove, ApplyProved, SetLastSeen, SetPc,
     InsertPanics, InsertProof, StartRound, FindRollup, FindMissedProof, Send, SendRefused, SendLost,
     GiveUp, Mine, Drop, Finish, FinishTimeout, workVars
<1>2. seen' = seen \/ \E x : seen' = [seen EXCEPT ![p] = x]
  BY Zenon DEF ProverWorker, RollupWorker, Failure, Crash, Start, ResetLastSeen,
     DeleteSmirk, SeeEmpty, LookForProof, TryLock, SkipApply, Prove, ApplyProved, SetLastSeen,
     InsertPanics, InsertProof, StartRound, FindRollup, FindMissedProof, Send, SendRefused, SendLost,
     GiveUp, Mine, Drop, Finish, FinishTimeout, diskVars
<1>3. locks' = locks \/ \E x : locks' = [locks EXCEPT ![p] = x]
  BY Zenon DEF ProverWorker, RollupWorker, Failure, Crash, Exit, Start, ResetLastSeen,
     DeleteSmirk, SeeEmpty, LookForProof, TryLock, SkipApply, Prove, ApplyProved, SetLastSeen,
     InsertPanics, InsertProof, StartRound, FindRollup, FindMissedProof, Send, SendRefused, SendLost,
     GiveUp, Mine, Drop, Finish, EndRound, FinishTimeout
<1>4. initial' = initial \/ \E x : initial' = [initial EXCEPT ![p] = x]
  BY Zenon DEF ProverWorker, RollupWorker, Failure, Crash, Exit, Start, ResetLastSeen,
     DeleteSmirk, SeeEmpty, LookForProof, TryLock, SkipApply, Prove, ApplyProved, SetLastSeen,
     InsertPanics, InsertProof, StartRound, FindRollup, FindMissedProof, Send, SendRefused, SendLost,
     GiveUp, Mine, Drop, Finish, FinishTimeout, workVars
<1> QED BY <1>t, <1>1, <1>2, <1>3, <1>4, Zenon

(* A prover that has no block in hand only holds locks as a sender.        *)
SenderOnly(p) == \A l \in locks[p] : l.by = "sender" /\ Listed(l.height)

(* Between two blocks a prover holds only the locks of its rollup worker.  *)
LEMMA AtRest ==
  ASSUME DataOK, LocksOK, NEW p \in Provers, pc[p] \notin {"prove", "proved", "applied", "insert"}
  PROVE  SenderOnly(p)
<1>1. AtWorkOK(p)
  BY Zenon DEF LocksOK
<1>2. \A l \in locks[p] : LockOK(p, l)
  BY <1>1, Zenon DEF AtWorkOK
<1> QED BY <1>2, Zenon DEF SenderOnly, LockOK

(* What is left to show when the prover still only holds such locks.       *)
LEMMA StaysAtRest ==
  ASSUME DataOK, DataOK', Grows, NEW p \in Provers, SenderOnly(p), locks'[p] = locks[p],
         initial'[p] <= contract'.height,
         pc'[p] \notin {"proved", "applied", "insert"}
  PROVE  AtWorkOK(p)'
<1>1. \A h : Listed(h) => Listed(h)'
  BY Zenon DEF Listed, Grows
<1>2. \A l \in locks[p] : LockOK(p, l)'
  BY <1>1, Zenon DEF LockOK, SenderOnly
<1> QED BY <1>2, Zenon DEF AtWorkOK

(* Steps of the prover worker keep what its locks stand for.               *)
LEMMA AtWorkStep ==
  ASSUME DataOK, DataOK', ControlOK, Grows, LocksOK, NEW p \in Provers, ProverWorker(p)
  PROVE  AtWorkOK(p)'
<1>t. /\ pc \in [Provers -> Pcs] /\ seen \in [Provers -> State]
      /\ locks \in [Provers -> SUBSET Lock] /\ initial \in [Provers -> 0 .. MaxHeight]
      /\ rollups \in [Provers -> SUBSET Rollup]
  BY Zenon DEF DataOK, ControlOK
<1>w. AtWorkOK(p)
  BY Zenon DEF LocksOK
<1>c. /\ contract.height \in Nat /\ contract'.height \in Nat /\ initial[p] \in Nat
      /\ contract.height <= contract'.height /\ initial[p] <= contract'.height
  <2>1. contract \in State /\ contract' \in State
    BY Zenon DEF DataOK
  <2>2. contract.height \in Nat /\ contract'.height \in Nat
    BY <2>1 DEF State
  <2> QED BY <1>w, <2>2, HeightFacts DEF AtWorkOK, Grows
<1>1. CASE Start(p)
  <2>1. /\ pc[p] = "down" /\ pc'[p] \in {"listening", "mismatch"} /\ initial'[p] = contract.height
        /\ locks' = locks
    BY <1>t, <1>1, Zenon DEF Start
  <2> QED BY <1>c, <2>1, AtRest, StaysAtRest, Zenon
<1>2. CASE ResetLastSeen(p)
  <2>1. pc[p] = "mismatch" /\ pc'[p] = "deleting" /\ initial' = initial /\ locks' = locks
    BY <1>t, <1>2, Zenon DEF ResetLastSeen
  <2> QED BY <1>c, <2>1, AtRest, StaysAtRest, Zenon
<1>3. CASE DeleteSmirk(p)
  BY <1>3, ExitAtWork, Zenon DEF DeleteSmirk
<1>4. CASE SeeEmpty(p)
  <2>1. pc[p] = "next" /\ pc' = pc /\ initial' = initial /\ locks' = locks
    BY <1>t, <1>4, Zenon DEF SeeEmpty, workVars
  <2> QED BY <1>c, <2>1, AtRest, StaysAtRest, Zenon
<1>5. CASE LookForProof(p)
  <2>1. pc[p] = "next" /\ pc'[p] \in {"skip", "lock"} /\ initial' = initial /\ locks' = locks
    BY <1>t, <1>5, Zenon DEF LookForProof, SetPc
  <2> QED BY <1>c, <2>1, AtRest, StaysAtRest, Zenon
<1>6. CASE TryLock(p)
  <2>0. pc[p] = "lock" /\ initial' = initial /\ proofs' = proofs
    BY <1>6, Zenon DEF TryLock
  <2>s. SenderOnly(p)
    BY <2>0, AtRest, Zenon
  <2>1. CASE pc'[p] = "skip" /\ locks' = locks
    BY <1>c, <2>0, <2>s, <2>1, StaysAtRest, Zenon
  <2>2. CASE ~ LockedByOther(p, CommitHeight(p))
    <3>0. PICK new : new = [height |-> CommitHeight(p), by |-> "prover"]
      BY Zenon
    <3>1. /\ pc'[p] = "prove" /\ CommitHeight(p)' = CommitHeight(p) /\ proofs' = proofs
          /\ locks'[p] = locks[p] \cup {new}
      BY <1>t, <1>6, <2>2, <3>0, Zenon DEF TryLock, SetPc, CommitHeight, diskVars
    <3>n. new.height = CommitHeight(p) /\ new.by # "sender"
      BY <3>0, Zenon
    <3>2. LockOK(p, new)'
      BY <3>1, <3>n, Zenon DEF LockOK
    <3>3. \A l \in locks[p] : LockOK(p, l)'
      BY <2>s, <3>1, Zenon DEF LockOK, SenderOnly, Listed
    <3>4. \A l \in locks'[p] : LockOK(p, l)'
      BY <3>1, <3>2, <3>3, Zenon
    <3> QED BY <1>c, <2>0, <3>1, <3>4, Zenon DEF AtWorkOK
  <2> QED BY <1>t, <1>6, <2>1, <2>2, Zenon DEF TryLock, SetPc
<1>7. CASE SkipApply(p)
  <2>1. pc[p] = "skip" /\ pc'[p] = "skipped" /\ initial' = initial /\ locks' = locks
    BY <1>t, <1>7, Zenon DEF SkipApply, SetPc
  <2> QED BY <1>c, <2>1, AtRest, StaysAtRest, Zenon
<1>8. CASE Prove(p) \/ ApplyProved(p)
  <2>1. /\ pc[p] \in {"prove", "proved"} /\ pc'[p] \in {"proved", "applied"} /\ initial' = initial
        /\ locks' = locks /\ seen' = seen /\ proofs' = proofs
    BY <1>t, <1>8, Zenon DEF Prove, ApplyProved, SetPc
  <2>2. CommitHeight(p)' = CommitHeight(p)
    BY <2>1, Zenon DEF CommitHeight
  <2>3. \A l \in locks[p] : LockOK(p, l)'
    BY <1>w, <2>1, <2>2, Zenon DEF AtWorkOK, LockOK, Listed
  <2>4. Kept(p, CommitHeight(p))'
    <3>1. CASE ApplyProved(p)
      <4>1. Kept(p, CommitHeight(p))
        BY <1>w, <3>1, Zenon DEF AtWorkOK, ApplyProved
      <4> QED BY <2>2, <4>1, <3>1, Zenon DEF ApplyProved, Kept
    <3>2. CASE Prove(p)
      <4> DEFINE new == [height |-> CommitHeight(p), old |-> tree[p], new |-> tree[p] \cup {CommitHeight(p)}]
      <4>1. new \in rollups'[p]
        BY <1>t, <3>2, Zenon DEF Prove
      <4>2. new.height = CommitHeight(p)
        BY Zenon
      <4> HIDE DEF new
      <4> QED BY <2>2, <4>1, <4>2, Zenon DEF Kept
    <3> QED BY <1>8, <3>1, <3>2, Zenon
  <2> QED BY <1>c, <2>1, <2>3, <2>4, Zenon DEF AtWorkOK
<1>9. CASE SetLastSeen(p)
  <2>0. /\ locks' = locks /\ initial' = initial /\ rollups' = rollups /\ proofs' = proofs
        /\ pc[p] \in {"skipped", "applied"}
        /\ pc'[p] = IF pc[p] = "skipped" THEN "next" ELSE "insert"
        /\ seen'[p].height = CommitHeight(p)
    BY <1>t, <1>9, Zenon DEF SetLastSeen, SetPc
  <2>1. CASE pc[p] = "skipped"
    BY <1>c, <2>0, <2>1, AtRest, StaysAtRest, Zenon
  <2>2. CASE pc[p] = "applied"
    <3>1. \A l \in locks[p] : LockOK(p, l)'
      BY <1>w, <2>0, <2>2, Zenon DEF AtWorkOK, LockOK, Listed
    <3>2. Kept(p, seen[p].height)'
      BY <1>w, <2>0, <2>2, Zenon DEF AtWorkOK, Kept
    <3> QED BY <1>c, <2>0, <2>2, <3>1, <3>2, Zenon DEF AtWorkOK
  <2> QED BY <2>0, <2>1, <2>2, Zenon
<1>10. CASE InsertProof(p)
  <2>1. /\ locks'[p] = {l \in locks[p] : l.by # "prover"} /\ initial' = initial /\ pc'[p] = "next"
    BY <1>t, <1>10, Zenon DEF InsertProof, SetPc
  <2>2. \A h : Listed(h) => Listed(h)'
    BY Zenon DEF Listed, Grows
  <2>3. \A l \in locks[p] : l.by = "sender" \/ l.by = "prover"
    BY <1>t DEF Lock
  <2>4. \A l \in locks'[p] : LockOK(p, l)'
    BY <1>w, <2>1, <2>2, <2>3, Zenon DEF AtWorkOK, LockOK
  <2> QED BY <1>c, <2>1, <2>4, Zenon DEF AtWorkOK
<1>11. CASE InsertPanics(p)
  BY <1>11, ExitAtWork, Zenon DEF InsertPanics, diskVars
<1> QED BY <1>1, <1>2, <1>3, <1>4, <1>5, <1>6, <1>7, <1>8, <1>9, <1>10, <1>11, Zenon DEF ProverWorker

(* The rollup worker only locks what is listed.                            *)
MoreLocked(p) ==
  \A l \in locks'[p] :
    l \in locks[p] \/ \E r \in proofs : l = [height |-> r.height, by |-> "sender"]

(* So does every step.                                                     *)
LEMMA LocksStep ==
  ASSUME DataOK, DataOK', ControlOK, Grows, LocksOK, ProverNext
  PROVE  LocksOK'
<1>t. /\ pc \in [Provers -> Pcs] /\ locks \in [Provers -> SUBSET Lock]
  BY Zenon DEF DataOK, ControlOK
<1>1. ASSUME NEW r \in proofs' PROVE \E q \in Provers : Kept(q, r.height)'
  <2>1. CASE r \in proofs
    BY <2>1, Zenon DEF LocksOK, Grows
  <2>2. CASE r \notin proofs
    <3>1. PICK p \in Provers : InsertProof(p)
      BY <1>1, <2>2, ZenonT(30) DEF ProverNext, ChainGrows, ProverWorker, RollupWorker, Failure, Crash, Start,
         ResetLastSeen, DeleteSmirk, SeeEmpty, LookForProof, TryLock, SkipApply, Prove, ApplyProved,
         SetLastSeen, InsertPanics, StartRound, FindRollup, FindMissedProof, Send, SendRefused, SendLost,
         GiveUp, Mine, Drop, Finish, FinishTimeout
    <3>2. r \in rollups[p] /\ rollups' = rollups
      BY <1>1, <2>2, <3>1, Zenon DEF InsertProof, diskVars
    <3> QED BY <3>2, Zenon DEF Kept
  <2> QED BY <2>1, <2>2, Zenon
<1>2. CASE ChainGrows
  <2>1. /\ UNCHANGED <<seen, locks, initial, contract>>
        /\ pc' = [p \in Provers |-> IF pc[p] = "listening" THEN "next" ELSE pc[p]]
    BY <1>2, Zenon DEF ChainGrows, diskVars
  <2>2. ASSUME NEW q \in Provers PROVE AtWorkOK(q)'
    <3>1. AtWorkOK(q)
      BY Zenon DEF LocksOK
    <3>2. CASE pc[q] = "listening"
      <4>1. pc'[q] = "next" /\ initial'[q] <= contract'.height
        BY <2>1, <3>1, <3>2, Zenon DEF AtWorkOK
      <4> QED BY <2>1, <3>2, <4>1, AtRest, StaysAtRest, Zenon
    <3>3. CASE pc[q] # "listening"
      BY <2>1, <3>1, <3>3, OthersAtWork, Zenon
    <3> QED BY <3>2, <3>3, Zenon
  <2> QED BY <1>1, <2>2, Zenon DEF LocksOK
<1>3. ASSUME NEW p \in Provers, ProverWorker(p) \/ RollupWorker(p) \/ Mine(p) \/ Failure(p)
      PROVE  LocksOK'
  <2>1. ASSUME NEW q \in Provers, q # p PROVE AtWorkOK(q)'
    <3>1. AtWorkOK(q)
      BY Zenon DEF LocksOK
    <3>2. pc'[q] = pc[q] /\ seen'[q] = seen[q] /\ locks'[q] = locks[q] /\ initial'[q] = initial[q]
      BY <1>3, <2>1, OnlyOwn, Zenon
    <3> QED BY <3>1, <3>2, OthersAtWork, Zenon
  <2>w. AtWorkOK(p)
    BY Zenon DEF LocksOK
  <2>2. ASSUME pc' = pc, seen' = seen, initial' = initial, MoreLocked(p)
        PROVE  AtWorkOK(p)'
    <3>1. ASSUME NEW l \in locks[p] PROVE LockOK(p, l)'
      <4>1. LockOK(p, l)
        BY <2>w, <3>1, Zenon DEF AtWorkOK
      <4>2. Listed(l.height) => Listed(l.height)'
        BY Zenon DEF Listed, Grows
      <4> QED BY <2>2, <4>1, <4>2, Zenon DEF LockOK, CommitHeight
    <3>2. ASSUME NEW r \in proofs, NEW l, l = [height |-> r.height, by |-> "sender"] PROVE LockOK(p, l)'
      <4>1. l.by = "sender" /\ l.height = r.height
        BY <3>2, Zenon
      <4>2. Listed(l.height)'
        BY <4>1, Zenon DEF Listed, Grows
      <4> QED BY <4>1, <4>2, Zenon DEF LockOK
    <3>3. \A l \in locks'[p] : LockOK(p, l)'
      BY <2>2, <3>1, <3>2, Zenon DEF MoreLocked
    <3>4. initial'[p] <= contract'.height
      <4>1. contract \in State /\ contract' \in State /\ initial[p] \in Nat
        BY HeightFacts, Zenon DEF DataOK
      <4> QED BY <2>w, <2>2, <4>1 DEF State, AtWorkOK, Grows
    <3>5. \A h : Kept(p, h) => Kept(p, h)'
      BY Zenon DEF Grows
    <3> QED BY <2>w, <2>2, <3>3, <3>4, <3>5, Zenon DEF AtWorkOK, CommitHeight
  <2>3. ASSUME FindMissedProof(p) PROVE AtWorkOK(p)'
    <3>1. /\ pc' = pc /\ seen' = seen /\ initial' = initial
          /\ \E r \in proofs : locks'[p] = locks[p] \cup {[height |-> r.height, by |-> "sender"]}
      BY <1>t, <2>3, Zenon DEF FindMissedProof, StartRound, diskVars, workVars
    <3>2. MoreLocked(p)
      BY <3>1, Zenon DEF MoreLocked
    <3> QED BY <2>2, <3>1, <3>2, Zenon
  <2>4. ASSUME Finish(p) PROVE AtWorkOK(p)'
    <3>1. /\ pc' = pc /\ seen' = seen /\ initial' = initial
          /\ locks'[p] = {l \in locks[p] : l.by # "sender"}
      BY <1>t, <2>4, Zenon DEF Finish, EndRound, diskVars, workVars
    <3>2. MoreLocked(p)
      BY <3>1, Zenon DEF MoreLocked
    <3> QED BY <2>2, <3>1, <3>2, Zenon
  <2>5. ASSUME FindRollup(p) \/ Send(p) \/ SendRefused(p) \/ SendLost(p) \/ Mine(p) \/ Drop(p)
                 \/ \E err \in {"done", "timeout"} : GiveUp(p, err)
        PROVE  AtWorkOK(p)'
    <3>1. pc' = pc /\ seen' = seen /\ initial' = initial /\ locks' = locks
      BY <2>5, Zenon DEF FindRollup, StartRound, Send, SendRefused, SendLost, Mine, Drop, GiveUp,
         diskVars, workVars
    <3>2. MoreLocked(p)
      BY <3>1, Zenon DEF MoreLocked
    <3> QED BY <2>2, <3>1, <3>2, Zenon
  <2>6. ASSUME FinishTimeout(p) \/ Crash(p) PROVE AtWorkOK(p)'
    <3>1. Exit(p) /\ seen' = seen
      BY <2>6, Zenon DEF FinishTimeout, Crash, diskVars
    <3>2. seen'[p] = seen[p]
      BY <3>1, Zenon
    <3> QED BY <3>1, <3>2, ExitAtWork, Zenon
  <2>7. ASSUME ProverWorker(p) PROVE AtWorkOK(p)'
    BY <2>7, AtWorkStep, Zenon
  <2>8. AtWorkOK(p)'
    BY <1>3, <2>3, <2>4, <2>5, <2>6, <2>7, Zenon DEF RollupWorker, Failure
  <2> QED BY <1>1, <2>1, <2>8, Zenon DEF LocksOK
<1>4. Faulty \subseteq Provers
  BY ProverAssumption, Zenon
<1> QED BY <1>2, <1>3, <1>4, Zenon DEF ProverNext

-----------------------------------------------------------------------------
(* No block is lost.  A prover goes on to skip a block only if the         *)
(* contract has it, or another prover keeps or proves it.                  *)
ToBeSettled(h) == h \in NonEmpty \ BadBlocks /\ h > contract.height

HasBlock(p, h) == Coming(p, h) \/ Kept(p, h)

(* What the owner of a lock on a block does with it.                       *)
LEMMA LockMeans ==
  ASSUME DataOK, ControlOK, LocksOK, NEW q \in Provers, NEW l \in locks[q]
  PROVE  \E p \in Provers : (Coming(p, l.height) /\ p = q) \/ Kept(p, l.height)
<1>1. AtWorkOK(q)
  BY Zenon DEF LocksOK
<1>2. LockOK(q, l)
  BY <1>1, Zenon DEF AtWorkOK
<1>3. CASE l.by = "sender"
  <2>1. Listed(l.height)
    BY <1>2, <1>3, Zenon DEF LockOK
  <2> QED BY <2>1, Zenon DEF LocksOK, Listed
<1>4. CASE pc[q] = "prove" /\ CommitHeight(q) = l.height
  <2>1. CommitHeight(q) = seen[q].height + 1 /\ seen[q].height \in Nat
    BY HeightFacts, Zenon
  <2>2. Coming(q, l.height)
    BY <1>4, <2>1 DEF Coming
  <2> QED BY <2>2, Zenon
<1>5. CASE pc[q] \in {"proved", "applied"} /\ CommitHeight(q) = l.height
  BY <1>1, <1>5, Zenon DEF AtWorkOK
<1>6. CASE pc[q] = "insert" /\ seen[q].height = l.height
  BY <1>1, <1>6, Zenon DEF AtWorkOK
<1> QED BY <1>2, <1>3, <1>4, <1>5, <1>6, Zenon DEF LockOK

(* A block that a prover has not seen stays so when it neither moves on    *)
(* nor skips.                                                              *)
LEMMA StillComing ==
  ASSUME NEW q, NEW h, Coming(q, h), seen'[q] = seen[q],
         pc'[q] = pc[q] \/ pc'[q] \notin {"skip", "skipped"}
  PROVE  Coming(q, h)'
BY Zenon DEF Coming, CommitHeight

(* Every step leaves each missing block kept by, or coming to, some        *)
(* prover.                                                                 *)
LEMMA BlocksStep ==
  ASSUME DataOK, DataOK', ControlOK, LocksOK, Grows, BlocksOK, ProverNext
  PROVE  BlocksOK'
<1> SUFFICES ASSUME NEW h \in NonEmpty \ BadBlocks, h > contract'.height
             PROVE  \E q \in Provers : HasBlock(q, h)'
  BY Zenon DEF BlocksOK, HasBlock
<1>t. /\ pc \in [Provers -> Pcs] /\ seen \in [Provers -> State]
  BY Zenon DEF DataOK, ControlOK
<1>n. /\ contract.height \in Nat /\ contract'.height \in Nat /\ h \in Nat /\ h > contract.height /\ h > 0
  <2>1. contract \in State /\ contract' \in State
    BY Zenon DEF DataOK
  <2>2. contract.height \in Nat /\ contract'.height \in Nat /\ h \in Nat
    BY <2>1, ProverAssumption DEF State
  <2> QED BY <2>2 DEF Grows
<1>k. \A q \in Provers : Kept(q, h) => HasBlock(q, h)'
  BY Zenon DEF Grows, HasBlock
<1>o. PICK o \in Provers : HasBlock(o, h)
  BY <1>n, Zenon DEF BlocksOK, HasBlock
<1>1. CASE ChainGrows
  <2>1. seen' = seen /\ (pc'[o] = pc[o] \/ pc'[o] \notin {"skip", "skipped"})
    BY <1>1, Zenon DEF ChainGrows, diskVars
  <2> QED BY <1>k, <1>o, <2>1, StillComing, Zenon DEF HasBlock
<1>2. ASSUME NEW p \in Provers, ProverWorker(p) \/ RollupWorker(p) \/ Mine(p) \/ Failure(p)
      PROVE  \E q \in Provers : HasBlock(q, h)'
  <2>1. ASSUME NEW q \in Provers, q # p, HasBlock(q, h) PROVE HasBlock(q, h)'
    <3>1. pc'[q] = pc[q] /\ seen'[q] = seen[q]
      BY <1>2, <2>1, OnlyOwn, Zenon
    <3> QED BY <1>k, <2>1, <3>1, StillComing, Zenon DEF HasBlock
  <2>2. CASE seen' = seen /\ (pc'[p] = pc[p] \/ pc'[p] \notin {"skip", "skipped"})
    <3>1. HasBlock(p, h) => HasBlock(p, h)'
      BY <1>k, <2>2, StillComing, Zenon DEF HasBlock
    <3> QED BY <1>o, <2>1, <3>1, Zenon
  <2>m. CommitHeight(p) = seen[p].height + 1 /\ seen[p].height \in Nat
    BY HeightFacts, Zenon
  <2>3. CASE ResetLastSeen(p)
    <3>1. seen'[p].height = 0 /\ pc'[p] = "deleting"
      BY <1>t, <2>3, NothingFacts, Zenon DEF ResetLastSeen
    <3>2. Coming(p, h)'
      BY <1>n, <3>1, Zenon DEF Coming
    <3> QED BY <3>2, Zenon DEF HasBlock
  <2>4. CASE SeeEmpty(p)
    <3>1. pc' = pc /\ pc[p] = "next" /\ seen'[p].height = CommitHeight(p) /\ CommitHeight(p) # h
      BY <1>t, <2>4, Zenon DEF SeeEmpty, workVars
    <3>2. Coming(p, h) => Coming(p, h)'
      BY <1>n, <2>m, <3>1 DEF Coming
    <3> QED BY <1>k, <1>o, <2>1, <3>2, Zenon DEF HasBlock
  <2>5. CASE (LookForProof(p) \/ TryLock(p)) /\ pc'[p] = "skip"
    <3>0. seen' = seen
      BY <2>5, Zenon DEF LookForProof, TryLock, diskVars
    <3>1. CASE CommitHeight(p) # h
      <4>1. Coming(p, h) => Coming(p, h)'
        BY <3>0, <3>1, Zenon DEF Coming, CommitHeight
      <4> QED BY <1>k, <1>o, <2>1, <4>1, Zenon DEF HasBlock
    <3>2. CASE CommitHeight(p) = h /\ LookForProof(p)
      <4>1. initial[p] >= h \/ h \in BadBlocks \/ \E r \in proofs : r.height = h
        BY <1>t, <2>5, <3>2, Zenon DEF LookForProof, SetPc
      <4>2. AtWorkOK(p)
        BY Zenon DEF LocksOK
      <4>3. ~ (initial[p] >= h)
        <5>1. initial[p] <= contract.height /\ initial[p] \in Nat
          BY <4>2, HeightFacts, Zenon DEF AtWorkOK
        <5> QED BY <1>n, <5>1
      <4>4. \E q \in Provers : Kept(q, h)
        BY <4>1, <4>3, Zenon DEF LocksOK
      <4> QED BY <1>k, <4>4, Zenon
    <3>3. CASE CommitHeight(p) = h /\ TryLock(p)
      <4>1. LockedByOther(p, h)
        BY <1>t, <2>5, <3>3, Zenon DEF TryLock, SetPc
      <4>2. PICK q \in Provers \ {p} : \E l \in locks[q] : l.height = h
        BY <4>1, Zenon DEF LockedByOther
      <4>3. PICK x \in Provers : (Coming(x, h) /\ x = q) \/ Kept(x, h)
        BY <4>2, LockMeans, Zenon
      <4> QED BY <1>k, <2>1, <4>2, <4>3, Zenon DEF HasBlock
    <3> QED BY <2>5, <3>1, <3>2, <3>3, Zenon
  <2>6. CASE SkipApply(p)
    <3>1. seen' = seen /\ pc[p] = "skip" /\ pc'[p] = "skipped"
      BY <1>t, <2>6, Zenon DEF SkipApply, SetPc
    <3>2. Coming(p, h) => Coming(p, h)'
      BY <3>1, Zenon DEF Coming, CommitHeight
    <3> QED BY <1>k, <1>o, <2>1, <3>2, Zenon DEF HasBlock
  <2>7. CASE SetLastSeen(p)
    <3>1. /\ seen'[p].height = CommitHeight(p) /\ pc'[p] \in {"next", "insert"}
          /\ pc[p] \in {"skipped", "applied"}
      BY <1>t, <2>7, Zenon DEF SetLastSeen, SetPc
    <3>2. Coming(p, h) => Coming(p, h)' \/ (pc[p] = "applied" /\ CommitHeight(p) = h)
      BY <1>n, <2>m, <3>1 DEF Coming
    <3>3. pc[p] = "applied" /\ CommitHeight(p) = h => Kept(p, h)
      BY Zenon DEF LocksOK, AtWorkOK
    <3> QED BY <1>k, <1>o, <2>1, <3>2, <3>3, Zenon DEF HasBlock
  <2>8. CASE (LookForProof(p) \/ TryLock(p)) /\ pc'[p] # "skip"
    <3>1. seen' = seen /\ pc'[p] \notin {"skip", "skipped"}
      BY <1>t, <2>8, Zenon DEF LookForProof, TryLock, SetPc, diskVars
    <3> QED BY <2>2, <3>1, Zenon
  <2>9. CASE Start(p) \/ DeleteSmirk(p) \/ Prove(p) \/ ApplyProved(p) \/ InsertProof(p) \/ InsertPanics(p)
             \/ FinishTimeout(p) \/ Crash(p)
    <3>1. seen' = seen /\ \E to \in Pcs \ {"skip", "skipped"} : pc' = [pc EXCEPT ![p] = to]
      BY <2>9, Zenon DEF Start, DeleteSmirk, Prove, ApplyProved, InsertProof, InsertPanics, FinishTimeout, Crash,
         Exit, SetPc, diskVars, Pcs, AtBlock
    <3> QED BY <1>t, <2>2, <3>1, Zenon
  <2>10. CASE FindRollup(p) \/ FindMissedProof(p) \/ Send(p) \/ SendRefused(p) \/ Finish(p) \/ Mine(p)
              \/ SendLost(p) \/ Drop(p) \/ \E err \in {"done", "timeout"} : GiveUp(p, err)
    <3>1. seen' = seen /\ pc' = pc
      BY <2>10, Zenon DEF FindRollup, FindMissedProof, StartRound, Send, SendRefused, Finish, Mine,
         SendLost, Drop, GiveUp, diskVars, workVars
    <3> QED BY <2>2, <3>1, Zenon
  <2> QED BY <1>2, <2>3, <2>4, <2>5, <2>6, <2>7, <2>8, <2>9, <2>10,
             Zenon DEF ProverWorker, RollupWorker, Failure
<1>3. Faulty \subseteq Provers
  BY ProverAssumption, Zenon
<1> QED BY <1>1, <1>2, <1>3, Zenon DEF ProverNext

-----------------------------------------------------------------------------
(* The transactions.                                                       *)
LEMMA UnawaitedOne ==
  ASSUME DataOK, TxsOK, NEW p \in Provers, Unawaited(txs, p, txs'),
         \A q \in Provers : rpc'[q] = "send" => rpc[q] = "send"
  PROVE  TxsOK'
<1>0. txs \in SUBSET Tx
  BY Zenon DEF DataOK
<1>1. SameCalls(txs, txs') /\ (OneEach(txs) => OneEach(txs'))
  BY <1>0, UnawaitedIs, Zenon
<1>2. \A q \in Provers : ~ TxnIsPending(q) => ~ TxnIsPending(q)'
  BY <1>1, Zenon DEF TxnIsPending, SameCalls
<1> QED BY <1>1, <1>2, Zenon DEF TxsOK

(* No step gives a prover a second transaction in flight.                  *)
LEMMA TxsStep ==
  ASSUME DataOK, ControlOK, TxsOK, ProverNext
  PROVE  TxsOK'
<1>r. rpc \in [Provers -> {"down", "look", "send", "receipt"}]
  BY Zenon DEF ControlOK
<1>1. CASE ChainGrows
  BY <1>1, Zenon DEF ChainGrows, senderVars, TxsOK, OneEach, TxnIsPending
<1>2. ASSUME NEW p \in Provers, ProverWorker(p) \/ RollupWorker(p) \/ Mine(p) \/ Failure(p)
      PROVE  TxsOK'
  <2>1. ASSUME Exit(p) PROVE TxsOK'
    <3>1. Unawaited(txs, p, txs')
      BY <2>1, Zenon DEF Exit, Unawaited
    <3>2. \A q \in Provers : rpc'[q] = "send" => rpc[q] = "send"
      BY <1>r, <2>1, Zenon DEF Exit
    <3> QED BY <3>1, <3>2, UnawaitedOne, Zenon
  <2>2. CASE DeleteSmirk(p) \/ InsertPanics(p) \/ FinishTimeout(p) \/ Crash(p)
    BY <2>1, <2>2, Zenon DEF DeleteSmirk, InsertPanics, FinishTimeout, Crash
  <2>3. ASSUME \A t \in txs' : t \in txs, \A q \in Provers : rpc'[q] = "send" => rpc[q] = "send"
        PROVE  TxsOK'
    BY <2>3, Zenon DEF TxsOK, OneEach, TxnIsPending
  <2>4. CASE Start(p)
    <3>1. txs' = txs /\ rpc' = [rpc EXCEPT ![p] = "look"]
      BY <2>4, Zenon DEF Start
    <3> QED BY <1>r, <2>3, <3>1, Zenon
  <2>5. CASE ResetLastSeen(p) \/ SeeEmpty(p) \/ LookForProof(p) \/ TryLock(p) \/ SkipApply(p) \/ Prove(p)
             \/ ApplyProved(p) \/ SetLastSeen(p) \/ InsertProof(p)
    <3>1. txs' = txs /\ rpc' = rpc
      BY <2>5, Zenon DEF ResetLastSeen, SeeEmpty, LookForProof, TryLock, SkipApply, Prove, ApplyProved,
         SetLastSeen, InsertProof, senderVars
    <3> QED BY <2>3, <3>1, Zenon
  <2>6. CASE FindRollup(p) \/ FindMissedProof(p)
    <3>1. txs' = txs /\ rpc' = [rpc EXCEPT ![p] = "send"] /\ ~ TxnIsPending(p)
      BY <2>6, Zenon DEF FindRollup, FindMissedProof, StartRound, SetRpc
    <3>2. \A q \in Provers : rpc'[q] = "send" => rpc[q] = "send" \/ q = p
      BY <1>r, <3>1, Zenon
    <3> QED BY <3>1, <3>2, Zenon DEF TxsOK, OneEach, TxnIsPending
  <2>7. CASE Send(p) \/ SendRefused(p) \/ SendLost(p)
    <3>1. /\ rpc[p] = "send" /\ rpc' = [rpc EXCEPT ![p] = "receipt"]
          /\ \/ txs' = txs
             \/ \E b \in BOOLEAN : txs' = txs \cup {[from |-> p, rollup |-> job[p].rollup, awaited |-> b]}
      BY <2>7, Zenon DEF Send, SendRefused, SendLost, SetRpc
    <3>2. ~ TxnIsPending(p)
      BY <3>1, Zenon DEF TxsOK, OneEach
    <3>3. \A q \in Provers : rpc'[q] = "send" => rpc[q] = "send" /\ q # p
      BY <1>r, <3>1, Zenon
    <3>4. txs' = txs \/ \E t : t.from = p /\ txs' = txs \cup {t}
      <4>1. \A b : [from |-> p, rollup |-> job[p].rollup, awaited |-> b].from = p
        BY Zenon
      <4> QED BY <3>1, <4>1, Zenon
    <3> QED BY <3>2, <3>3, <3>4, Zenon DEF TxsOK, OneEach, TxnIsPending
  <2>8. CASE Finish(p)
    <3>1. txs' = txs /\ rpc' = [rpc EXCEPT ![p] = "look"]
      BY <2>8, Zenon DEF Finish, SetRpc
    <3> QED BY <1>r, <2>3, <3>1, Zenon
  <2>9. CASE Mine(p) \/ Drop(p)
    <3>1. (\A t \in txs' : t \in txs) /\ rpc' = rpc
      BY <2>9, Zenon DEF Mine, Drop
    <3> QED BY <2>3, <3>1, Zenon
  <2>10. ASSUME NEW err \in {"done", "timeout"}, GiveUp(p, err) PROVE TxsOK'
    <3>1. Unawaited(txs, p, txs')
      BY <2>10, Zenon DEF GiveUp, Unawaited
    <3>2. \A q \in Provers : rpc'[q] = "send" => rpc[q] = "send"
      BY <2>10, Zenon DEF GiveUp
    <3> QED BY <3>1, <3>2, UnawaitedOne, Zenon
  <2> QED BY <1>2, <2>2, <2>4, <2>5, <2>6, <2>7, <2>8, <2>9, <2>10,
             Zenon DEF ProverWorker, RollupWorker, Failure
<1>3. Faulty \subseteq Provers
  BY ProverAssumption, Zenon
<1> QED BY <1>1, <1>2, <1>3, Zenon DEF ProverNext

-----------------------------------------------------------------------------
(* The first state satisfies the invariant.                                *)
LEMMA InvInit ==
  ASSUME ProverInit
  PROVE  ProverInv
<1>1. DataOK
  <2>1. 0 \in 0 .. MaxHeight /\ 0 \in 0 .. MaxFailures
    BY ProverAssumption
  <2> QED BY <2>1, NothingFacts, Zenon DEF ProverInit, DataOK
<1>2. ControlOK
  BY Zenon DEF ProverInit, ControlOK, Pcs, AtBlock
<1>3. RootsOK
  BY RootFacts, NothingFacts, Zenon DEF ProverInit, RootsOK, OfChain
<1>4. LocksOK
  <2>1. \A p \in Provers :
          initial[p] = 0 /\ pc[p] = "down" /\ locks[p] = {} /\ 0 <= contract.height
    BY NothingFacts DEF ProverInit
  <2>2. proofs = {}
    BY Zenon DEF ProverInit
  <2> QED BY <2>1, <2>2, Zenon DEF LocksOK, AtWorkOK
<1>5. BlocksOK
  <2>1. PICK p \in Provers : TRUE
    BY ProverAssumption, Zenon
  <2>2. seen[p].height = 0 /\ pc[p] = "down"
    BY NothingFacts, Zenon DEF ProverInit
  <2>3. \A h \in NonEmpty : 0 < h
    BY ProverAssumption
  <2> QED BY <2>1, <2>2, <2>3, Zenon DEF BlocksOK, Coming
<1>6. TxsOK
  BY Zenon DEF ProverInit, TxsOK, OneEach
<1> QED BY <1>1, <1>2, <1>3, <1>4, <1>5, <1>6, Zenon DEF ProverInv, VarsOK

(* Every step keeps it.                                                    *)
LEMMA InvStep ==
  ASSUME ProverInv, [ProverNext]_proverVars
  PROVE  ProverInv'
<1>0. DataOK /\ ControlOK /\ RootsOK /\ LocksOK /\ BlocksOK /\ TxsOK
  BY Zenon DEF ProverInv, VarsOK
<1>1. CASE ProverNext
  <2>1. DataOK'
    BY <1>0, <1>1, DataStep, Zenon
  <2>2. ControlOK'
    BY <1>0, <1>1, ControlStep, Zenon
  <2>3. RootsOK'
    BY <1>0, <1>1, RootsStep, Zenon
  <2>4. Grows
    BY <1>0, <1>1, <2>1, StepGrows, Zenon
  <2>5. LocksOK'
    BY <1>0, <1>1, <2>1, <2>4, LocksStep, Zenon
  <2>6. BlocksOK'
    BY <1>0, <1>1, <2>1, <2>4, BlocksStep, Zenon
  <2>7. TxsOK'
    BY <1>0, <1>1, TxsStep, Zenon
  <2> QED BY <2>1, <2>2, <2>3, <2>5, <2>6, <2>7, Zenon DEF ProverInv, VarsOK
<1>2. CASE UNCHANGED proverVars
  <2>1. UNCHANGED <<tip, contract, txs, proofs, locks, seen, tree, rollups, initial, pc, rpc, job,
                    result, failures>>
    BY <1>2, Zenon DEF proverVars, diskVars, workVars, senderVars
  <2>2. DataOK' /\ ControlOK'
    BY <1>0, <2>1, Zenon DEF DataOK, ControlOK, CommitHeight
  <2>3. RootsOK'
    BY <1>0, <2>1, Zenon DEF RootsOK, CommitHeight
  <2>4. LocksOK'
    BY <1>0, <2>1 DEF LocksOK, AtWorkOK, LockOK, Listed, Kept, CommitHeight
  <2>5. BlocksOK' /\ TxsOK'
    BY <1>0, <2>1, Zenon DEF BlocksOK, Coming, Kept, TxsOK, OneEach, TxnIsPending, CommitHeight
  <2> QED BY <2>2, <2>3, <2>4, <2>5, Zenon DEF ProverInv, VarsOK
<1> QED BY <1>1, <1>2, Zenon

(* It says what is checked of the provers.                                 *)
LEMMA InvGives ==
  ASSUME ProverInv
  PROVE  ProversInStep
<1>0. DataOK /\ ControlOK /\ RootsOK /\ BlocksOK /\ TxsOK
  BY Zenon DEF ProverInv, VarsOK
<1>1. ProverTypeOK
  BY <1>0, Zenon DEF ProverTypeOK, DataOK, ControlOK, Tx, Lock
<1>2. ProverTracksChain
  BY <1>0, Zenon DEF ProverTracksChain, RootsOK, Sound, OfChain
<1>3. NoBlockLost
  BY <1>0, Zenon DEF NoBlockLost, BlocksOK, Coming, Kept
<1>4. OneTxInFlight
  <2> SUFFICES ASSUME NEW p \in Provers PROVE Cardinality({t \in txs : t.from = p}) <= 1
    BY Zenon DEF OneTxInFlight
  <2>1. CASE \E t \in txs : t.from = p
    <3>1. PICK t \in txs : t.from = p
      BY <2>1, Zenon
    <3>2. {u \in txs : u.from = p} = {t}
      BY <1>0, <3>1, Zenon DEF TxsOK, OneEach
    <3>3. Cardinality({t}) = 1
      BY FS_Singleton, Zenon
    <3> QED BY <3>2, <3>3
  <2>2. CASE ~ \E t \in txs : t.from = p
    <3>1. {u \in txs : u.from = p} = {}
      BY <2>2, Zenon
    <3>2. Cardinality({}) = 0
      BY FS_EmptySet, Zenon
    <3> QED BY <3>1, <3>2
  <2> QED BY <2>1, <2>2, Zenon
<1> QED BY <1>1, <1>2, <1>3, <1>4, Zenon DEF ProversInStep

(* Wherever a prover dies, and whatever is lost, timed out or retried: its *)
(* tree and its rollups are those of the chain when it runs again, each    *)
(* block the contract lacks is on some prover's disk or still to come to   *)
(* one, although they skip what another has locked, and no prover has two  *)
(* transactions in flight (run_prover_worker, run_rollup_worker).          *)
THEOREM ProversStayInStep == ProverSpec => []ProversInStep
<1>1. ProverInit => ProverInv
  BY InvInit, Zenon
<1>2. ProverInv /\ [ProverNext]_proverVars => ProverInv'
  BY InvStep, Zenon
<1>3. ProverInv => ProversInStep
  BY InvGives, Zenon
<1> QED BY <1>1, <1>2, <1>3, PTL DEF ProverSpec

=============================================================================

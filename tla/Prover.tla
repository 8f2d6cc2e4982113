------------------------------- MODULE Prover -------------------------------
(***************************************************************************)
(* The provers: each process proves the transition of the notes tree that *)
(* a block makes (run_prover_worker), keeps the proof, called a rollup, in *)
(* its database (ProverDb), and sends the rollups to the contract one      *)
(* after the other (run_rollup_worker).  The provers share the work        *)
(* through a table rollup_proofs and advisory locks in Postgres.  A        *)
(* process may die between any two writes; transactions may be lost,       *)
(* dropped or late.                                                        *)
(*                                                                         *)
(* The root of a notes tree is modelled by the set of heights of the       *)
(* blocks applied to it: two trees have the same root iff the same blocks  *)
(* with transactions were applied.  The proof system is assumed sound.     *)
(* The signatures of a rollup are those the next block carries, and they   *)
(* are valid (see RollupAuth for how the contract checks them).            *)
(***************************************************************************)
EXTENDS Naturals, FiniteSets

CONSTANTS
  Provers,    \* the prover processes, each with its own node and signer
  MaxHeight,  \* the blocks above are empty, and not told apart
  NonEmpty,   \* the heights of the blocks that have transactions
  BadBlocks,  \* config.bad_blocks
  Faulty,     \* those that a failure may hit
  MaxFailures \* bound on crashes, receipt timeouts and dropped transactions

ASSUME ProverAssumption ==
  /\ Provers # {}
  /\ MaxHeight \in Nat
  /\ NonEmpty \subseteq 1 .. MaxHeight - 1
  /\ BadBlocks \subseteq NonEmpty
  /\ Faulty \subseteq Provers
  /\ MaxFailures \in Nat

VARIABLES
  tip,       \* the height of the chain
  contract,  \* blockHeight and rootHash of the rollup contract
  txs,       \* transactions of the provers that are not mined yet
  proofs,    \* the table rollup_proofs
  locks,     \* the advisory locks of each prover's Postgres session
  seen,      \* ProverDb: LastSeenBlock
  tree,      \* the prover's own notes tree on disk
  rollups,   \* ProverDb: the rollups by height
  initial,   \* initial_contract_block_height
  pc,        \* where the prover worker is
  rpc,       \* where the rollup worker is
  job,       \* the rollup worker's rollup and pre_state
  result,    \* "none" until Prover::rollup returns, then "timeout" or "done"
  failures

diskVars   == <<seen, tree, rollups>>
workVars   == <<initial, pc>>
senderVars == <<rpc, job, result>>
proverVars == <<tip, contract, txs, proofs, locks, diskVars, workVars, senderVars, failures>>

-----------------------------------------------------------------------------

(* The root that the chain's block at a height states.                     *)
RootAt(h) == {k \in NonEmpty : k <= h}

(* A RollupInput: what its proof takes the tree from and to.               *)
Rollup == [height : NonEmpty, old : SUBSET NonEmpty, new : SUBSET NonEmpty]

State == [height : 0 .. MaxHeight, root : SUBSET NonEmpty]

Nothing == [height |-> 0, root |-> {}]

NoJob == [rollup |-> [height |-> 0, old |-> {}, new |-> {}], pre |-> Nothing]

(* verifyRollup: the height must grow and the old root be the current one. *)
Accepts(r) == r.height > contract.height /\ r.old = contract.root

(* Mutant: the last rollup above the contract's height.                    *)
LastRollup(p) ==
  LET above == {r \in rollups[p] : r.height > contract.height}
  IN  {r \in above : \A s \in above : r.height >= s.height}

(* The first of list_rollups(contract_height.next()..max).  Between this   *)
(* read and the send the contract may move on.                             *)
NextRollup(p) ==
  LET above == {r \in rollups[p] : r.height > contract.height}
  IN  {r \in above : \A s \in above : r.height <= s.height}

(* pending_nonce > latest_nonce                                            *)
TxnIsPending(p) == \E t \in txs : t.from = p

LockedByOther(p, h) == \E q \in Provers \ {p} : \E l \in locks[q] : l.height = h

ProverInit ==
  /\ tip = 0
  /\ contract = Nothing
  /\ txs = {}
  /\ proofs = {}
  /\ locks = [p \in Provers |-> {}]
  /\ seen = [p \in Provers |-> Nothing]
  /\ tree = [p \in Provers |-> {}]
  /\ rollups = [p \in Provers |-> {}]
  /\ initial = [p \in Provers |-> 0]
  /\ pc = [p \in Provers |-> "down"]
  /\ rpc = [p \in Provers |-> "down"]
  /\ job = [p \in Provers |-> NoJob]
  /\ result = [p \in Provers |-> "none"]
  /\ failures = 0

-----------------------------------------------------------------------------

(* The node commits a block.  A commit_stream that was opened before hears *)
(* of it, and lists the blocks before it from the store.                   *)
ChainGrows ==
  /\ tip' = IF tip < MaxHeight THEN tip + 1 ELSE tip
  /\ pc' = [p \in Provers |-> IF pc[p] = "listening" THEN "next" ELSE pc[p]]
  /\ UNCHANGED <<contract, txs, proofs, locks, diskVars, initial, senderVars, failures>>

-----------------------------------------------------------------------------

(* What is left of a process that ends: its disk, its rows and what it     *)
(* sent.  Postgres releases the locks of its session.                      *)
Exit(p) ==
  /\ pc' = [pc EXCEPT ![p] = "down"]
  /\ rpc' = [rpc EXCEPT ![p] = "down"]
  /\ initial' = [initial EXCEPT ![p] = 0]
  /\ job' = [job EXCEPT ![p] = NoJob]
  /\ result' = [result EXCEPT ![p] = "none"]
  /\ locks' = [locks EXCEPT ![p] = {}]
  /\ txs' = {IF t.from = p THEN [t EXCEPT !.awaited = FALSE] ELSE t : t \in txs}

Crash(p) ==
  /\ pc[p] # "down"
  /\ failures < MaxFailures
  /\ failures' = failures + 1
  /\ Exit(p)
  /\ UNCHANGED <<tip, contract, proofs, diskVars>>

(* Both workers start; the prover worker opens the commit stream if its    *)
(* tree is that of the last seen block.                                    *)
Start(p) ==
  /\ pc[p] = "down"
  /\ initial' = [initial EXCEPT ![p] = contract.height]
  /\ pc' = [pc EXCEPT ![p] = IF seen[p].root = tree[p] THEN "listening" ELSE "mismatch"]
  /\ rpc' = [rpc EXCEPT ![p] = "look"]
  /\ UNCHANGED <<tip, contract, txs, proofs, locks, diskVars, job, result, failures>>

(* Otherwise it starts over from the first block: first the last seen      *)
(* block is reset ...                                                      *)
ResetLastSeen(p) ==
  /\ pc[p] = "mismatch"
  /\ seen' = [seen EXCEPT ![p] = Nothing]
  /\ pc' = [pc EXCEPT ![p] = "deleting"]
  /\ UNCHANGED <<tip, contract, txs, proofs, locks, tree, rollups, initial, senderVars, failures>>

(* ... then the tree is deleted, and the process panics.                   *)
DeleteSmirk(p) ==
  /\ pc[p] = "deleting"
  /\ tree' = [tree EXCEPT ![p] = {}]
  /\ Exit(p)
  /\ UNCHANGED <<tip, contract, proofs, seen, rollups, failures>>

-----------------------------------------------------------------------------

(* The block the commit stream yields next.                                *)
CommitHeight(p) == seen[p].height + 1

SetPc(p, to) == pc' = [pc EXCEPT ![p] = to]

(* A block without transactions.                                           *)
SeeEmpty(p) ==
  /\ pc[p] = "next"
  /\ CommitHeight(p) <= tip
  /\ CommitHeight(p) \notin NonEmpty
  /\ seen' = [seen EXCEPT ![p] = [height |-> CommitHeight(p), root |-> RootAt(CommitHeight(p))]]
  /\ UNCHANGED <<tip, contract, txs, proofs, locks, tree, rollups, workVars, senderVars, failures>>

(* commit_was_already_rolled_up, is_a_bad_block, and the first half of     *)
(* we_are_the_prover_for_this_block: the statement looks for a proof in    *)
(* its snapshot of the table ...                                           *)
LookForProof(p) ==
  /\ pc[p] = "next"
  /\ CommitHeight(p) <= tip
  /\ CommitHeight(p) \in NonEmpty
  /\ SetPc(p, IF \/ initial[p] >= CommitHeight(p)
                 \/ CommitHeight(p) \in BadBlocks
                 \/ \E r \in proofs : r.height = CommitHeight(p)
              THEN "skip" ELSE "lock")
  /\ UNCHANGED <<tip, contract, txs, proofs, locks, diskVars, initial, senderVars, failures>>

(* ... and then tries the lock, which may just have been released.         *)
TryLock(p) ==
  /\ pc[p] = "lock"
  /\ IF LockedByOther(p, CommitHeight(p))
     THEN SetPc(p, "skip") /\ UNCHANGED locks
     ELSE /\ SetPc(p, "prove")
          /\ locks' = [locks EXCEPT ![p] = @ \cup {[height |-> CommitHeight(p), by |-> "prover"]}]
  /\ UNCHANGED <<tip, contract, txs, proofs, diskVars, initial, senderVars, failures>>

(* A block that is not proved here: apply_block_to_tree ...                *)
SkipApply(p) ==
  /\ pc[p] = "skip"
  /\ CommitHeight(p) \notin tree[p]
  /\ tree' = [tree EXCEPT ![p] = @ \cup {CommitHeight(p)}]
  /\ SetPc(p, "skipped")
  /\ UNCHANGED <<tip, contract, txs, proofs, locks, seen, rollups, initial, senderVars, failures>>

(* Mutant: the rollup is kept in Postgres only.                            *)
ProveForOthers(p) ==
  /\ pc[p] = "prove"
  /\ CommitHeight(p) + 1 <= tip
  /\ SetPc(p, "proved")
  /\ UNCHANGED <<tip, contract, txs, proofs, locks, diskVars, initial, senderVars, failures>>

(* The next block is there, for its approvals; prove; the new root is      *)
(* compared with the block's; set_rollup.  (An insert of a block's notes   *)
(* into a tree that has them is an error.)                                 *)
Prove(p) ==
  /\ pc[p] = "prove"
  /\ CommitHeight(p) + 1 <= tip
  /\ CommitHeight(p) \notin tree[p]
  /\ tree[p] \cup {CommitHeight(p)} = RootAt(CommitHeight(p))
  /\ rollups' = [rollups EXCEPT ![p] =
       {r \in @ : r.height # CommitHeight(p)}
         \cup {[height |-> CommitHeight(p), old |-> tree[p],
                new |-> tree[p] \cup {CommitHeight(p)}]}]
  /\ SetPc(p, "proved")
  /\ UNCHANGED <<tip, contract, txs, proofs, locks, seen, tree, initial, senderVars, failures>>

ApplyProved(p) ==
  /\ pc[p] = "proved"
  /\ tree' = [tree EXCEPT ![p] = @ \cup {CommitHeight(p)}]
  /\ SetPc(p, "applied")
  /\ UNCHANGED <<tip, contract, txs, proofs, locks, seen, rollups, initial, senderVars, failures>>

(* set_last_seen_block, after apply_block_to_tree on both paths.           *)
SetLastSeen(p) ==
  /\ pc[p] \in {"skipped", "applied"}
  /\ seen' = [seen EXCEPT ![p] = [height |-> CommitHeight(p), root |-> RootAt(CommitHeight(p))]]
  /\ SetPc(p, IF pc[p] = "skipped" THEN "next" ELSE "insert")
  /\ UNCHANGED <<tip, contract, txs, proofs, locks, tree, rollups, initial, senderVars, failures>>

(* The INSERT, the root check of the tree, and the guard of the lock.      *)
InsertProof(p) ==
  /\ pc[p] = "insert"
  /\ \A r \in proofs : r.height # seen[p].height
  /\ proofs' = proofs \cup {r \in rollups[p] : r.height = seen[p].height}
  /\ locks' = [locks EXCEPT ![p] = {l \in @ : l.by # "prover"}]
  /\ SetPc(p, "next")
  /\ UNCHANGED <<tip, contract, txs, diskVars, initial, senderVars, failures>>

(* The height is the primary key: the unwrap panics.                       *)
InsertPanics(p) ==
  /\ pc[p] = "insert"
  /\ \E r \in proofs : r.height = seen[p].height
  /\ Exit(p)
  /\ UNCHANGED <<tip, contract, proofs, diskVars, failures>>

-----------------------------------------------------------------------------

SetRpc(p, to) == rpc' = [rpc EXCEPT ![p] = to]

(* The lock on a proof of another prover is held to the end of the round.  *)
EndRound(p) ==
  /\ job' = [job EXCEPT ![p] = NoJob]
  /\ result' = [result EXCEPT ![p] = "none"]
  /\ locks' = [locks EXCEPT ![p] = {l \in @ : l.by # "sender"}]

(* A round begins when wait_time has passed, the prover worker notifies of *)
(* a new proof, or the last round asked for one at once (skip_waiting); it *)
(* is over, and the next one is awaited, while a transaction of this       *)
(* prover is in the mempool.  pre_state is read before the send.           *)
StartRound(p, r) ==
  /\ rpc[p] = "look"
  /\ ~ TxnIsPending(p)
  /\ job' = [job EXCEPT ![p] = [rollup |-> r, pre |-> contract]]
  /\ SetRpc(p, "send")
  /\ UNCHANGED <<tip, contract, txs, proofs, diskVars, workVars, result, failures>>

(* The first rollup above the contract's height starts from its root.      *)
FindRollup(p) ==
  \E r \in NextRollup(p) :
    /\ r.old = contract.root
    /\ StartRound(p, r)
    /\ UNCHANGED locks

(* It does not, but another prover proved the next block more than five    *)
(* minutes ago, and nobody holds the lock of that height.                  *)
FindMissedProof(p) ==
  /\ \E r \in NextRollup(p) : r.old # contract.root
  /\ \E r \in proofs :
       /\ r.old = contract.root
       /\ ~ LockedByOther(p, r.height)
       /\ StartRound(p, r)
       /\ locks' = [locks EXCEPT ![p] = @ \cup {[height |-> r.height, by |-> "sender"]}]

-----------------------------------------------------------------------------

(* Prover::rollup: estimate the gas, which fails when the contract would   *)
(* refuse the call, then send the transaction ...                          *)
Send(p) ==
  /\ rpc[p] = "send"
  /\ Accepts(job[p].rollup)
  /\ txs' = txs \cup {[from |-> p, rollup |-> job[p].rollup, awaited |-> TRUE]}
  /\ SetRpc(p, "receipt")
  /\ UNCHANGED <<tip, contract, proofs, locks, diskVars, workVars, job, result, failures>>

SendRefused(p) ==
  /\ rpc[p] = "send"
  /\ ~ Accepts(job[p].rollup)
  /\ result' = [result EXCEPT ![p] = "done"]
  /\ SetRpc(p, "receipt")
  /\ UNCHANGED <<tip, contract, txs, proofs, locks, diskVars, workVars, job, failures>>

(* ... the request or its answer is lost ...                               *)
SendLost(p) ==
  /\ rpc[p] = "send"
  /\ failures < MaxFailures
  /\ failures' = failures + 1
  /\ \/ UNCHANGED txs
     \/ /\ Accepts(job[p].rollup)
        /\ txs' = txs \cup {[from |-> p, rollup |-> job[p].rollup, awaited |-> FALSE]}
  /\ result' = [result EXCEPT ![p] = "done"]
  /\ SetRpc(p, "receipt")
  /\ UNCHANGED <<tip, contract, proofs, locks, diskVars, workVars, job>>

(* ... or the receipt does not come: an RPC error, the transaction unknown *)
(* for 15 seconds, or 5 minutes over.  It may be mined all the same.       *)
GiveUp(p, err) ==
  /\ rpc[p] = "receipt"
  /\ result[p] = "none"
  /\ failures < MaxFailures
  /\ failures' = failures + 1
  /\ result' = [result EXCEPT ![p] = err]
  /\ txs' = {IF t.from = p THEN [t EXCEPT !.awaited = FALSE] ELSE t : t \in txs}
  /\ UNCHANGED <<tip, contract, proofs, locks, diskVars, workVars, rpc, job>>

(* A transaction is mined: verifyRollup succeeds or reverts.               *)
Mine(p) ==
  /\ \E t \in txs :
       /\ t.from = p
       /\ txs' = txs \ {t}
       /\ contract' = IF Accepts(t.rollup)
                      THEN [height |-> t.rollup.height, root |-> t.rollup.new]
                      ELSE contract
       /\ result' = IF t.awaited THEN [result EXCEPT ![p] = "done"] ELSE result
  /\ UNCHANGED <<tip, proofs, locks, diskVars, workVars, rpc, job, failures>>

(* A transaction disappears from the mempool.                              *)
Drop(p) ==
  /\ failures < MaxFailures
  /\ failures' = failures + 1
  /\ \E t \in txs :
       /\ t.from = p
       /\ txs' = txs \ {t}
       /\ result' = IF t.awaited THEN [result EXCEPT ![p] = "done"] ELSE result
  /\ UNCHANGED <<tip, contract, proofs, locks, diskVars, workVars, rpc, job>>

(* classify_rollup_progress, from the states read before and after.        *)
Progress(before, rollup) ==
  IF contract.height >= rollup.height /\ contract.root = rollup.new THEN "Applied"
  ELSE IF contract # before THEN "AdvancedElsewhere"
  ELSE "Unchanged"

Finished(p) == rpc[p] = "receipt" /\ result[p] # "none"

TimedOut(p) ==
  result[p] = "timeout" /\ Progress(job[p].pre, job[p].rollup) = "Unchanged"

(* A timeout ends the process.                                             *)
FinishTimeout(p) ==
  /\ Finished(p)
  /\ TimedOut(p)
  /\ Exit(p)
  /\ UNCHANGED <<tip, contract, proofs, diskVars, failures>>

(* In all other cases a new round follows: at once if the contract moved,  *)
(* or to retry a send that failed, else after wait_time.                   *)
Finish(p) ==
  /\ Finished(p)
  /\ ~ TimedOut(p)
  /\ EndRound(p)
  /\ SetRpc(p, "look")
  /\ UNCHANGED <<tip, contract, txs, proofs, diskVars, workVars, failures>>

-----------------------------------------------------------------------------

ProverWorker(p) ==
  \/ Start(p) \/ ResetLastSeen(p) \/ DeleteSmirk(p)
  \/ SeeEmpty(p) \/ LookForProof(p) \/ TryLock(p) \/ SkipApply(p)
  \/ Prove(p) \/ ApplyProved(p) \/ SetLastSeen(p)
  \/ InsertProof(p) \/ InsertPanics(p)

RollupWorker(p) ==
  \/ FindRollup(p) \/ FindMissedProof(p) \/ Send(p) \/ SendRefused(p)
  \/ Finish(p) \/ FinishTimeout(p)

Failure(p) ==
  \/ Crash(p) \/ SendLost(p) \/ Drop(p)
  \/ \E err \in {"done", "timeout"} : GiveUp(p, err)

ProverNext ==
  \/ ChainGrows
  \/ \E p \in Provers : ProverWorker(p) \/ RollupWorker(p) \/ Mine(p)
  \/ \E p \in Faulty : Failure(p)

(* Blocks are produced, both workers run (a proof in the table gets older  *)
(* than five minutes), a process that ended is started again by its        *)
(* supervisor, and a transaction in the mempool is mined.                  *)
ProverFairness ==
  /\ WF_proverVars(ChainGrows)
  /\ \A p \in Provers :
       /\ WF_proverVars(ProverWorker(p))
       /\ WF_proverVars(RollupWorker(p))
       /\ WF_proverVars(Mine(p))

ProverSpec == ProverInit /\ [][ProverNext]_proverVars

FairProverSpec == ProverSpec /\ ProverFairness

-----------------------------------------------------------------------------

ProverTypeOK ==
  /\ tip \in 0 .. MaxHeight
  /\ contract \in State
  /\ txs \subseteq [from : Provers, rollup : Rollup, awaited : BOOLEAN]
  /\ proofs \subseteq Rollup
  /\ \A p \in Provers :
       /\ locks[p] \subseteq [height : NonEmpty, by : {"prover", "sender"}]
       /\ seen[p] \in State
       /\ tree[p] \subseteq NonEmpty
       /\ rollups[p] \subseteq Rollup
       /\ initial[p] \in 0 .. MaxHeight
       /\ pc[p] = "down" <=> rpc[p] = "down"
  /\ failures \in 0 .. MaxFailures

(* A prover that runs has the tree of its last seen block (one block more  *)
(* between apply_block_to_tree and set_last_seen_block), wherever it died  *)
(* before; so every rollup it keeps takes the chain's root before the      *)
(* block to the one after it, the checks against the block's root never    *)
(* fail, and the contract only ever has roots of the chain.                *)
ProverTracksChain ==
  /\ \A p \in Provers :
       /\ pc[p] \notin {"down", "mismatch", "deleting"} =>
            tree[p] = RootAt(IF pc[p] \in {"skipped", "applied"}
                             THEN CommitHeight(p) ELSE seen[p].height)
       /\ \A r \in rollups[p] : r.old = RootAt(r.height - 1) /\ r.new = RootAt(r.height)
  /\ contract.root = RootAt(contract.height)

(* No block falls between the provers: a block the contract does not have  *)
(* yet is either still to come for some prover, or a prover has its rollup *)
(* on disk -- although a prover skips a block as soon as another one holds *)
(* its lock, and that one may die at any step.                             *)
NoBlockLost ==
  \A h \in NonEmpty \ BadBlocks :
    h > contract.height =>
      \E p \in Provers :
        \/ seen[p].height < h
        \/ \E r \in rollups[p] : r.height = h

(* A prover never has two transactions in flight, whatever was lost,       *)
(* timed out or retried, and across restarts: the second would only wait   *)
(* for the first, or replace it.                                           *)
OneTxInFlight == \A p \in Provers : Cardinality({t \in txs : t.from = p}) <= 1

(* The trees, rollups and transactions of the provers stay those of the    *)
(* chain, one at a time and none missing, wherever a prover dies           *)
(* (ProverTracksChain, NoBlockLost, OneTxInFlight).                        *)
ProversInStep == ProverTypeOK /\ ProverTracksChain /\ NoBlockLost /\ OneTxInFlight

(* Every block with transactions is settled on the contract in the end.    *)
EveryBlockSettled ==
  \A h \in NonEmpty \ BadBlocks : (tip >= h) ~> (contract.height >= h)

=============================================================================

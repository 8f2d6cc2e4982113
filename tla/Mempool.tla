------------------------------ MODULE Mempool ------------------------------
(***************************************************************************)
(* The node's transaction pool (pkg/node/src/mempool.rs).                  *)
(*                                                                         *)
(* A pending transaction lives in `txns'.  Its key is either queued in     *)
(* `pool', waiting to be put in a block, or held by the lease of the block *)
(* height that is using it.  Every operation below is what one critical    *)
(* section of the pool's mutex does; commit takes the mutex twice, so it   *)
(* is two operations, Commit and Free, and other threads run in between.   *)
(*                                                                         *)
(* Who calls what is left to the modules that extend this one:             *)
(* ProposerMempool (a validator) and FollowerMempool (every other node).   *)
(***************************************************************************)
EXTENDS Naturals, SequencesExt

CONSTANTS
  Key,         \* transaction hashes
  Change,      \* note commitments
  ChangesOf,   \* the commitments a transaction consumes or creates
  Lease        \* block heights

ASSUME ChangesAssumption == ChangesOf \in [Key -> SUBSET Change]

VARIABLES
  txns,      \* keys of MempoolState.txns
  waiting,   \* those whose entry holds the sender of a waiting RPC request
  pool,      \* MempoolState.pool
  leased     \* MempoolState.leased; an absent lease is the empty set

mempoolVars == <<txns, waiting, pool, leased>>

MempoolTypeOK ==
  /\ txns \subseteq Key
  /\ waiting \subseteq txns
  /\ pool \in Seq(Key)
  /\ leased \in [Lease -> SUBSET Key]

MempoolInit ==
  /\ txns = {}
  /\ waiting = {}
  /\ pool = <<>>
  /\ leased = [l \in Lease |-> {}]

-----------------------------------------------------------------------------

Conflict(k) == \E t \in txns : ChangesOf[k] \cap ChangesOf[t] # {}

(* A conflicting or a duplicate transaction is refused, which changes      *)
(* nothing.                                                                *)
Add(k, listen) ==
  /\ ~ Conflict(k)
  /\ k \notin txns
  /\ txns' = txns \cup {k}
  /\ waiting' = IF listen THEN waiting \cup {k} ELSE waiting
  /\ pool' = Append(pool, k)
  /\ UNCHANGED leased

RemoveKeys(q, ks) == FoldSet(LAMBDA k, s : RemoveFirst(s, k), q, ks)

(* Mutant: the keys stay in the lease, so Free puts them back in the pool. *)
CommitKeepsLease(l, ks) ==
  /\ txns' = txns \ ks
  /\ waiting' = waiting \ ks
  /\ pool' = RemoveKeys(pool, ks)
  /\ UNCHANGED leased

(* Mutant: only keys that the lease holds are committed.                   *)
CommitLeasedOnly(l, ks) ==
  LET done == ks \cap leased[l]
  IN  /\ txns' = txns \ done
      /\ waiting' = waiting \ done
      /\ leased' = [leased EXCEPT ![l] = @ \ done]
      /\ pool' = RemoveKeys(pool, done)

(* The first critical section of commit: the keys leave the pool and the   *)
(* requests that wait for them are answered.                               *)
Commit(l, ks) ==
  /\ txns' = txns \ ks
  /\ waiting' = waiting \ ks
  /\ leased' = [leased EXCEPT ![l] = @ \ ks]
  /\ pool' = RemoveKeys(pool, ks)

(* Mutant: the lease is dropped with its keys.                             *)
FreeDropsKeys(l) ==
  /\ leased' = [leased EXCEPT ![l] = {}]
  /\ UNCHANGED <<txns, waiting, pool>>

(* The second one: what is left of the lease goes back to the front, in    *)
(* the order in which a HashSet happens to list it.                        *)
Free(l) ==
  /\ \E s \in SetToSeqs(leased[l]) : pool' = s \o pool
  /\ leased' = [leased EXCEPT ![l] = {}]
  /\ UNCHANGED <<txns, waiting>>

(* Leases named keys, whether or not the pool has them.                    *)
LeaseTxns(l, ks) ==
  /\ pool' = RemoveKeys(pool, ks)
  /\ leased' = [leased EXCEPT ![l] = @ \cup ks]
  /\ UNCHANGED <<txns, waiting>>

(* The batch lease_batch picks: it pops keys from the front until it has   *)
(* max_count of them, and puts aside those that conflict with one already  *)
(* picked.  The count is compared after a key was taken, so even a limit   *)
(* of 0 takes one.                                                         *)
PickBatch(q, maxCount) ==
  LET Pop(acc, k) ==
        IF Len(acc.batch) > 0 /\ Len(acc.batch) >= maxCount
          THEN [acc EXCEPT !.rest = Append(@, k)]
        ELSE IF ChangesOf[k] \cap acc.used # {}
          THEN [acc EXCEPT !.discard = Append(@, k)]
        ELSE [acc EXCEPT !.batch = Append(@, k), !.used = @ \cup ChangesOf[k]]
  IN  FoldLeft(Pop, [batch |-> <<>>, used |-> {}, discard |-> <<>>, rest |-> <<>>], q)

LeaseBatch(l, maxCount) ==
  LET pick == PickBatch(pool, maxCount)
  IN  /\ pool' = pick.rest \o pick.discard
      /\ leased' = [leased EXCEPT ![l] = @ \cup ToSet(pick.batch)]
      /\ UNCHANGED <<txns, waiting>>
=============================================================================

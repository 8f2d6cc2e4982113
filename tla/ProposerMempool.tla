-------------------------- MODULE ProposerMempool --------------------------
(***************************************************************************)
(* The pool of a validator: RPC requests and peers add transactions while  *)
(* the tick worker runs create_proposal over and over                      *)
(* (pkg/node/src/node/proposal.rs, tick_worker.rs).                        *)
(***************************************************************************)
EXTENDS Mempool

CONSTANTS
  BlockTxnsCount,   \* config.block_txns_count
  FirstHeight,      \* a member of Lease, see NextHeight
  Listening,        \* TRUE: from this node's RPC; FALSE: from a peer
  MaxChecked        \* bound: requests between validation and addition

ASSUME ProposerAssumption ==
  /\ BlockTxnsCount \in Nat
  /\ FirstHeight \in Lease
  /\ Listening \subseteq BOOLEAN
  /\ MaxChecked \in Nat

VARIABLES
  spent,    \* commitments that committed blocks have used up
  checked,  \* requests past validate_transaction and not yet in the pool
  height,   \* the height create_proposal works on
  step,     \* where the tick worker is in create_proposal
  batch     \* the keys of the transactions it took, in the order it took them

workerVars == <<height, step, batch>>
vars == <<mempoolVars, spent, checked, workerVars>>

Steps == {"idle", "validating", "rejected", "committed"}

(* Heights are unbounded in the code.  The lease of a height is removed    *)
(* when that height is done, so a ring of heights tells no less.           *)
NextHeight(h) == CHOOSE l \in Lease : l # h

(* What validate_transaction checks in the database and the notes tree:    *)
(* nothing the transaction uses has been used by a committed block.        *)
Fresh(k) == ChangesOf[k] \cap spent = {}

BatchFresh == \A i \in DOMAIN batch : Fresh(batch[i])

Init ==
  /\ MempoolInit
  /\ spent = {}
  /\ checked = {}
  /\ height = FirstHeight
  /\ step = "idle"
  /\ batch = <<>>

-----------------------------------------------------------------------------

(* submit_transaction_and_wait (which listens for the outcome) and         *)
(* receive_transaction validate a transaction ...                          *)
Validate(k, listen) ==
  /\ Fresh(k)
  /\ Cardinality(checked) < MaxChecked
  /\ checked' = checked \cup {<<k, listen>>}
  /\ UNCHANGED <<mempoolVars, spent, workerVars>>

(* ... and add it to the pool later: a block may have been committed in    *)
(* between.                                                                *)
Submit(k, listen) ==
  /\ <<k, listen>> \in checked
  /\ \/ Add(k, listen)
     \/ (Conflict(k) \/ k \in txns) /\ UNCHANGED mempoolVars
  /\ checked' = checked \ {<<k, listen>>}
  /\ UNCHANGED <<spent, workerVars>>

TakeBatch ==
  /\ step = "idle"
  /\ LeaseBatch(height, BlockTxnsCount)
  /\ batch' = PickBatch(pool, BlockTxnsCount).batch
  /\ step' = "validating"
  /\ UNCHANGED <<spent, checked, height>>

(* The first transaction that does not validate, because it is stale or    *)
(* because the base chain could not be asked about its mint, is answered   *)
(* with an error, and it alone.                                            *)
RejectOne ==
  /\ step = "validating"
  /\ \E i \in DOMAIN batch :
       /\ \A j \in 1 .. i - 1 : Fresh(batch[j])
       /\ Commit(height, {batch[i]})
  /\ step' = "rejected"
  /\ UNCHANGED <<spent, checked, height, batch>>

(* The block as a whole does not validate: all of its transactions are     *)
(* answered with the error.                                                *)
RejectAll ==
  /\ step = "validating"
  /\ batch # <<>>
  /\ BatchFresh
  /\ Commit(height, ToSet(batch))
  /\ step' = "rejected"
  /\ UNCHANGED <<spent, checked, height, batch>>

(* commit_proposal returned an error before it got to the mempool: the     *)
(* transactions stay leased and the same height is tried again.            *)
CommitFails ==
  /\ step = "validating"
  /\ BatchFresh
  /\ step' = "idle"
  /\ batch' = <<>>
  /\ UNCHANGED <<mempoolVars, spent, checked, height>>

CommitBlock ==
  /\ step = "validating"
  /\ BatchFresh
  /\ Commit(height, ToSet(batch))
  /\ spent' = spent \cup UNION {ChangesOf[k] : k \in ToSet(batch)}
  /\ step' = "committed"
  /\ UNCHANGED <<checked, height, batch>>

FreeLease ==
  /\ step \in {"rejected", "committed"}
  /\ Free(height)
  /\ height' = IF step = "committed" THEN NextHeight(height) ELSE height
  /\ step' = "idle"
  /\ batch' = <<>>
  /\ UNCHANGED <<spent, checked>>

Decide == RejectOne \/ RejectAll \/ CommitFails \/ CommitBlock

Next ==
  \/ \E k \in Key, listen \in Listening : Validate(k, listen) \/ Submit(k, listen)
  \/ TakeBatch
  \/ Decide
  \/ FreeLease

(* The tick worker never stops ticking, and neither the database nor the   *)
(* connection to the base chain fails on every block, or on every block    *)
(* that has a given transaction.                                           *)
Fairness ==
  /\ WF_vars(TakeBatch \/ Decide \/ FreeLease)
  /\ SF_vars(CommitBlock)
  /\ \A k \in Key : SF_vars(k \in ToSet(batch) /\ CommitBlock)

Spec == Init /\ [][Next]_vars /\ Fairness

-----------------------------------------------------------------------------

TypeOK ==
  /\ MempoolTypeOK
  /\ spent \subseteq Change
  /\ checked \subseteq Key \X Listening
  /\ height \in Lease
  /\ step \in Steps
  /\ batch \in Seq(Key)

(* How many times the queue and the leases hold a key.                     *)
Places(k) ==
  Cardinality({i \in DOMAIN pool : pool[i] = k})
    + Cardinality({l \in Lease : k \in leased[l]})

(* A pending transaction is in exactly one place: once in the queue, or in *)
(* one lease.  In particular a key that lease_batch pops always has its    *)
(* entry (the "key not found in txns" of mempool.rs cannot panic), and no  *)
(* failed proposal loses a transaction.                                    *)
EachTxnInOnePlace == \A k \in Key : Places(k) = IF k \in txns THEN 1 ELSE 0

(* Transactions that touch the same note are never pending together, so a  *)
(* block is never assembled from conflicting transactions and lease_batch  *)
(* never has to put one aside.                                             *)
PendingTxnsDisjoint ==
  \A s, t \in txns : s # t => ChangesOf[s] \cap ChangesOf[t] = {}

(* Only the height being worked on holds a lease: a finished height keeps  *)
(* nothing, even after proposals that failed half way.                     *)
OnlyCurrentHeightLeases == \A l \in Lease : leased[l] # {} => l = height

(* Every request that waits for its transaction is answered in the end,    *)
(* whatever else is rejected or submitted meanwhile.                       *)
EveryRequestAnswered == \A k \in Key : k \in waiting ~> k \notin waiting
=============================================================================

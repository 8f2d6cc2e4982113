-------------------------- MODULE FollowerMempool --------------------------
(***************************************************************************)
(* The pool of a node that does not produce blocks: RPC requests wait for  *)
(* their transactions while the network handler leases the transactions of *)
(* the blocks it receives and the tick worker commits those blocks         *)
(* (receive_proposal and commit_proposal of pkg/node/src/node/proposal.rs, *)
(* submit_transaction_and_wait of node/transaction.rs).                    *)
(***************************************************************************)
EXTENDS Mempool

CONSTANT BlockTxns   \* the transactions of the validator's block at a height

ASSUME FollowerAssumption ==
  /\ Lease \subseteq Nat \ {0}
  /\ BlockTxns \in [Lease -> SUBSET Key]

VARIABLES
  requested,  \* requests past validate_transaction and not yet in the pool
  cached,     \* heights whose block is in the block cache
  toLease,    \* heights receive_proposal has cached and not yet leased
  doneHeight, \* the last committed height
  freeing     \* commit has answered the requests and not yet freed the lease

followerPoolVars == <<mempoolVars, requested, cached, toLease, doneHeight, freeing>>

FollowerPoolInit ==
  /\ MempoolInit
  /\ requested = {}
  /\ cached = {}
  /\ toLease = {}
  /\ doneHeight = 0
  /\ freeing = FALSE

Committed == UNION {BlockTxns[h] : h \in {l \in Lease : l <= doneHeight}}

(* The commitments of committed transactions are spent or taken.           *)
Unspent(k) == \A t \in Committed : ChangesOf[k] \cap ChangesOf[t] = {}

-----------------------------------------------------------------------------

ValidateRequest(k) ==
  /\ Unspent(k)
  /\ requested' = requested \cup {k}
  /\ UNCHANGED <<mempoolVars, cached, toLease, doneHeight, freeing>>

SubmitAndWait(k) ==
  /\ k \in requested
  /\ \/ Add(k, TRUE)
     \/ (Conflict(k) \/ k \in txns) /\ UNCHANGED mempoolVars
  /\ requested' = requested \ {k}
  /\ UNCHANGED <<cached, toLease, doneHeight, freeing>>

(* receive_proposal puts the block in the cache (blocks come in any order, *)
(* and more than once; the cache ignores those it is past) ...             *)
ReceiveProposal(h) ==
  /\ toLease = {}
  /\ cached' = IF h < doneHeight THEN cached ELSE cached \cup {h}
  /\ toLease' = {h}
  /\ UNCHANGED <<mempoolVars, requested, doneHeight, freeing>>

(* ... and then leases its transactions, under another lock.               *)
LeaseProposal(h) ==
  /\ h \in toLease
  /\ LeaseTxns(h, BlockTxns[h])
  /\ toLease' = {}
  /\ UNCHANGED <<requested, cached, doneHeight, freeing>>

CommitProposal ==
  /\ ~ freeing
  /\ doneHeight + 1 \in cached
  /\ Commit(doneHeight + 1, BlockTxns[doneHeight + 1])
  /\ doneHeight' = doneHeight + 1
  /\ freeing' = TRUE
  /\ UNCHANGED <<requested, cached, toLease>>

FreeProposal ==
  /\ freeing
  /\ Free(doneHeight)
  /\ freeing' = FALSE
  /\ UNCHANGED <<requested, cached, toLease, doneHeight>>

FollowerPoolNext ==
  \/ \E k \in Key : ValidateRequest(k) \/ SubmitAndWait(k)
  \/ \E h \in Lease : ReceiveProposal(h) \/ LeaseProposal(h)
  \/ CommitProposal
  \/ FreeProposal

(* The network handler, the tick worker and the request tasks run, and     *)
(* every block reaches the node in the end.                                *)
FollowerPoolFairness ==
  /\ \A k \in Key : WF_followerPoolVars(SubmitAndWait(k))
  /\ \A h \in Lease : SF_followerPoolVars(ReceiveProposal(h))
  /\ \A h \in Lease : WF_followerPoolVars(LeaseProposal(h))
  /\ WF_followerPoolVars(CommitProposal)
  /\ WF_followerPoolVars(FreeProposal)

FollowerPoolSpec == FollowerPoolInit /\ [][FollowerPoolNext]_followerPoolVars /\ FollowerPoolFairness

-----------------------------------------------------------------------------

FollowerPoolTypeOK ==
  /\ MempoolTypeOK
  /\ requested \subseteq Key
  /\ cached \subseteq Lease
  /\ toLease \subseteq Lease
  /\ doneHeight \in Lease \cup {0}
  /\ freeing \in BOOLEAN

(* A request that is waiting when the block with its transaction is still  *)
(* to be committed is answered, whichever way the lease of that block and  *)
(* its commit interleave.                                                  *)
EarlyRequestAnswered ==
  \A h \in Lease : \A k \in BlockTxns[h] :
    (k \in waiting /\ doneHeight < h) ~> k \notin waiting

(* "obtain a receiver that resolves once the transaction is committed"     *)
(* (mempool.rs): a request is not left waiting for a transaction that is   *)
(* in a committed block.  submit_transaction_and_wait validates, and only  *)
(* then adds the transaction: a block committed in between leaves the      *)
(* request waiting for ever.                                               *)
CommittedRequestAnswered ==
  \A k \in Key : (k \in waiting /\ k \in Committed) ~> k \notin waiting
=============================================================================

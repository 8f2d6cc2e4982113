----------------------------- MODULE MCMempools -----------------------------
(* The pool of a validator (ProposerMempool) and the pool of another node  *)
(* (FollowerMempool), one per behaviour, with three transactions, of which *)
(* two conflict.                                                           *)
EXTENDS ProposerMempool, FollowerMempool

CONSTANTS a, b, c
VARIABLE part

(* a and b spend the same note; c is independent.                          *)
MCChangesOf ==
  [k \in Key |-> CASE k = a -> {1, 2} [] k = b -> {1, 3} [] k = c -> {4}]

(* The validator of the other node commits c, then a; b can never be       *)
(* committed.                                                              *)
MCBlockTxns == [h \in Lease |-> IF h = 1 THEN {c} ELSE {a}]

MCVars == <<vars, followerPoolVars, part>>

followerOnly == <<requested, cached, toLease, doneHeight, freeing>>
proposerOnly == <<spent, checked, workerVars>>

Proposing == part = "proposer" /\ UNCHANGED <<followerOnly, part>>
Following == part = "follower" /\ UNCHANGED <<proposerOnly, part>>

MCInit == part \in {"proposer", "follower"} /\ Init /\ FollowerPoolInit

MCNext ==
  \/ part = "proposer" /\ Next /\ Proposing
  \/ part = "follower" /\ FollowerPoolNext /\ Following

(* The fairness of Spec and FollowerPoolSpec.  A behaviour keeps its part, *)
(* so one condition on a disjunction of actions of both parts is the       *)
(* conjunction of the conditions on each of them.                          *)
MCFairness ==
  /\ WF_MCVars(\/ (TakeBatch \/ Decide \/ FreeLease) /\ Proposing
               \/ CommitProposal /\ Following)
  /\ SF_MCVars(CommitBlock /\ Proposing)
  /\ \A k \in Key : SF_MCVars(k \in ToSet(batch) /\ CommitBlock /\ Proposing)
  /\ \A k \in Key : WF_MCVars(SubmitAndWait(k) /\ Following)
  /\ \A h \in Lease : SF_MCVars(ReceiveProposal(h) /\ Following)
  /\ \A h \in Lease : WF_MCVars(LeaseProposal(h) /\ Following)
  /\ WF_MCVars(FreeProposal /\ Following)

MCSpec == MCInit /\ [][MCNext]_MCVars /\ MCFairness

MCFollowerSpec == MCInit /\ part = "follower" /\ [][MCNext]_MCVars /\ MCFairness

(* No proposal, failed or not, loses or doubles a pending transaction of   *)
(* a validator, and its pool never holds two that conflict, nor a lease of *)
(* an earlier height.                                                      *)
PoolsWhole ==
  IF part = "proposer"
  THEN TypeOK /\ EachTxnInOnePlace /\ PendingTxnsDisjoint /\ OnlyCurrentHeightLeases
  ELSE FollowerPoolTypeOK

(* EveryRequestAnswered, in a validator's pool: every request that waits   *)
(* for its transaction is answered in the end.                             *)
ValidatorAnswers == part = "proposer" => EveryRequestAnswered

(* EarlyRequestAnswered, in the pool of another node: a request that waits *)
(* before the block of its transaction is committed is answered.           *)
FollowerAnswers == part = "follower" => EarlyRequestAnswered
=============================================================================

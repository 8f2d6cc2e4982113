------------------------------ MODULE MCLedger ------------------------------
(* The ledger, one role per behaviour: the validator that makes blocks     *)
(* (Proposer), a node that receives them (Follower), and one that catches  *)
(* up with snapshots of blocks (NodeSync).                                 *)
EXTENDS ProposerFaults, NodeSync, TLC

CONSTANTS
  x, y, z, m1, m2, s1, s2, b, r, deposit, none,
  stray, n1, n2, n3, n4, n5, n6, i1, i2
VARIABLE part

(* The validator has two claims m1, m2 of one deposit; two transactions    *)
(* s1, s2 that spend the same note, s2 with an output m2 creates too; a    *)
(* burn b of what s1 creates, and a transaction r that turns it into the   *)
(* first note again.                                                       *)
MCLeaf == {x, y, z}
MCTxn == {m1, m2, s1, s2, b, r}
MCInputs == m1 :> {} @@ m2 :> {} @@ s1 :> {x} @@ s2 :> {x} @@ b :> {z} @@ r :> {z}
MCOutputs == m1 :> {x} @@ m2 :> {y} @@ s1 :> {z} @@ s2 :> {y} @@ b :> {} @@ r :> {x}
MCMintHash == {deposit}
MCMintOf == m1 :> deposit @@ m2 :> deposit @@ s1 :> none @@ s2 :> none @@ b :> none @@ r :> none

(* The other nodes follow a chain in which three notes are minted, then    *)
(* there is an empty block, one more is minted and one is burned, and a    *)
(* transaction with two inputs and two outputs spends the other two; only  *)
(* this one has no zero commitment.  A block of the empty one's height     *)
(* does not belong to the chain.                                           *)
MCStray == {stray}
MCBlock == 0 .. ChainHeight \cup MCStray
MCHeightOf == [h \in 0 .. ChainHeight |-> h] @@ stray :> 2
MCCreates == 0 :> {} @@ 1 :> {n1, n2, n3} @@ 2 :> {} @@ 3 :> {n4} @@ 4 :> {n5, n6}
MCConsumes == 0 :> {} @@ 1 :> {} @@ 2 :> {} @@ 3 :> {n3} @@ 4 :> {n1, n2}

MCVars == <<vars, allVars, part>>

MCInit ==
  /\ part \in {"validator", "follower", "slow"}
  /\ Init /\ SyncInit

(* Two blocks are enough for the exchange of snapshots.  Writes fail only  *)
(* where neither kind of snapshot is used.                                 *)
(* Of two free snapshot ids, which are alike, the first is taken.          *)
MCSyncBound ==
  /\ chain' <= 2
  /\ failures' = 0
  /\ request' # request /\ i1 \notin InUse => request'.id = i1

MCNext ==
  \/ part = "validator" /\ Next /\ UNCHANGED <<allVars, part>>
  \/ part = "follower" /\ FollowerNext /\ UNCHANGED <<vars, syncVars, part>>
  \/ part = "slow" /\ SyncNext /\ MCSyncBound /\ UNCHANGED <<vars, part>>

(* The fairness of FairSyncSpec, where a follower catches up.              *)
Slowly == part = "slow" /\ UNCHANGED <<vars, part>>

MCSpec ==
  /\ MCInit /\ [][MCNext]_MCVars
  /\ WF_MCVars(Slowly /\ NodeTicks)
  /\ WF_MCVars(Slowly /\ NodeNotifies)
  /\ WF_MCVars(Slowly /\ PeerCommits)
  /\ WF_MCVars(Slowly /\ PeerHandles)
  /\ WF_MCVars(Slowly /\ WorkerDelivery)
  /\ WF_MCVars(Slowly /\ WorkerSteps)
  /\ WF_MCVars(Slowly /\ TimeOut)

(* The validator alone, on a disk that refuses writes of the tree, and the *)
(* node with snapshots alone.                                              *)
MCFaultSpec ==
  /\ MCInit /\ part = "validator"
  /\ [][(Next \/ TreeWriteFails) /\ UNCHANGED <<allVars, part>>]_MCVars

MCSlowSpec ==
  /\ MCInit /\ part = "slow"
  /\ [][SyncNext /\ UNCHANGED <<vars, part>>]_MCVars

(* CatchesUpTo, for the node with snapshots of blocks: losses, timeouts    *)
(* and messages dropped by the sync worker do not leave it behind for good. *)
SlowSyncCatchesUp == part = "slow" => \A h \in 1 .. 2 : CatchesUpTo(h)
=============================================================================

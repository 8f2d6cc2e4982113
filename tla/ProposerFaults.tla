--------------------------- MODULE ProposerFaults ---------------------------
(***************************************************************************)
(* The validator of module Proposer on a disk that may refuse the write of *)
(* the notes tree (apply_block_to_tree in commit_proposal).                *)
(***************************************************************************)
EXTENDS Proposer

(* The tree in memory is changed before its database is written            *)
(* (insert_batch of smirk/src/storage/batch.rs).  The error ends           *)
(* create_proposal; the tick worker logs it and goes on.                   *)
TreeWriteFails ==
  /\ step = "applying"
  /\ tree' = ApplyBlock(tree, block)
  /\ step' = "idle"
  /\ block' = NoBlock
  /\ UNCHANGED <<diskVars, height, tip, poolVars, acked, sent, mints>>

FaultSpec == Init /\ [][Next \/ TreeWriteFails]_vars

(* What load_db_and_smirk asserts (load.rs:86) when the tree is that of    *)
(* the block before the last one, "assert!(persistent_tree.tree()          *)
(* .root_hash() == block.content.state.root_hash)": the last block is then *)
(* the one that was being committed, and applying it gives its root.       *)
ReapplyGivesRoot == OneBehind => Reapplicable /\ Reapplied = store[Max].root
=============================================================================

------------------------------- MODULE Ledger -------------------------------
(***************************************************************************)
(* Transactions, blocks and what makes them valid                          *)
(* (pkg/node/src/utxo.rs, block.rs, node/block.rs).                        *)
(*                                                                         *)
(* A transaction is a proof that consumes some note commitments (leaves of *)
(* the notes tree) and creates others; Txn holds those whose zero          *)
(* knowledge proof verifies and whose commitments are distinct, which      *)
(* validate_txn checks first.  The all-zero padding commitments are not    *)
(* leaves.  The root hash of a notes tree is modelled by the set of its    *)
(* leaves: two trees have the same root only if they have the same leaves. *)
(* No two leaves agree in the bits that place them in the tree.            *)
(***************************************************************************)
EXTENDS Naturals, Sequences

CONSTANTS
  Leaf,       \* note commitments
  Txn,        \* transactions
  Inputs,     \* the commitments a transaction consumes
  Outputs,    \* the commitments it creates
  MintHash,   \* mints recorded in the rollup contract
  NoMint,     \* what MintOf is for a transfer or a burn
  MintOf      \* the mint a transaction claims

ASSUME LedgerAssumption ==
  /\ Inputs \in [Txn -> SUBSET Leaf]
  /\ Outputs \in [Txn -> SUBSET Leaf]
  /\ NoMint \notin MintHash
  /\ MintOf \in [Txn -> MintHash \cup {NoMint}]

LeavesOf(t) == Inputs[t] \cup Outputs[t]

BlockInputs(b) == UNION {Inputs[t] : t \in b.txns}
BlockOutputs(b) == UNION {Outputs[t] : t \in b.txns}

BlockMints(b) == {MintOf[t] : t \in b.txns} \ {NoMint}

(* What block.hash() identifies: the header, the root and the height.      *)
HashOf(b) == <<b.height, b.root, b.prev>>

(* Block::genesis: its root is the zero element, not the root of the empty *)
(* tree; nothing compares a tree with it.                                  *)
Genesis == [height |-> 0, root |-> {"zero"}, txns |-> {}, prev |-> <<>>]

-----------------------------------------------------------------------------

(* Batch::from_entries and check_collisions accept a block's changes: no   *)
(* leaf is on both sides, none is inserted that is there, none removed     *)
(* that is not.                                                            *)
Applicable(tree, b) ==
  /\ BlockInputs(b) \cap BlockOutputs(b) = {}
  /\ BlockOutputs(b) \cap tree = {}
  /\ BlockInputs(b) \subseteq tree

(* apply_block_to_tree: one batch that inserts the outputs and removes the *)
(* inputs.                                                                 *)
ApplyBlock(tree, b) == (tree \cup BlockOutputs(b)) \ BlockInputs(b)

(* Mutant: only the tree is asked whether an output exists.                *)
ValidTxnWithoutHistory(t, tree, seenOutputs, seenMints) ==
  /\ Outputs[t] \cap tree = {}
  /\ Inputs[t] \subseteq tree
  /\ MintOf[t] \notin seenMints

(* Mutant: the block store is not asked about the mint.                    *)
ValidTxnWithoutMints(t, tree, seenOutputs, seenMints) ==
  /\ Outputs[t] \cap tree = {}
  /\ Outputs[t] \cap seenOutputs = {}
  /\ Inputs[t] \subseteq tree

(* validate_txn: the outputs are new, neither in the tree nor ever seen as *)
(* outputs by the block store; the inputs are in the tree; a mint was not  *)
(* claimed before.                                                         *)
ValidTxn(t, tree, seenOutputs, seenMints) ==
  /\ Outputs[t] \cap tree = {}
  /\ Outputs[t] \cap seenOutputs = {}
  /\ Inputs[t] \subseteq tree
  /\ MintOf[t] \notin seenMints

(* No commitment occurs twice in a block, on whichever side.               *)
DistinctLeaves(txns) ==
  /\ \A t \in txns : Inputs[t] \cap Outputs[t] = {}
  /\ \A s, t \in txns : s # t => LeavesOf(s) \cap LeavesOf(t) = {}

(* BlockContent::validate.                                                 *)
ValidContent(b, tree, seenOutputs, seenMints) ==
  /\ DistinctLeaves(b.txns)
  /\ \A t \in b.txns : ValidTxn(t, tree, seenOutputs, seenMints)
  /\ b.root = ApplyBlock(tree, b)
=============================================================================

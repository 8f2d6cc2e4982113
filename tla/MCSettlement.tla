---------------------------- MODULE MCSettlement ----------------------------
(* The settlement on the rollup contract, one part per behaviour: its      *)
(* money (RollupV1), with one prover and one validator, the proofs of      *)
(* blocks (Proving), and a prover that is behind and takes the notes at    *)
(* the contract's height from a peer (FastSync).                           *)
EXTENDS RollupV1, Proving, MCFastSync

CONSTANTS x1, x2
VARIABLE part

(* One mint hash, recorded with nothing or with 2 tokens, and two burns,   *)
(* which may share a block.                                                *)
MCBurnAmount == (x1 :> 1) @@ (x2 :> 2)

(* Blocks of up to six transactions over a tree of 16 leaves.              *)
MCInitNotes == <<1, 2, 2, 1, 2>>

NoProving ==
  /\ notes = {} /\ block = <<>> /\ aggs = <<>> /\ proof = <<>> /\ stage = "none"
  /\ rootHash = Zero /\ minted = <<>> /\ wanted = <<>> /\ mocked = <<>> /\ blocks = 0

MCInit ==
  /\ part \in {"money", "proving", "behind"}
  /\ RollupInit /\ FastInit
  /\ IF part = "proving" THEN ProvingInit ELSE NoProving

(* Six transactions fill one block; two blocks share at most five.          *)
MCTxnBound == Len(block') = 6 \/ Len(wanted' \o block') <= 5 \/ block' = <<>>

MCNext ==
  \/ part = "money" /\ RollupNext /\ UNCHANGED <<provingVars, fastVars, part>>
  \/ part = "proving" /\ ProvingNext /\ MCTxnBound /\ UNCHANGED <<rollupVars, fastVars, part>>
  \/ part = "behind" /\ FastNext /\ UNCHANGED <<rollupVars, provingVars, part>>

MCSpec == MCInit /\ [][MCNext]_<<rollupVars, provingVars, fastVars, part>>

(* Every block can be proved and is accepted, and the contract carries out *)
(* exactly what its transactions ask, with either prover (ProofsGoThrough, *)
(* SettledIsAsked, MockSettlesTheSame).                                    *)
SettledExactly == ProofsGoThrough /\ SettledIsAsked /\ MockSettlesTheSame
=============================================================================

------------------------------ MODULE Proving ------------------------------
(* From the transactions of a block to what the contract settles: the       *)
(* prover library aggregates them three by three and the two aggregates     *)
(* once more (prover/src/lib.rs, the circuits agg_utxo and agg_agg), and    *)
(* verifyRollup reads the messages of the result.  A client submits         *)
(* transactions it can prove, the node puts them in a block, the prover     *)
(* proves the block and the contract verifies it.                           *)
(*                                                                          *)
(* The tree is the set of the commitments in it.  A commitment's place is   *)
(* given by its low bits, for which the note's psi stands.                  *)
EXTENDS Utxo, FiniteSetsExt

CONSTANTS Depth,      \* MERKLE_TREE_PATH_DEPTH
          InitNotes,  \* the values of the notes in the tree at the start
          MaxBlocks,  \* bound: blocks
          MaxTxns     \* bound: transactions in all blocks together

VARIABLES notes,     \* the notes in the tree of the node and of the prover
          block,     \* the transactions of the block that is being made or proved
          aggs,      \* the aggregates proved so far
          proof,     \* the proof of the whole block
          stage,     \* what happens next
          rootHash,  \* of the contract
          minted,    \* the mints and burns the contract carried out, in order
          wanted,    \* those the transactions of the blocks ask for, in order
          mocked,    \* those it would carry out for the proofs of the mock prover
          blocks     \* the blocks made

provingVars == <<notes, block, aggs, proof, stage, rootHash, minted, wanted, mocked, blocks>>

UTXO_AGG_NUMBER == 3

UTXO_AGGREGATIONS == 2

MAXIMUM_TXNS == UTXO_AGG_NUMBER * UTXO_AGGREGATIONS

-----------------------------------------------------------------------------
(* The tree.                                                                *)

(* The place of a commitment: the low bits of the hash.                     *)
Place(c) == c[2][5][2] % 2 ^ Depth

(* The hashes of the nodes, level by level, the leaves first.               *)
Levels(tree) ==
  LET level[d \in 0..Depth] ==
        [i \in 0..2 ^ (Depth - d) - 1 |->
           IF d = 0
             THEN IF \E c \in tree : Place(c) = i THEN CHOOSE c \in tree : Place(c) = i ELSE Zero
             ELSE hash_merge(<<level[d - 1][2 * i], level[d - 1][2 * i + 1]>>)]
  IN level

Root(tree) == Levels(tree)[Depth][0]

(* path_to_merkle_path(tree.path_for(leaf)): the siblings, deepest first.   *)
MerklePath(tree, c) ==
  LET levels == Levels(tree)
  IN [d \in 1..Depth |->
        LET i == Place(c) \div 2 ^ (d - 1)
        IN levels[d - 1][IF i % 2 = 0 THEN i + 1 ELSE i - 1]]

PaddingPath == [d \in 1..Depth |-> Zero]

(* get_merkle_root of the circuit: bit d of c tells on which side of the    *)
(* sibling the hash is.                                                     *)
MerkleRoot(leaf, c, path) ==
  FoldLeft(LAMBDA hash, d : IF (Place(c) \div 2 ^ (d - 1)) % 2 = 0
                              THEN hash_merge(<<hash, path[d]>>)
                              ELSE hash_merge(<<path[d], hash>>),
           leaf, [d \in 1..Depth |-> d])

-----------------------------------------------------------------------------
(* Aggregating three transactions.                                          *)

(* gen_merkle_paths: the inputs of a transaction are taken out one by one,  *)
(* after their path is read, and its outputs put in, before theirs is.      *)
GenMerklePaths(tree, txns) ==
  LET step(acc, leaf) ==
        LET c == leaf[2]
            after == IF leaf[1] = "in" THEN acc.tree \ {c} ELSE acc.tree \cup {c}
        IN IF c = Zero
             THEN [acc EXCEPT !.paths = Append(@, PaddingPath)]
             ELSE [tree |-> after,
                   paths |-> Append(acc.paths,
                                    MerklePath(IF leaf[1] = "in" THEN acc.tree ELSE after, c))]
      leaves(pi) == [i \in 1..2 |-> <<"in", pi.input_commitments[i]>>]
                      \o [i \in 1..2 |-> <<"out", pi.output_commitments[i]>>]
  IN FoldLeft(step, [tree |-> tree, paths |-> << >>], FlattenSeq([i \in DOMAIN txns |-> leaves(txns[i])]))

(* UtxoProofBundleWithMerkleProofs::new, and its default for a padding.     *)
Bundle(pi, paths) ==
  [public |-> pi, input_paths |-> SubSeq(paths, 1, 2), output_paths |-> SubSeq(paths, 3, 4)]

DefaultBundle ==
  Bundle(DefaultPublicInput, <<PaddingPath, PaddingPath, PaddingPath, PaddingPath>>)

(* The messages of mints and burns, packed.                                 *)
PackedMessages(pi) ==
  CASE Kind(pi) \in {"Null", "Send"} -> << >>
    [] Kind(pi) = "Mint" -> SubSeq(pi.messages, 1, 4)
    [] OTHER -> pi.messages

(* The packed messages of the transactions, followed by zeros.              *)
PadMessages(pis, length) ==
  LET packed == FlattenSeq([i \in DOMAIN pis |-> PackedMessages(pis[i])])
  IN packed \o [i \in 1..length - Len(packed) |-> Zero]

(* AggUtxo::new and AggUtxoInput.                                           *)
AggUtxoInput(bundles, old_root, new_root) ==
  [proofs |-> [i \in 1..3 |-> bundles[i] @@ [utxo_kind |-> Num(KindNumber[Kind(bundles[i].public)])]],
   messages |-> PadMessages([i \in 1..3 |-> bundles[i].public], 15),
   old_root |-> old_root,
   new_root |-> new_root,
   commit_hash |-> hash_merge([i \in 1..3 |-> CommitHash(bundles[i].public)])]

(* What the circuit makes of the proofs one by one: the root, the next      *)
(* message, and whether every assertion held.  The proof of a transaction   *)
(* verifies when it is for these public inputs; for a padding the first     *)
(* proof is verified again.                                                 *)
AggUtxoStep(messages, acc, p) ==
  LET kind == p.utxo_kind[2]
      c == p.public.input_commitments \o p.public.output_commitments
      paths == p.input_paths \o p.output_paths
      m == [j \in 1..5 |->
              CASE j = 1 -> p.utxo_kind
                [] j \in 2..4 -> IF kind \in {2, 3, 4} THEN messages[acc.index + j] ELSE Zero
                [] OTHER -> IF kind \in {3, 4} THEN messages[acc.index + 5] ELSE Zero]
      move(a, j) ==
        IF c[j] = Zero
          THEN a
          ELSE LET before == MerkleRoot(IF j <= 2 THEN c[j] ELSE Zero, c[j], paths[j])
                   after == MerkleRoot(IF j <= 2 THEN Zero ELSE c[j], c[j], paths[j])
               IN [root |-> after, ok |-> a.ok /\ before = a.root]
      moved == FoldLeft(move, [root |-> acc.root, ok |-> acc.ok], <<1, 2, 3, 4>>)
  IN IF kind = 0
       THEN acc
       ELSE [root |-> moved.root,
             index |-> acc.index + (CASE kind = 1 -> 0 [] kind = 2 -> 4 [] OTHER -> 5),
             ok |-> moved.ok
                      /\ (kind \in {2, 3, 4} => messages[acc.index + 1] = p.utxo_kind)
                      /\ p.public = [input_commitments |-> SubSeq(c, 1, 2),
                                     output_commitments |-> SubSeq(c, 3, 4), messages |-> m]]

AggUtxoCircuit(in) ==
  LET end == FoldLeft(LAMBDA acc, p : AggUtxoStep(in.messages, acc, p),
                      [root |-> in.old_root, index |-> 0, ok |-> TRUE], in.proofs)
  IN /\ in.proofs[1].utxo_kind # Zero
     /\ end.ok
     /\ \A i \in end.index + 1..15 : in.messages[i] = Zero
     /\ end.root = in.new_root
     /\ in.commit_hash = hash_merge([i \in 1..3 |-> CommitHash(in.proofs[i].public)])

AggUtxoPublic(in) == in.messages \o <<in.old_root, in.new_root, in.commit_hash>>

DefaultAggUtxoProof ==
  [messages |-> [i \in 1..15 |-> Zero], old_root |-> Zero, new_root |-> Zero, commit_hash |-> Zero]

(* The proof's public inputs, cut up as the circuit lays them out.          *)
ProveAggUtxo(in) ==
  LET pub == AggUtxoPublic(in)
  IN [messages |-> SubSeq(pub, 1, 15), old_root |-> pub[16], new_root |-> pub[17],
      commit_hash |-> pub[18]]

AggIsPadding(agg) == agg.old_root = Zero

AllPadding(txns) == \A i \in DOMAIN txns : IsPadding(txns[i])

(* The input of the circuit for three of the transactions.                  *)
AggregateInput(tree, txns) ==
  LET moved == GenMerklePaths(tree, txns)
      bundle(i) == IF IsPadding(txns[i])
                     THEN DefaultBundle
                     ELSE Bundle(txns[i], SubSeq(moved.paths, 4 * i - 3, 4 * i))
  IN AggUtxoInput([i \in 1..3 |-> bundle(i)], Root(tree), Root(moved.tree))

-----------------------------------------------------------------------------
(* Aggregating the two aggregates.                                          *)

AggAggNewRoot(proofs) ==
  IF AggIsPadding(proofs[2]) THEN proofs[1].new_root ELSE proofs[2].new_root

AggAggInput(proofs) ==
  [proofs |-> proofs,
   messages |-> proofs[1].messages \o proofs[2].messages,
   old_root |-> proofs[1].old_root,
   new_root |-> AggAggNewRoot(proofs),
   commit_hash |-> hash_merge(<<proofs[1].commit_hash, proofs[2].commit_hash>>)]

(* The circuit agg_agg: an aggregate with the old root 0 is a padding, for  *)
(* which the first one is verified again.                                   *)
AggAggCircuit(in) ==
  LET step(acc, i) ==
        LET p == in.proofs[i]
        IN IF AggIsPadding(p)
             THEN [acc EXCEPT !.ok = @ /\ i # 1]
             ELSE [root |-> p.new_root,
                   ok |-> /\ acc.ok
                          /\ p.old_root = acc.root
                          /\ p.messages = SubSeq(in.messages, 15 * i - 14, 15 * i)]
      end == FoldLeft(step, [root |-> in.old_root, ok |-> TRUE], <<1, 2>>)
  IN /\ end.ok
     /\ in.commit_hash = hash_merge(<<in.proofs[1].commit_hash, in.proofs[2].commit_hash>>)
     /\ in.new_root = end.root

AggAggPublic(in) == <<in.old_root, in.new_root, in.commit_hash>> \o in.messages

ProveAggAgg(in) ==
  LET pub == AggAggPublic(in)
  IN [old_root |-> pub[1], new_root |-> pub[2], commit_hash |-> pub[3],
      messages |-> SubSeq(pub, 4, 3 + 6 * 5), kzg |-> << >>]

(* The proof the worker makes up in the mode MockProver.                    *)
MockProof(old_root, new_root, txns) ==
  [old_root |-> old_root, new_root |-> new_root, commit_hash |-> Zero,
   messages |-> PadMessages(txns, 30), kzg |-> << >>]

-----------------------------------------------------------------------------
(* The contract.                                                            *)

(* verify_block of the contract's client: the argument publicInputs.        *)
CallPublicInputs(p) == <<p.old_root, p.new_root, p.commit_hash>> \o p.messages \o p.kzg

(* Mutant: the contract passes over burns of the kind 4.                    *)
VerifyMessageNoNoSub(public, acc, index) ==
  IF index < acc.next
    THEN acc
    ELSE CASE public[index] = Num(2) ->
                [acc EXCEPT !.next = index + 4,
                            !.done = Append(@, SubSeq(public, index, index + 3))]
           [] public[index] = Num(3) ->
                [acc EXCEPT !.next = index + 5,
                            !.done = Append(@, SubSeq(public, index, index + 4))]
           [] public[index] = Num(4) -> [acc EXCEPT !.next = index + 5]
           [] OTHER -> [acc EXCEPT !.next = index + 1, !.ok = @ /\ public[index] = Zero]

(* verifyMessages: a mint takes four of the public inputs, a burn five.     *)
VerifyMessage(public, acc, index) ==
  IF index < acc.next
    THEN acc
    ELSE CASE public[index] = Num(2) ->
                [acc EXCEPT !.next = index + 4,
                            !.done = Append(@, SubSeq(public, index, index + 3))]
           [] public[index] \in {Num(3), Num(4)} ->
                [acc EXCEPT !.next = index + 5,
                            !.done = Append(@, SubSeq(public, index, index + 4))]
           [] OTHER -> [acc EXCEPT !.next = index + 1, !.ok = @ /\ public[index] = Zero]

VerifyAllMessages(public) ==
  FoldLeft(LAMBDA acc, index : VerifyMessage(public, acc, index),
           [next |-> 4, ok |-> TRUE, done |-> << >>], [i \in 1..Len(public) |-> i])

-----------------------------------------------------------------------------
(* The client and the node.                                                 *)

Owner == Num(1)

Token == Num(1)

OwnedNote(value, psi) == NewNote(Token, value, get_address_for_private_key(Owner), Num(psi))

Tree == {Commitment(n) : n \in notes}

Outputs(txns) == UNION {{u.output_notes[1], u.output_notes[2]} : u \in Range(txns)} \ {PaddingNote}

Inputs(txns) ==
  UNION {{u.input_notes[1].note, u.input_notes[2].note} : u \in Range(txns)} \ {PaddingNote}

(* A psi no note of the tree or of the block has.                           *)
FreshPsis == (1..2 ^ Depth) \ {n.psi[2] : n \in notes \cup Outputs(block)}

Spendable == notes \ Inputs(block)

(* The lowest psis and notes: which of them are taken makes no difference   *)
(* to the proof.                                                            *)
FirstPsi == Min(FreshPsis)

SecondPsi == Min(FreshPsis \ {FirstPsi})

FirstNote(ns) == CHOOSE n \in ns : \A other \in ns : n.psi[2] <= other.psi[2]

Spend(ns) ==
  IF ns = {} THEN PaddingInput ELSE InputNote(FirstNote(ns), Owner)

(* A send of one or two notes to a first note of value 1 and a second one   *)
(* with the rest, a mint, and the two kinds of burn.                        *)
Drafts ==
  LET one == Spend(Spendable)
      two == Spend(Spendable \ {one.note})
      send(ins) ==
        LET rest == Sub(Add(ins[1].note.value, ins[2].note.value), Num(1))
        IN new_send(ins, <<OwnedNote(Num(1), FirstPsi),
                           IF rest = Zero THEN PaddingNote ELSE OwnedNote(rest, SecondPsi)>>)
  IN {new_mint(<<OwnedNote(Num(2), FirstPsi), PaddingNote>>)}
       \cup (IF Spendable = {} \/ Cardinality(FreshPsis) < 2
               THEN {}
               ELSE {send(<<one, IF Len(block) % 2 = 0 THEN two ELSE PaddingInput>>),
                     new_burn(<<one, PaddingInput>>, Num(7)),
                     new_burn_no_sub(<<one, PaddingInput>>, Num(7))})

(* The proved transactions of the block, and the empty slots after them.    *)
Txns ==
  [i \in 1..MAXIMUM_TXNS |-> IF i <= Len(block) THEN ProveUtxo(block[i]) ELSE DefaultPublicInput]

ProvingInit ==
  /\ notes = {OwnedNote(Num(InitNotes[i]), i) : i \in DOMAIN InitNotes}
  /\ block = << >>
  /\ aggs = << >>
  /\ proof = [old_root |-> Zero]
  /\ stage = "submit"
  /\ rootHash = Root(Tree)
  /\ minted = << >>
  /\ wanted = << >>
  /\ mocked = << >>
  /\ blocks = 0

(* A client proves a transaction, and the node verifies the proof and takes *)
(* the transaction into the block.                                          *)
Submit ==
  /\ stage = "submit"
  /\ blocks < MaxBlocks
  /\ Len(block) < MAXIMUM_TXNS
  /\ Len(wanted) + Len(block) < MaxTxns
  /\ \E u \in Drafts :
       IF CanProve(u) /\ VerifyUtxo(ProveUtxo(u), UtxoInput(u))
         THEN block' = Append(block, u) /\ UNCHANGED stage
         ELSE stage' = "failed" /\ UNCHANGED block
  /\ UNCHANGED <<notes, aggs, proof, rootHash, minted, wanted, mocked, blocks>>

(* The block is committed and the prover takes it up.                       *)
StartProving ==
  /\ stage = "submit"
  /\ block # << >>
  /\ stage' = "aggregate"
  /\ UNCHANGED <<notes, block, aggs, proof, rootHash, minted, wanted, mocked, blocks>>

(* The tree the prover has reached: notes_tree.clone(), moved on by the     *)
(* aggregates before this one.                                              *)
ProverTree ==
  GenMerklePaths(Tree, SubSeq(Txns, 1, UTXO_AGG_NUMBER * Len(aggs))).tree

(* aggregate_utxo.                                                          *)
AggregateUtxo ==
  /\ stage = "aggregate"
  /\ Len(aggs) < UTXO_AGGREGATIONS
  /\ LET first == UTXO_AGG_NUMBER * Len(aggs)
         txns == SubSeq(Txns, first + 1, first + UTXO_AGG_NUMBER)
         in == AggregateInput(ProverTree, txns)
     IN IF AllPadding(txns)
          THEN aggs' = Append(aggs, DefaultAggUtxoProof) /\ UNCHANGED stage
          ELSE IF AggUtxoCircuit(in)
            THEN aggs' = Append(aggs, ProveAggUtxo(in)) /\ UNCHANGED stage
            ELSE stage' = "failed" /\ UNCHANGED aggs
  /\ UNCHANGED <<notes, block, proof, rootHash, minted, wanted, mocked, blocks>>

TreeAfterBlock == (notes \ Inputs(block)) \cup Outputs(block)

(* The end of generate_aggregate_proof, and the worker's check of the root  *)
(* against that of the block.                                               *)
AggregateAll ==
  /\ stage = "aggregate"
  /\ Len(aggs) = UTXO_AGGREGATIONS
  /\ LET in == AggAggInput(aggs)
         p == ProveAggAgg(in)
     IN IF /\ AggAggCircuit(in)
           /\ p.new_root = Root({Commitment(n) : n \in TreeAfterBlock})
          THEN proof' = p /\ stage' = "rollup"
          ELSE stage' = "failed" /\ UNCHANGED proof
  /\ UNCHANGED <<notes, block, aggs, rootHash, minted, wanted, mocked, blocks>>

(* verifyRollup, and the prover's tree moves on.                            *)
SettleBlock ==
  /\ stage = "rollup"
  /\ LET public == CallPublicInputs(proof)
         verified == VerifyAllMessages(public)
         mock == VerifyAllMessages(CallPublicInputs(MockProof(proof.old_root, proof.new_root,
                                                              SubSeq(Txns, 1, Len(block)))))
     IN IF Len(public) = 33 /\ public[1] = rootHash /\ verified.ok
          THEN /\ stage' = "submit"
               /\ rootHash' = public[2]
               /\ minted' = minted \o verified.done
               /\ mocked' = mocked \o mock.done
          ELSE stage' = "failed" /\ UNCHANGED <<rootHash, minted, mocked>>
  /\ wanted' = wanted \o [i \in DOMAIN block |-> block[i]]
  /\ notes' = TreeAfterBlock
  /\ block' = << >>
  /\ aggs' = << >>
  /\ blocks' = blocks + 1
  /\ UNCHANGED proof

ProvingNext == Submit \/ StartProving \/ AggregateUtxo \/ AggregateAll \/ SettleBlock

ProvingSpec == ProvingInit /\ [][ProvingNext]_provingVars

-----------------------------------------------------------------------------
(* Every block of transactions that could be proved one by one can be       *)
(* proved as a whole and is accepted by the contract: the paths of          *)
(* gen_merkle_paths, the paddings of the worker and of the aggregates, and  *)
(* the layouts on both sides of each circuit and of the call fit together.  *)
ProofsGoThrough == stage # "failed"

(* What the mint or burn of a transaction is for the contract.              *)
Asked(u) ==
  CASE u.kind = "Send" -> << >>
    [] u.kind = "Mint" ->
         <<<<Num(2), Token, OutputValue(u), hash_merge(<<u.output_notes[1].psi, u.output_notes[2].psi>>)>>>>
    [] OTHER ->
         <<<<Num(IF u.kind = "Burn" THEN 3 ELSE 4), Token, InputValue(u),
             Commitment(u.input_notes[1].note), u.burn_address>>>>

(* What the node reads from the proof, to look a mint up in the contract.   *)
Read(u) ==
  LET k == KindMessages(ProveUtxo(u))
  IN CASE k.type = "None" -> << >>
       [] k.type = "Mint" -> <<<<Num(2), k.note_kind, k.value, k.hash>>>>
       [] OTHER -> <<<<Num(KindNumber[u.kind]), k.note_kind, k.value, k.hash, k.address>>>>

(* The contract has carried out exactly the mints and burns of the          *)
(* transactions of the settled blocks, in their order, these are what the   *)
(* node read with kind_messages, and the contract's root is that of the     *)
(* tree with their notes: nothing is lost, repeated or read at the   *)
(* wrong place on the way through messages() of the three proofs and        *)
(* verifyAllMessages.                                                       *)
SettledIsAsked ==
  stage = "submit" =>
    /\ minted = FlattenSeq([i \in DOMAIN wanted |-> Asked(wanted[i])])
    /\ \A i \in DOMAIN wanted : Read(wanted[i]) = Asked(wanted[i])
    /\ rootHash = Root(Tree)

(* The proofs of the mock prover, which packs the messages of all six       *)
(* transactions at once instead of three by three, make the contract carry  *)
(* out the same.                                                            *)
MockSettlesTheSame == mocked = minted

(* An input of the circuit: the values of its notes and of its message.     *)
InputOf(kind, v) ==
  LET note(i) == IF v[i] = 0 THEN PaddingNote ELSE OwnedNote(Num(v[i]), i)
      spent(i) == IF v[i] = 0 THEN PaddingInput ELSE InputNote(note(i), Owner)
  IN [UtxoInput(NewUtxo(kind, <<spent(1), spent(2)>>, <<note(3), note(4)>>, Num(7)))
        EXCEPT !.messages[3] = Num(v[5])]

(* A transaction the circuit accepts balances in whole numbers and not only *)
(* in the field: the bounds of the values leave no room for a sum to wrap   *)
(* around the modulus. The inputs' values were those of outputs once.       *)
AcceptedBalances ==
  stage = "submit" /\ blocks = 0 /\ block = << >> =>
    \A kind \in {"Send", "Mint", "Burn", "NoSub"} :
      \A v \in [1..2 -> 0..2 ^ ValueBits - 1] : \A w \in [1..3 -> 0..P - 1] :
        LET values == <<v[1], v[2], w[1], w[2], w[3]>>
            before == v[1] + v[2]
            after == w[1] + w[2]
        IN UtxoCircuit(InputOf(kind, values)) =>
             CASE kind = "Send" -> before = after
               [] kind = "Mint" -> after = before + w[3]
               [] OTHER -> before = after + w[3]
=============================================================================

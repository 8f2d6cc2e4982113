--------------------------- MODULE ProposerProofs ---------------------------
(***************************************************************************)
(* Proofs that the invariants of module Proposer hold for every set of     *)
(* transactions, every height and every sequence of crashes.               *)
(***************************************************************************)
EXTENDS Proposer, TLAPS

RootAt(h) == IF h = 0 THEN {} ELSE store[h].root

(* The indexes of the block store list what its blocks create and claim.   *)
IndexesInv ==
  /\ seenOutputs = Created(Heights)
  /\ seenMints = UNION {BlockMints(store[h]) : h \in Heights}

(* Each block applies to the tree of the block before it.                  *)
BlocksApply ==
  \A h \in Heights :
    /\ Applicable(RootAt(h - 1), store[h])
    /\ store[h].root = ApplyBlock(RootAt(h - 1), store[h])

RootsInv == \A h \in Heights : store[h].root = Created(1 .. h) \ Consumed(1 .. h)

(* What a running validator has in memory, step by step.                   *)
MemoryInv ==
  Up =>
    /\ height = IF step \in {"applying", "answering", "confirming"} THEN Max - 1 ELSE Max
    /\ tip = IF height = 0 THEN Genesis ELSE store[height]
    /\ tree = RootAt(IF step = "applying" THEN Max - 1 ELSE Max)
    /\ diskTree = tree

BlockInv ==
  /\ step = "storing" =>
       /\ block.height = Max + 1
       /\ block.prev = HashOf(tip)
       /\ block \in [height : Nat, root : SUBSET Leaf, txns : SUBSET Txn, prev : {HashOf(tip)}]
       /\ ValidContent(block, tree, seenOutputs, seenMints)
  /\ step \in {"applying", "answering", "confirming", "sending"} =>
       Max > 0 /\ block = store[Max]

(* The tree on disk is at most one block behind the store.                 *)
DiskInv == diskTree = RootAt(Max) \/ (Max > 0 /\ diskTree = RootAt(Max - 1))

ChainInv ==
  /\ ChainLinked
  /\ IndexesInv
  /\ BlocksApply
  /\ RootsInv
  /\ NoDoubleSpend
  /\ MintClaimedInOneBlock

IInv ==
  /\ TypeOK
  /\ ChainInv
  /\ MemoryInv
  /\ BlockInv
  /\ DiskInv
  /\ AckedIsDurable
  /\ SentIsStored

-----------------------------------------------------------------------------

(* What a block changes are leaves and what it claims are mints.           *)
LEMMA BlockTypes ==
  ASSUME NEW b, b.txns \subseteq Txn
  PROVE  /\ BlockInputs(b) \subseteq Leaf
         /\ BlockOutputs(b) \subseteq Leaf
         /\ BlockMints(b) \subseteq MintHash
BY LedgerAssumption DEF BlockInputs, BlockOutputs, BlockMints

(* Applying a block to a tree of leaves gives a tree of leaves.            *)
LEMMA ApplyType ==
  ASSUME NEW b, b.txns \subseteq Txn, NEW leaves \in SUBSET Leaf
  PROVE  ApplyBlock(leaves, b) \in SUBSET Leaf
BY BlockTypes, Zenon DEF ApplyBlock

(* What the chain says of itself depends on the store and its indexes      *)
(* only.                                                                   *)
LEMMA ChainFrame ==
  ASSUME ChainInv, UNCHANGED <<store, seenOutputs, seenMints>>
  PROVE  ChainInv'
BY DEF ChainInv, ChainLinked, IndexesInv, BlocksApply, RootsInv, NoDoubleSpend,
       MintClaimedInOneBlock, Heights, Created, Consumed, RootAt

(* The same for the types of blocks and for the histories.                 *)
LEMMA BlocksFrame ==
  ASSUME UNCHANGED store
  PROVE  /\ Max' = Max /\ Heights' = Heights /\ Blocks' = Blocks /\ Tips' = Tips
         /\ \A h : RootAt(h)' = RootAt(h)
BY Zenon DEF Max, Heights, Blocks, Tips, RootAt, HashOf

(* What was acknowledged and sent depends on the store and the histories. *)
LEMMA HistoryFrame ==
  ASSUME AckedIsDurable, SentIsStored, UNCHANGED <<store, acked, sent>>
  PROVE  AckedIsDurable' /\ SentIsStored'
BY DEF AckedIsDurable, SentIsStored, StoredTxns, Heights

(* The store as a sequence: its length, its heights, its blocks.           *)
LEMMA StoreShape ==
  ASSUME TypeOK
  PROVE  /\ Max \in Nat
         /\ Heights = 1 .. Max
         /\ store = <<>> <=> Max = 0
         /\ \A h \in Heights : store[h] \in Blocks /\ store[h].txns \subseteq Txn
<1>1. store \in Seq(Blocks)
  BY Zenon DEF TypeOK
<1>2. /\ Max \in Nat
      /\ Heights = 1 .. Max
      /\ store = <<>> <=> Max = 0
      /\ \A h \in Heights : store[h] \in Blocks
  BY <1>1 DEF Max, Heights
<1>3. \A b \in Blocks : b.txns \subseteq Txn
  BY Zenon DEF Blocks
<1> QED
  BY <1>2, <1>3, Zenon

(* The invariant holds when the node starts on empty databases.            *)
LEMMA InitInv == Init => IInv
<1> SUFFICES ASSUME Init PROVE IInv
  BY Zenon
<1>0. store = <<>> /\ Heights = {} /\ Max = 0
  BY DEF Init, Heights, Max
<1>1. TypeOK
  BY <1>0 DEF Init, TypeOK, NoBlock, Steps, Tips
<1>2. ChainInv
  BY <1>0, Zenon DEF Init, ChainInv, ChainLinked, IndexesInv, BlocksApply, RootsInv, NoDoubleSpend,
              MintClaimedInOneBlock, Created
<1>3. MemoryInv /\ BlockInv /\ DiskInv
  BY <1>0, Zenon DEF Init, MemoryInv, BlockInv, DiskInv, RootAt
<1>4. AckedIsDurable /\ SentIsStored
  BY <1>0, Zenon DEF Init, AckedIsDurable, SentIsStored
<1> QED
  BY <1>1, <1>2, <1>3, <1>4, Zenon DEF IInv

-----------------------------------------------------------------------------

(* What StoreBlock does to the store: one block more, the others stay.     *)
LEMMA StoreGrows ==
  ASSUME TypeOK, MemoryInv, StoreBlock
  PROVE  /\ Max \in Nat
         /\ Heights = 1 .. Max
         /\ Max' = Max + 1
         /\ Heights' = 1 .. Max + 1
         /\ \A h \in 1 .. Max : store'[h] = store[h]
         /\ store'[Max + 1] = block
         /\ store' = [h \in 1 .. Max + 1 |-> IF h = Max + 1 THEN block ELSE store[h]]
<1>1. Max \in Nat /\ Heights = 1 .. Max
  BY StoreShape, Zenon
<1>2. height = Max
  BY Zenon DEF MemoryInv, StoreBlock, Up
<1>3. store' = [h \in 1 .. Max + 1 |-> IF h = Max + 1 THEN block ELSE store[h]]
  BY <1>2, Zenon DEF StoreBlock
<1>4. Len(store') = Max + 1
  BY <1>1, <1>3
<1> QED
  BY <1>1, <1>3, <1>4 DEF Max, Heights

(* The notes created and consumed before the new block are those of the    *)
(* old store.                                                              *)
LEMMA StoredNotes ==
  ASSUME TypeOK, MemoryInv, StoreBlock
  PROVE  /\ \A hs \in SUBSET (1 .. Max) : Created(hs)' = Created(hs) /\ Consumed(hs)' = Consumed(hs)
         /\ Created(Heights)' = Created(Heights) \cup BlockOutputs(block)
         /\ Consumed(Heights)' = Consumed(Heights) \cup BlockInputs(block)
<1> USE StoreGrows
<1>1. ASSUME NEW hs \in SUBSET (1 .. Max)
      PROVE  Created(hs)' = Created(hs) /\ Consumed(hs)' = Consumed(hs)
  BY <1>1, Zenon DEF Created, Consumed, BlockOutputs, BlockInputs
<1>2. Heights' = Heights \cup {Max + 1}
  OBVIOUS
<1>3. Created(Heights)' = Created(Heights) \cup BlockOutputs(block)
  BY <1>2 DEF Created, BlockOutputs
<1>4. Consumed(Heights)' = Consumed(Heights) \cup BlockInputs(block)
  BY <1>2, ZenonT(30) DEF Consumed, BlockInputs
<1> QED
  BY <1>1, <1>3, <1>4, Zenon

(* The new block extends a chain without double spends: its outputs are    *)
(* new to the index of all outputs, and its inputs are in the tree, which  *)
(* holds what was created and not consumed.                                *)
LEMMA StoreKeepsChain ==
  ASSUME IInv, StoreBlock
  PROVE  ChainInv'
<1> DEFINE n == Max
<1>a. TypeOK /\ MemoryInv /\ ChainInv /\ BlockInv
  BY Zenon DEF IInv
<1>b. /\ n \in Nat
      /\ Heights = 1 .. n
      /\ Heights' = 1 .. n + 1
      /\ \A h \in 1 .. n : store'[h] = store[h]
      /\ store'[n + 1] = block
  BY <1>a, StoreGrows, Zenon
<1>c. /\ \A hs \in SUBSET (1 .. n) : Created(hs)' = Created(hs) /\ Consumed(hs)' = Consumed(hs)
      /\ Created(Heights)' = Created(Heights) \cup BlockOutputs(block)
      /\ Consumed(Heights)' = Consumed(Heights) \cup BlockInputs(block)
  BY <1>a, StoredNotes, Zenon
<1>d. /\ block.height = n + 1
      /\ block.prev = HashOf(tip)
      /\ block.txns \subseteq Txn
      /\ ValidContent(block, tree, seenOutputs, seenMints)
      /\ tree = RootAt(n)
      /\ tip = IF n = 0 THEN Genesis ELSE store[n]
  BY <1>a, Zenon DEF BlockInv, MemoryInv, StoreBlock, Up
<1>e. tree = Created(Heights) \ Consumed(Heights)
  <2>1. CASE n = 0
    BY <2>1, <1>b, <1>d DEF RootAt, Created
  <2>2. CASE n # 0
    BY <2>2, <1>a, <1>b, <1>d DEF RootAt, ChainInv, RootsInv
  <2> QED
    BY <2>1, <2>2, Zenon
<1>f. /\ BlockOutputs(block) \cap Created(Heights) = {}
      /\ BlockInputs(block) \subseteq tree
      /\ BlockOutputs(block) \cap tree = {}
      /\ BlockInputs(block) \cap BlockOutputs(block) = {}
      /\ BlockMints(block) \cap seenMints = {}
  BY <1>a, <1>d DEF ValidContent, ValidTxn, DistinctLeaves, LeavesOf, BlockOutputs, BlockInputs,
                    BlockMints, ChainInv, IndexesInv
<1>1. ChainLinked'
  <2>1. ASSUME NEW h \in 1 .. n
        PROVE  /\ store'[h].height = h
               /\ store'[h].prev = HashOf(IF h = 1 THEN Genesis ELSE store'[h - 1])
    <3>1. store'[h] = store[h] /\ (h # 1 => store'[h - 1] = store[h - 1])
      BY <1>b
    <3> QED
      BY <3>1, <1>a, <1>b, Zenon DEF ChainInv, ChainLinked
  <2>2. block.prev = HashOf(IF n + 1 = 1 THEN Genesis ELSE store'[n])
    <3>1. CASE n = 0
      BY <3>1, <1>d
    <3>2. CASE n # 0
      BY <3>2, <1>b, <1>d
    <3> QED
      BY <3>1, <3>2, Zenon
  <2>3. ASSUME NEW h \in Heights'
        PROVE  /\ store'[h].height = h
               /\ store'[h].prev = HashOf(IF h = 1 THEN Genesis ELSE store'[h - 1])
    <3>1. CASE h \in 1 .. n
      BY <3>1, <2>1, Zenon
    <3>2. CASE h = n + 1
      BY <3>2, <2>2, <1>b, <1>d
    <3> QED
      BY <3>1, <3>2, <1>b
  <2> QED
    BY <2>3, Zenon DEF ChainLinked, HashOf
<1>2. IndexesInv'
  <2>1. seenOutputs' = Created(Heights)'
    BY <1>a, <1>c, Zenon DEF StoreBlock, ChainInv, IndexesInv
  <2>2. seenMints' = (UNION {BlockMints(store[h]) : h \in Heights}) \cup BlockMints(block)
    BY <1>a, Zenon DEF StoreBlock, ChainInv, IndexesInv
  <2>3. UNION {BlockMints(store'[h]) : h \in Heights'}
          = (UNION {BlockMints(store[h]) : h \in Heights}) \cup BlockMints(block)
    BY <1>b DEF BlockMints
  <2> QED
    BY <2>1, <2>2, <2>3, Zenon DEF IndexesInv, BlockMints
<1>3. BlocksApply'
  <2> SUFFICES ASSUME NEW h \in Heights'
               PROVE  /\ Applicable(RootAt(h - 1)', store'[h])
                      /\ store'[h].root = ApplyBlock(RootAt(h - 1)', store'[h])
    BY Zenon DEF BlocksApply, Applicable, ApplyBlock, BlockInputs, BlockOutputs
  <2>1. RootAt(h - 1)' = RootAt(h - 1)
    BY <1>b DEF RootAt
  <2>2. CASE h \in 1 .. n
    BY <2>1, <2>2, <1>a, <1>b, Zenon DEF ChainInv, BlocksApply
  <2>3. CASE h = n + 1
    <3>1. RootAt(h - 1) = tree
      BY <2>3, <1>b, <1>d
    <3> QED
      BY <3>1, <2>1, <2>3, <1>b, <1>d, <1>f, Zenon DEF Applicable, ValidContent
  <2> QED
    BY <2>2, <2>3, <1>b
<1>4. RootsInv'
  <2>1. Consumed(Heights) \subseteq Created(Heights)
    <3>1. ASSUME NEW j \in Heights
          PROVE  BlockInputs(store[j]) \subseteq Created(Heights)
      <4>1. 1 .. j - 1 \subseteq Heights
        BY <1>b
      <4>2. Created(1 .. j - 1) \subseteq Created(Heights)
        BY <4>1, Zenon DEF Created
      <4> QED
        BY <4>2, <1>a, Zenon DEF ChainInv, NoDoubleSpend
    <3> QED
      BY <3>1, Zenon DEF Consumed
  <2> SUFFICES ASSUME NEW h \in Heights'
               PROVE  store'[h].root = Created(1 .. h)' \ Consumed(1 .. h)'
    BY Zenon DEF RootsInv
  <2>2. CASE h \in 1 .. n
    BY <2>2, <1>a, <1>b, <1>c DEF ChainInv, RootsInv
  <2>3. CASE h = n + 1
    <3>1. block.root = (tree \cup BlockOutputs(block)) \ BlockInputs(block)
      BY <1>d, Zenon DEF ValidContent, ApplyBlock
    <3>2. 1 .. h = Heights'
      BY <2>3, <1>b, Zenon
    <3> QED
      BY <3>1, <3>2, <2>1, <2>3, <1>b, <1>c, <1>e, <1>f, Zenon
  <2> QED
    BY <2>2, <2>3, <1>b
<1>5. NoDoubleSpend'
  <2>1. ASSUME NEW i \in 1 .. n
        PROVE  /\ BlockOutputs(store[i]) \cap BlockOutputs(block) = {}
               /\ BlockInputs(store[i]) \cap BlockInputs(block) = {}
    <3>1. BlockOutputs(store[i]) \subseteq Created(Heights)
      BY <1>b, Zenon DEF Created
    <3>2. BlockInputs(store[i]) \subseteq Consumed(Heights)
      BY <1>b, Zenon DEF Consumed
    <3> QED
      BY <3>1, <3>2, <1>e, <1>f, Zenon
  <2>2. ASSUME NEW i \in Heights', NEW j \in Heights', i < j
        PROVE  /\ BlockOutputs(store'[i]) \cap BlockOutputs(store'[j]) = {}
               /\ BlockInputs(store'[i]) \cap BlockInputs(store'[j]) = {}
    <3>1. CASE j \in 1 .. n
      <4>1. i \in Heights /\ j \in Heights
        BY <3>1, <2>2, <1>b
      <4>2. store'[i] = store[i] /\ store'[j] = store[j]
        BY <4>1, <1>b, Zenon
      <4> QED
        BY <4>1, <4>2, <2>2, <1>a, Zenon DEF ChainInv, NoDoubleSpend
    <3>2. CASE j = n + 1
      <4>1. i \in 1 .. n
        BY <3>2, <2>2, <1>b
      <4>2. store'[i] = store[i] /\ store'[j] = block
        BY <4>1, <3>2, <1>b, Zenon
      <4> QED
        BY <4>1, <4>2, <2>1, Zenon
    <3> QED
      BY <3>1, <3>2, <1>b
  <2>3. ASSUME NEW j \in Heights'
        PROVE  BlockInputs(store'[j]) \subseteq Created(1 .. j - 1)'
    <3>1. Created(1 .. j - 1)' = Created(1 .. j - 1)
      BY <1>b, <1>c
    <3>2. CASE j \in 1 .. n
      BY <3>1, <3>2, <1>a, <1>b DEF ChainInv, NoDoubleSpend
    <3>3. CASE j = n + 1
      <4>1. 1 .. j - 1 = Heights
        BY <3>3, <1>b
      <4> QED
        BY <4>1, <3>1, <3>3, <1>b, <1>e, <1>f, Zenon
    <3> QED
      BY <3>2, <3>3, <1>b
  <2> QED
    BY <2>2, <2>3, Zenon DEF NoDoubleSpend, BlockInputs, BlockOutputs
<1>6. MintClaimedInOneBlock'
  <2>1. \A i \in 1 .. n : BlockMints(store[i]) \cap BlockMints(block) = {}
    BY <1>a, <1>b, <1>f DEF ChainInv, IndexesInv
  <2>2. ASSUME NEW i \in Heights', NEW j \in Heights', i # j
        PROVE  BlockMints(store'[i]) \cap BlockMints(store'[j]) = {}
    <3>1. CASE i \in 1 .. n /\ j \in 1 .. n
      BY <3>1, <2>2, <1>a, <1>b, Zenon DEF ChainInv, MintClaimedInOneBlock
    <3>2. CASE i = n + 1 \/ j = n + 1
      BY <3>2, <2>1, <2>2, <1>b
    <3> QED
      BY <3>1, <3>2, <1>b
  <2> QED
    BY <2>2, Zenon DEF MintClaimedInOneBlock, BlockMints
<1> QED
  BY <1>1, <1>2, <1>3, <1>4, <1>5, <1>6, Zenon DEF ChainInv

-----------------------------------------------------------------------------

(* Steps that leave the disk alone, and neither start nor stop the         *)
(* validator.                                                              *)
LEMMA RequestStep ==
  ASSUME IInv,
         \/ \E m \in MintHash : RecordMint(m) \/ SettleMint(m)
         \/ \E t \in Txn : ValidateRequest(t) \/ AddRequest(t)
         \/ RejectTxn
  PROVE  IInv'
<1>1. UNCHANGED <<diskVars, memVars, block, step, acked, sent>>
  BY Zenon DEF RecordMint, SettleMint, ValidateRequest, AddRequest, RejectTxn, poolVars
<1>2. /\ pending' \subseteq Txn
      /\ checked' \subseteq Txn
      /\ mints' \in [MintHash -> {"absent", "open", "spent"}]
  BY Zenon DEF IInv, TypeOK, RecordMint, SettleMint, ValidateRequest, AddRequest, RejectTxn, poolVars
<1>3. TypeOK'
  BY <1>1, <1>2, BlocksFrame, Zenon DEF IInv, TypeOK, diskVars, memVars
<1>4. ChainInv'
  BY <1>1, ChainFrame, Zenon DEF IInv, diskVars
<1>5. MemoryInv' /\ BlockInv' /\ DiskInv'
  BY <1>1, Zenon DEF IInv, MemoryInv, BlockInv, DiskInv, RootAt, Max, Up, diskVars, memVars
<1>6. AckedIsDurable' /\ SentIsStored'
  BY <1>1, HistoryFrame, Zenon DEF IInv, diskVars
<1> QED
  BY <1>3, <1>4, <1>5, <1>6, Zenon DEF IInv

(* create_proposal and prevalidate: the candidate block is valid on top of *)
(* the last stored one.                                                    *)
LEMMA ProposeStep == ASSUME IInv, Propose PROVE IInv'
<1>0. Max \in Nat /\ height = Max
  BY StoreShape, Zenon DEF IInv, MemoryInv, Propose, Up
<1>1. UNCHANGED <<diskVars, memVars, checked, acked, sent, mints>>
  BY Zenon DEF Propose
<1>2. PICK ts \in Batches :
        IF ValidContent(NewBlock(ts), tree, seenOutputs, seenMints)
          THEN block' = NewBlock(ts) /\ step' = "storing" /\ UNCHANGED pending
          ELSE pending' = pending \ ts /\ UNCHANGED <<block, step>>
  BY Zenon DEF Propose
<1>3. ts \subseteq Txn
  BY Zenon DEF IInv, TypeOK, Batches
<1>4. /\ NewBlock(ts).txns = ts
      /\ NewBlock(ts).height = Max + 1
      /\ NewBlock(ts).prev = HashOf(tip)
      /\ NewBlock(ts) \in [height : Nat, root : SUBSET Leaf, txns : SUBSET Txn, prev : {HashOf(tip)}]
  <2>1. ApplyBlock(tree, [txns |-> ts]) \in SUBSET Leaf
    BY <1>3, ApplyType, Zenon DEF IInv, TypeOK
  <2> QED
    BY <2>1, <1>0, <1>3 DEF NewBlock
<1>5. TypeOK'
  <2>1. block'.txns \subseteq Txn /\ step' \in Steps /\ pending' \subseteq Txn
    BY <1>2, <1>3, <1>4, Zenon DEF IInv, TypeOK, Steps
  <2> QED
    BY <2>1, <1>1, BlocksFrame, Zenon DEF IInv, TypeOK, diskVars, memVars
<1>6. ChainInv'
  BY <1>1, ChainFrame, Zenon DEF IInv, diskVars
<1>7. MemoryInv' /\ DiskInv'
  BY <1>1, <1>2, Zenon DEF IInv, MemoryInv, DiskInv, RootAt, Max, Up, Propose, diskVars, memVars
<1>8. BlockInv'
  <2>1. CASE ValidContent(NewBlock(ts), tree, seenOutputs, seenMints)
    BY <2>1, <1>1, <1>2, <1>4, Zenon DEF BlockInv, Max, diskVars, memVars
  <2>2. CASE ~ ValidContent(NewBlock(ts), tree, seenOutputs, seenMints)
    BY <2>2, <1>1, <1>2, Zenon DEF IInv, BlockInv, Max, diskVars, memVars
  <2> QED
    BY <2>1, <2>2, Zenon
<1>9. AckedIsDurable' /\ SentIsStored'
  BY <1>1, HistoryFrame, Zenon DEF IInv, diskVars
<1> QED
  BY <1>5, <1>6, <1>7, <1>8, <1>9, Zenon DEF IInv

(* The write to the block store, the step that extends the chain.          *)
LEMMA StoreStep == ASSUME IInv, StoreBlock PROVE IInv'
<1>a. TypeOK /\ MemoryInv /\ BlockInv
  BY Zenon DEF IInv
<1>b. /\ Max \in Nat
      /\ Heights = 1 .. Max
      /\ Max' = Max + 1
      /\ Heights' = 1 .. Max + 1
      /\ \A h \in 1 .. Max : store'[h] = store[h]
      /\ store'[Max + 1] = block
      /\ store' = [h \in 1 .. Max + 1 |-> IF h = Max + 1 THEN block ELSE store[h]]
  BY <1>a, StoreGrows, Zenon
<1>c. /\ step = "storing"
      /\ step' = "applying"
      /\ height = Max
      /\ UNCHANGED <<diskTree, memVars, poolVars, block, acked, sent, mints>>
  BY <1>a, Zenon DEF StoreBlock, MemoryInv, Up
<1>1. TypeOK'
  <2>1. \A h \in Heights : store[h] \in Blocks
    BY <1>a, StoreShape, Zenon
  <2>2. {HashOf(store[h]) : h \in Heights} \subseteq {HashOf(store'[h]) : h \in Heights'}
    BY <1>b
  <2>3. HashOf(tip) \in {HashOf(Genesis)} \cup {HashOf(store[h]) : h \in Heights}
    BY <1>a, Zenon DEF TypeOK, Tips
  <2>4. Blocks' = [height : Nat, root : SUBSET Leaf, txns : SUBSET Txn,
                   prev : {HashOf(Genesis)} \cup {HashOf(store'[h]) : h \in Heights'}]
    BY Zenon DEF Blocks, HashOf, Genesis
  <2>5. block \in Blocks'
    BY <1>a, <1>c, <2>2, <2>3, <2>4, Zenon DEF BlockInv
  <2>6. \A h \in Heights : store[h] \in Blocks'
    BY <2>1, <2>2, <2>4, Zenon DEF Blocks
  <2>7. store' \in Seq(Blocks')
    BY <1>b, <2>5, <2>6
  <2>8. seenOutputs' \subseteq Leaf /\ seenMints' \subseteq MintHash
    BY <1>a, BlockTypes, Zenon DEF TypeOK, StoreBlock
  <2>9. Tips \subseteq Tips'
    BY <1>b DEF Tips
  <2> QED
    BY <2>7, <2>8, <2>9, <1>a, <1>c, Zenon DEF TypeOK, Steps, memVars, poolVars
<1>2. ChainInv'
  BY StoreKeepsChain, Zenon
<1>3. MemoryInv'
  BY <1>a, <1>b, <1>c DEF MemoryInv, Up, memVars, RootAt
<1>4. BlockInv'
  BY <1>b, <1>c, SMTT(30) DEF BlockInv
<1>5. DiskInv'
  BY <1>a, <1>b, <1>c DEF MemoryInv, Up, DiskInv, memVars, RootAt
<1>6. AckedIsDurable' /\ SentIsStored'
  <2>1. StoredTxns \subseteq StoredTxns'
    BY <1>b DEF StoredTxns
  <2> QED
    BY <2>1, <1>b, <1>c DEF IInv, AckedIsDurable, SentIsStored
<1> QED
  BY <1>1, <1>2, <1>3, <1>4, <1>5, <1>6, Zenon DEF IInv

(* The steps after the write to the store.                                 *)
LEMMA CommitStep ==
  ASSUME IInv, StoreFails \/ ApplyToTree \/ AnswerRequests \/ ConfirmBlock \/ SendBlock
  PROVE  IInv'
<1>a. TypeOK /\ ChainInv /\ MemoryInv /\ BlockInv /\ DiskInv /\ AckedIsDurable /\ SentIsStored
  BY Zenon DEF IInv
<1>b. Max \in Nat /\ Heights = 1 .. Max
  BY <1>a, StoreShape, Zenon
<1>c. UNCHANGED <<store, seenOutputs, seenMints, checked, mints>>
  BY Zenon DEF StoreFails, ApplyToTree, AnswerRequests, ConfirmBlock, SendBlock, diskVars, poolVars
<1>d. Max' = Max /\ Heights' = Heights /\ \A h : RootAt(h)' = RootAt(h)
  BY <1>c, BlocksFrame, Zenon
<1>1. ChainInv'
  BY <1>a, <1>c, ChainFrame, Zenon
<1>2. ASSUME tree' \subseteq Leaf, diskTree' \subseteq Leaf, height' \in Nat,
             tip' \in Tips,
             pending' \subseteq Txn, block'.txns \subseteq Txn, step' \in Steps, acked' \subseteq Txn
      PROVE  TypeOK'
  BY <1>2, <1>a, <1>c, BlocksFrame, Zenon DEF TypeOK
<1>3. CASE StoreFails
  <2>1. TypeOK'
    BY <1>2, <1>3, <1>a, Zenon DEF TypeOK, StoreFails, diskVars, memVars, poolVars, NoBlock, Steps
  <2>2. MemoryInv' /\ BlockInv' /\ DiskInv'
    BY <1>3, <1>a, <1>c, <1>d, Zenon
       DEF StoreFails, MemoryInv, BlockInv, DiskInv, Up, diskVars, memVars
  <2>3. AckedIsDurable' /\ SentIsStored'
    BY <1>3, <1>a, <1>c, HistoryFrame, Zenon DEF StoreFails
  <2> QED
    BY <1>1, <2>1, <2>2, <2>3, Zenon DEF IInv
<1>4. CASE ApplyToTree
  <2>1. Max > 0 /\ block = store[Max] /\ tree = RootAt(Max - 1) /\ diskTree = tree
    BY <1>4, <1>a, Zenon DEF ApplyToTree, BlockInv, MemoryInv, Up
  <2>2. ApplyBlock(tree, block) = RootAt(Max)
    BY <2>1, <1>a, <1>b DEF ChainInv, BlocksApply, RootAt
  <2>3. tree' = RootAt(Max) /\ diskTree' = RootAt(Max)
    BY <1>4, <2>1, <2>2, Zenon DEF ApplyToTree
  <2>4. RootAt(Max) \subseteq Leaf
    BY <2>2, <1>a, ApplyType, Zenon DEF TypeOK
  <2>5. TypeOK'
    BY <1>2, <1>4, <2>3, <2>4, <1>a, Zenon DEF TypeOK, ApplyToTree, poolVars, Steps
  <2>6. MemoryInv' /\ BlockInv' /\ DiskInv'
    BY <1>4, <2>1, <2>3, <1>a, <1>b, <1>c, <1>d, Zenon DEF ApplyToTree, MemoryInv, BlockInv, DiskInv, Up
  <2>7. AckedIsDurable' /\ SentIsStored'
    BY <1>4, <1>a, <1>c, HistoryFrame, Zenon DEF ApplyToTree
  <2> QED
    BY <1>1, <2>5, <2>6, <2>7, Zenon DEF IInv
<1>5. CASE AnswerRequests
  <2>1. TypeOK'
    BY <1>2, <1>5, <1>a, Zenon DEF TypeOK, AnswerRequests, diskVars, memVars, Steps
  <2>2. MemoryInv' /\ BlockInv' /\ DiskInv'
    BY <1>5, <1>a, <1>c, <1>d, Zenon
       DEF AnswerRequests, MemoryInv, BlockInv, DiskInv, Up, diskVars, memVars
  <2>3. block.txns \subseteq StoredTxns
    <3>1. Max \in Heights /\ block = store[Max]
      BY <1>5, <1>a, <1>b, SMTT(30) DEF AnswerRequests, BlockInv
    <3> QED
      BY <3>1, Zenon DEF StoredTxns
  <2>4. AckedIsDurable' /\ SentIsStored'
    BY <1>5, <2>3, <1>a, <1>c, <1>d DEF AnswerRequests, AckedIsDurable, SentIsStored, StoredTxns
  <2> QED
    BY <1>1, <2>1, <2>2, <2>4, Zenon DEF IInv
<1>6. CASE ConfirmBlock
  <2>1. Max > 0 /\ block = store[Max] /\ height + 1 = Max
    BY <1>6, <1>a, <1>b DEF ConfirmBlock, BlockInv, MemoryInv, Up
  <2>2. TypeOK'
    <3>1. block \in Tips /\ height' \in Nat
      BY <1>6, <2>1, <1>a, <1>b DEF TypeOK, ConfirmBlock, Tips
    <3> QED
      BY <1>2, <1>6, <3>1, <1>a, Zenon DEF TypeOK, ConfirmBlock, diskVars, poolVars, Steps
  <2>3. MemoryInv' /\ BlockInv' /\ DiskInv'
    <3>1. tree = RootAt(Max) /\ diskTree = tree
      BY <1>6, <1>a, Zenon DEF ConfirmBlock, MemoryInv, Up
    <3>2. /\ height' = Max /\ tip' = store[Max] /\ block' = block /\ step' = "sending"
          /\ tree' = tree /\ diskTree' = diskTree
      BY <1>6, <2>1, Zenon DEF ConfirmBlock, diskVars
    <3> QED
      BY <3>1, <3>2, <2>1, <1>c, <1>d, SMTT(30) DEF MemoryInv, BlockInv, DiskInv
  <2>4. AckedIsDurable' /\ SentIsStored'
    BY <1>6, <1>a, <1>c, HistoryFrame, Zenon DEF ConfirmBlock
  <2> QED
    BY <1>1, <2>2, <2>3, <2>4, Zenon DEF IInv
<1>7. CASE SendBlock
  <2>1. TypeOK'
    BY <1>2, <1>7, <1>a, Zenon DEF TypeOK, SendBlock, diskVars, memVars, poolVars, NoBlock, Steps
  <2>2. MemoryInv' /\ BlockInv' /\ DiskInv'
    BY <1>7, <1>a, <1>c, <1>d, Zenon
       DEF SendBlock, MemoryInv, BlockInv, DiskInv, Up, diskVars, memVars
  <2>3. block.height \in Heights /\ store[block.height] = block
    <3>1. Max \in Heights /\ block = store[Max]
      BY <1>7, <1>a, <1>b, SMTT(30) DEF SendBlock, BlockInv
    <3>2. store[Max].height = Max
      BY <3>1, <1>a, Zenon DEF ChainInv, ChainLinked
    <3> QED
      BY <3>1, <3>2, Zenon
  <2>4. AckedIsDurable' /\ SentIsStored'
    BY <1>7, <2>3, <1>a, <1>c, <1>d, SMTT(30) DEF SendBlock, AckedIsDurable, SentIsStored, StoredTxns
  <2> QED
    BY <1>1, <2>1, <2>2, <2>4, Zenon DEF IInv
<1> QED
  BY <1>3, <1>4, <1>5, <1>6, <1>7, Zenon

(* The tree on disk is that of the last block or of the one before, and    *)
(* the block extended the one before when it was stored.                   *)
LEMMA Repairs == ASSUME IInv PROVE RecoveryRepairs
<1>a. TypeOK /\ ChainInv /\ DiskInv
  BY Zenon DEF IInv
<1>b. Max \in Nat /\ Heights = 1 .. Max
  BY <1>a, StoreShape, Zenon
<1>1. ASSUME OneBehind PROVE Reapplicable /\ Reapplied = store[Max].root
  BY <1>1, <1>a, <1>b DEF OneBehind, Reapplicable, Reapplied, DiskInv, ChainInv, BlocksApply, RootAt
<1>2. ASSUME ~ Up, Max > 1 PROVE diskTree = store[Max].root \/ OneBehind
  BY <1>2, <1>a, <1>b DEF OneBehind, DiskInv, RootAt
<1> QED
  BY <1>1, <1>2, Zenon DEF RecoveryRepairs

(* A crash and the ways to start again.                                    *)
LEMMA RestartStep ==
  ASSUME IInv,
         Crash \/ LoadEmptyStore \/ LoadInSync \/ LoadPanics \/ LoadAndReapply
  PROVE  IInv'
<1>a. TypeOK /\ ChainInv /\ MemoryInv /\ BlockInv /\ DiskInv /\ AckedIsDurable /\ SentIsStored
  BY Zenon DEF IInv
<1>b. Max \in Nat /\ Heights = 1 .. Max /\ (store = <<>> <=> Max = 0)
  BY <1>a, StoreShape, Zenon
<1>4. UNCHANGED <<store, seenOutputs, seenMints, acked, sent, mints>>
  BY Zenon DEF Crash, LoadEmptyStore, LoadInSync, LoadPanics, LoadAndReapply, diskVars
<1>5. ChainInv' /\ AckedIsDurable' /\ SentIsStored'
  BY <1>4, <1>a, ChainFrame, HistoryFrame, Zenon
<1>d. Max' = Max /\ Heights' = Heights /\ \A h : RootAt(h)' = RootAt(h)
  BY <1>4, BlocksFrame, Zenon
<1>6. ASSUME tree' \subseteq Leaf, diskTree' \subseteq Leaf, height' \in Nat,
             tip' \in Tips,
             pending' \subseteq Txn, checked' \subseteq Txn, block'.txns \subseteq Txn, step' \in Steps
      PROVE  TypeOK'
  BY <1>6, <1>a, <1>4, BlocksFrame, Zenon DEF TypeOK
<1>7. ASSUME NEW b, NEW leaves, Start(b, leaves), UNCHANGED <<poolVars, block>>,
             leaves = RootAt(Max), leaves \subseteq Leaf,
             b = IF Max = 0 THEN Genesis ELSE store[Max]
      PROVE  IInv'
  <2>1. b.height = Max
    BY <1>7, <1>a, <1>b, SMTT(30) DEF ChainInv, ChainLinked, Genesis
  <2>2. TypeOK'
    <3>1. b \in Tips
      BY <1>7, <1>b DEF Tips
    <3> QED
      BY <1>6, <1>7, <2>1, <3>1, <1>a, <1>b, Zenon DEF TypeOK, Start, poolVars, Steps
  <2>3. MemoryInv' /\ BlockInv' /\ DiskInv'
    BY <1>7, <2>1, <1>b, <1>d, <1>4, Zenon DEF Start, MemoryInv, BlockInv, DiskInv
  <2> QED
    BY <1>5, <2>2, <2>3, Zenon DEF IInv
<1>8. CASE Crash
  <2>1. TypeOK'
    BY <1>6, <1>8, <1>a, Zenon DEF Crash, TypeOK, Steps, NoBlock, Tips, diskVars
  <2>2. MemoryInv' /\ BlockInv' /\ DiskInv'
    BY <1>8, <1>a, <1>d, Zenon DEF Crash, MemoryInv, BlockInv, DiskInv, Up, diskVars
  <2> QED
    BY <1>5, <2>1, <2>2, Zenon DEF IInv
<1>9. CASE LoadEmptyStore
  <2>1. Start(Genesis, {}) /\ Max = 0 /\ {} = RootAt(Max) /\ UNCHANGED <<poolVars, block>>
    BY <1>9, <1>b, Zenon DEF LoadEmptyStore, RootAt
  <2> QED
    BY <1>7, <2>1, Zenon
<1>10. CASE LoadInSync
  <2>1. /\ Start(store[Max], diskTree) /\ Max # 0 /\ diskTree = RootAt(Max)
        /\ UNCHANGED <<poolVars, block>>
    BY <1>10, <1>b, Zenon DEF LoadInSync, RootAt
  <2>2. diskTree \subseteq Leaf
    BY <1>a, Zenon DEF TypeOK
  <2> QED
    BY <1>7, <2>1, <2>2, Zenon
<1>11. CASE LoadPanics
  <2>1. TypeOK'
    BY <1>6, <1>11, <1>a, Zenon DEF LoadPanics, TypeOK, Steps, diskVars, memVars, poolVars
  <2>2. MemoryInv' /\ BlockInv' /\ DiskInv'
    BY <1>11, <1>a, <1>d, Zenon DEF LoadPanics, MemoryInv, BlockInv, DiskInv, Up, diskVars
  <2> QED
    BY <1>5, <2>1, <2>2, Zenon DEF IInv
<1>12. CASE LoadAndReapply
  <2>1. Reapplied = RootAt(Max) /\ Max > 1
    BY <1>12, SMTT(30) DEF LoadAndReapply, OneBehind, RootAt
  <2>2. store[Max].txns \subseteq Txn
    BY <2>1, <1>a, <1>b, StoreShape
  <2>3. Reapplied \subseteq Leaf
    BY <2>2, <1>a, ApplyType, Zenon DEF Reapplied, TypeOK
  <2>4. Start(store[Max], Reapplied) /\ UNCHANGED <<poolVars, block>>
    BY <1>12, Zenon DEF LoadAndReapply
  <2> QED
    BY <1>7, <2>1, <2>3, <2>4
<1> QED
  BY <1>8, <1>9, <1>10, <1>11, <1>12, Zenon

-----------------------------------------------------------------------------

(* Every step preserves the invariant, one case per action of Next.        *)
LEMMA StepInv == IInv /\ [Next]_vars => IInv'
<1> SUFFICES ASSUME IInv, [Next]_vars PROVE IInv'
  BY Zenon
<1>1. CASE UNCHANGED vars
  <2>1. ChainInv' /\ AckedIsDurable' /\ SentIsStored'
    BY <1>1, ChainFrame, HistoryFrame, Zenon DEF IInv, vars, diskVars
  <2>2. TypeOK'
    BY <1>1, BlocksFrame, Zenon DEF IInv, TypeOK, vars, diskVars, memVars, poolVars
  <2>3. MemoryInv' /\ BlockInv' /\ DiskInv'
    BY <1>1, Zenon DEF IInv, vars, diskVars, memVars, MemoryInv, BlockInv, DiskInv, RootAt, Max, Up
  <2> QED
    BY <2>1, <2>2, <2>3, Zenon DEF IInv
<1>2. CASE Next
  BY <1>2, RequestStep, ProposeStep, StoreStep, CommitStep, RestartStep, Zenon DEF Next
<1> QED
  BY <1>1, <1>2, Zenon

(* The inductive invariant holds throughout.                               *)
THEOREM Invariance == Spec => []IInv
BY InitInv, StepInv, PTL DEF Spec

(* The store, the cache, the tree and the pool keep their shapes.          *)
THEOREM TypeCorrect == Spec => []TypeOK
<1>1. IInv => TypeOK
  BY Zenon DEF IInv
<1> QED
  BY <1>1, Invariance, PTL

(* No note is created or consumed twice by the chain, nor consumed before  *)
(* it is created, for any transactions, blocks and crashes.                *)
THEOREM NoDoubleSpendHolds == Spec => []NoDoubleSpend
<1>1. IInv => NoDoubleSpend
  BY Zenon DEF IInv, ChainInv
<1> QED
  BY <1>1, Invariance, PTL

(* No two blocks claim the same deposit.                                   *)
THEOREM MintClaimedOnce == Spec => []MintClaimedInOneBlock
<1>1. IInv => MintClaimedInOneBlock
  BY Zenon DEF IInv, ChainInv
<1> QED
  BY <1>1, Invariance, PTL

(* Every root commits to the notes that are unspent at its height, and the *)
(* validator builds the next block on the tree of the last one.            *)
THEOREM TreeFollowsChain == Spec => []TreeIsChain
<1>1. IInv => TreeIsChain
  <2> SUFFICES ASSUME IInv PROVE TreeIsChain
    BY Zenon
  <2>0. Max \in Nat /\ Heights = 1 .. Max
    BY StoreShape, Zenon DEF IInv
  <2>1. ASSUME step = "idle" PROVE tree = RootAt(Max)
    BY <2>1, Zenon DEF IInv, MemoryInv, Up
  <2>2. RootAt(Max) = Created(Heights) \ Consumed(Heights)
    <3>1. CASE Max = 0
      BY <3>1, <2>0, SMTT(30) DEF RootAt, Created
    <3>2. CASE Max # 0
      BY <3>2, <2>0, SMTT(30) DEF RootAt, IInv, ChainInv, RootsInv
    <3> QED
      BY <3>1, <3>2, Zenon
  <2> QED
    BY <2>1, <2>2, Zenon DEF IInv, ChainInv, RootsInv, TreeIsChain
<1> QED
  BY <1>1, Invariance, PTL

(* Every block names the hash of the block before it.                      *)
THEOREM ChainStaysLinked == Spec => []ChainLinked
<1>1. IInv => ChainLinked
  BY Zenon DEF IInv, ChainInv
<1> QED
  BY <1>1, Invariance, PTL

(* An answered transaction is in the store, and what was sent is what the  *)
(* store has.                                                              *)
THEOREM AnswersAndBlocksAreDurable == Spec => [](AckedIsDurable /\ SentIsStored)
<1>1. IInv => AckedIsDurable /\ SentIsStored
  BY Zenon DEF IInv
<1> QED
  BY <1>1, Invariance, PTL

(* No step, of recovery or any other, drops or replaces a stored block.    *)
THEOREM StoreIsAppendOnly == Spec => StoredBlocksStay
<1> DEFINE Stay == /\ Len(store') >= Len(store)
                   /\ \A h \in Heights : store'[h] = store[h]
<1>1. IInv /\ [Next]_vars => [Stay]_vars
  <2> SUFFICES ASSUME IInv, [Next]_vars, ~ UNCHANGED vars PROVE Stay
    BY Zenon
  <2>1. Len(store) \in Nat
    BY StoreShape, Zenon DEF IInv, Max
  <2>2. CASE StoreBlock
    BY <2>2, StoreGrows DEF IInv, Max
  <2>3. CASE UNCHANGED store
    BY <2>1, <2>3
  <2>4. StoreBlock \/ UNCHANGED store
    BY Zenon DEF Next, RecordMint, SettleMint, ValidateRequest, AddRequest, RejectTxn, Propose, StoreFails,
       ApplyToTree, AnswerRequests, ConfirmBlock, SendBlock, Crash, LoadEmptyStore, LoadInSync,
       LoadPanics, LoadAndReapply, diskVars
  <2> QED
    BY <2>2, <2>3, <2>4, Zenon
<1> QED
  BY <1>1, Invariance, PTL DEF Spec, StoredBlocksStay

(* From its second block on, the validator starts again after any crash    *)
(* with the chain it had.                                                  *)
THEOREM RecoveryAlwaysRepairs == Spec => []RecoveryRepairs
<1>1. IInv => RecoveryRepairs
  BY Repairs, Zenon
<1> QED
  BY <1>1, Invariance, PTL

-----------------------------------------------------------------------------
(* The validator implements module NoteLedger, for every set of            *)
(* transactions and every sequence of crashes.                             *)

Unspent == Created(Heights) \ Consumed(Heights)

Claimed == UNION {BlockMints(store[h]) : h \in Heights}

(* The tree a new block is validated against has the unspent notes.        *)
LEMMA TreeIsUnspent ==
  ASSUME IInv, step = "storing"
  PROVE  tree = Unspent
<1>0. Max \in Nat /\ Heights = 1 .. Max
  BY StoreShape, Zenon DEF IInv
<1>1. tree = RootAt(Max)
  BY Zenon DEF IInv, MemoryInv, Up
<1>2. CASE Max = 0
  <2>1. Heights = {}
    BY <1>0, <1>2
  <2> QED
    BY <1>1, <1>2, <2>1, Zenon DEF RootAt, Created, Unspent
<1>3. CASE Max # 0
  <2>1. Max \in Heights
    BY <1>0, <1>3
  <2>2. store[Max].root = Created(1 .. Max) \ Consumed(1 .. Max)
    BY <2>1, Zenon DEF IInv, ChainInv, RootsInv
  <2> QED
    BY <1>0, <1>1, <1>3, <2>2, Zenon DEF RootAt, Unspent
<1> QED
  BY <1>2, <1>3, Zenon

(* Only notes that were created are consumed.                              *)
LEMMA ConsumedWereCreated ==
  ASSUME IInv
  PROVE  Consumed(Heights) \subseteq Created(Heights)
<1>0. Max \in Nat /\ Heights = 1 .. Max
  BY StoreShape, Zenon DEF IInv
<1> SUFFICES ASSUME NEW n, NEW j \in Heights, n \in BlockInputs(store[j])
             PROVE  n \in Created(Heights)
  BY Zenon DEF Consumed
<1>1. n \in Created(1 .. j - 1)
  BY Zenon DEF IInv, ChainInv, NoDoubleSpend
<1>2. 1 .. j - 1 \subseteq Heights
  BY <1>0
<1> QED
  BY <1>1, <1>2, Zenon DEF Created

(* Writing a block is one batch of the ledger.                             *)
LEMMA StoreCommits ==
  ASSUME IInv, StoreBlock
  PROVE  Promise!Commit(block.txns)
<1> DEFINE ts == block.txns
<1>a. TypeOK /\ MemoryInv /\ ChainInv /\ step = "storing"
  BY Zenon DEF IInv, StoreBlock
<1>b. ValidContent(block, tree, seenOutputs, seenMints)
  BY <1>a, Zenon DEF IInv, BlockInv
<1>c. tree = Unspent /\ seenOutputs = Created(Heights) /\ seenMints = Claimed
  BY <1>a, TreeIsUnspent, Zenon DEF ChainInv, IndexesInv, Claimed
<1>d. \A t \in ts : ValidTxn(t, tree, seenOutputs, seenMints)
  BY <1>b, Zenon DEF ValidContent
<1>1. BlockInputs(block) \subseteq Unspent
  BY <1>c, <1>d, Zenon DEF ValidTxn, BlockInputs
<1>2. BlockOutputs(block) \cap Created(Heights) = {}
  BY <1>c, <1>d DEF ValidTxn, BlockOutputs
<1>3. BlockMints(block) \cap Claimed = {}
  BY <1>c, <1>d DEF ValidTxn, BlockMints
<1>4. \A s, t \in ts : s # t =>
        Inputs[s] \cap Inputs[t] = {} /\ Outputs[s] \cap Outputs[t] = {}
  BY <1>b, Zenon DEF ValidContent, DistinctLeaves, LeavesOf
<1>5. Created(Heights)' = Created(Heights) \cup BlockOutputs(block)
  BY <1>a, StoredNotes, Zenon
<1>6. Consumed(Heights)' = Consumed(Heights) \cup BlockInputs(block)
  BY <1>a, StoredNotes, Zenon
<1>7. (Created(Heights) \ Consumed(Heights))'
        = (Unspent \cup BlockOutputs(block)) \ BlockInputs(block)
  BY <1>2, <1>5, <1>6, ConsumedWereCreated, Zenon DEF Unspent
<1>8. /\ Heights = 1 .. Max
      /\ Max \in Nat
      /\ Heights' = 1 .. Max + 1
      /\ \A h \in 1 .. Max : store'[h] = store[h]
      /\ store'[Max + 1] = block
  BY <1>a, StoreGrows, Zenon
<1>9. Heights' = Heights \cup {Max + 1} /\ \A h \in Heights : store'[h] = store[h]
  BY <1>8
<1>10. Claimed' = Claimed \cup BlockMints(block)
  BY <1>8, <1>9 DEF Claimed, BlockMints
<1>11. StoredTxns' = StoredTxns \cup ts
  BY <1>8, <1>9 DEF StoredTxns
<1>12. UNCHANGED acked
  BY Zenon DEF StoreBlock
<1>13. /\ Promise!NotesUsed(ts) = BlockInputs(block)
       /\ Promise!NotesMade(ts) = BlockOutputs(block)
       /\ Promise!Claims(ts) = BlockMints(block)
  BY Zenon DEF Promise!NotesUsed, Promise!NotesMade, Promise!Claims, BlockInputs, BlockOutputs, BlockMints
<1> QED
  BY <1>1, <1>2, <1>3, <1>4, <1>5, <1>7, <1>10, <1>11, <1>12, <1>13, Zenon
  DEF Promise!Commit, Unspent, Claimed

(* Requests are answered for transactions of the block just written.       *)
LEMMA AnswersAreFinal ==
  ASSUME IInv, AnswerRequests
  PROVE  Promise!Answer(block.txns \cap pending)
<1>1. Max > 0 /\ block = store[Max]
  BY Zenon DEF IInv, BlockInv, AnswerRequests
<1>2. Max \in Heights
  BY <1>1, StoreShape DEF IInv
<1>3. block.txns \subseteq StoredTxns
  BY <1>1, <1>2, Zenon DEF StoredTxns
<1>4. UNCHANGED store /\ acked' = acked \cup (block.txns \cap pending)
  BY Zenon DEF AnswerRequests, diskVars
<1> QED
  BY <1>3, <1>4 DEF Promise!Answer, Created, Consumed, Heights, StoredTxns

(* Every behaviour of the validator, with its crashes, failed writes and   *)
(* recoveries, is one of the ledger of notes.                              *)
THEOREM ValidatorKeepsPromise == Spec => KeepsPromise
<1>1. Init => Promise!LedgerInit
  <2> SUFFICES ASSUME Init PROVE Promise!LedgerInit
    BY Zenon
  <2>1. Heights = {} /\ acked = {}
    BY DEF Init, Heights
  <2> QED
    BY <2>1, Zenon DEF Promise!LedgerInit, Created, StoredTxns
<1>2. IInv /\ [Next]_vars => [Promise!LedgerNext]_(Promise!ledgerVars)
  <2> SUFFICES ASSUME IInv, [Next]_vars
               PROVE  Promise!LedgerNext \/ UNCHANGED Promise!ledgerVars
    BY Zenon
  <2>0. block.txns \in SUBSET Txn
    BY Zenon DEF IInv, TypeOK
  <2>1. CASE StoreBlock
    BY <2>0, <2>1, StoreCommits, Zenon DEF Promise!LedgerNext
  <2>2. CASE AnswerRequests
    BY <2>0, <2>2, AnswersAreFinal, Zenon DEF Promise!LedgerNext
  <2>3. CASE UNCHANGED <<store, acked>>
    BY <2>3 DEF Promise!ledgerVars, Created, Consumed, Heights, StoredTxns
  <2>4. StoreBlock \/ AnswerRequests \/ UNCHANGED <<store, acked>>
    BY Zenon DEF Next, RecordMint, SettleMint, ValidateRequest, AddRequest, RejectTxn, Propose, StoreFails,
       ApplyToTree, ConfirmBlock, SendBlock, Crash, LoadEmptyStore, LoadInSync,
       LoadPanics, LoadAndReapply, diskVars, vars
  <2> QED
    BY <2>1, <2>2, <2>3, <2>4, Zenon
<1> QED
  BY <1>1, <1>2, Invariance, PTL DEF Spec, KeepsPromise, Promise!LedgerSpec
=============================================================================

------------------------------ MODULE Proposer ------------------------------
(***************************************************************************)
(* The validator: it takes transactions over RPC and, one height after the *)
(* other, makes a block of them, commits it to the block store and to the  *)
(* notes tree, answers the requests, and sends it to its peers             *)
(* (create_proposal and commit_proposal of pkg/node/src/node/proposal.rs,  *)
(* node/transaction.rs).  It may crash between any two of these steps; on  *)
(* restart load_db_and_smirk (node/load.rs) repairs what it finds on disk. *)
(*                                                                         *)
(* The network has a single validator, which is the leader of every        *)
(* height.  The order in which the pool hands out transactions is the      *)
(* subject of module ProposerMempool; here a proposal takes any of them.   *)
(***************************************************************************)
EXTENDS Ledger, FiniteSets

CONSTANTS
  BlockTxnsCount,       \* config.block_txns_count
  MaxHeight             \* bound: the validator stops at this height

ASSUME ProposerAssumption ==
  /\ BlockTxnsCount \in Nat
  /\ MaxHeight \in Nat

VARIABLES
  store,        \* disk: the block store, by height
  seenOutputs,  \* disk: its ElementHistory keys of kind Output
  seenMints,    \* disk: its MintHash keys
  diskTree,     \* disk: the leaves persisted in the notes tree's database
  tree,         \* the leaves of the notes tree in memory
  height,       \* the confirmed height of the block cache
  tip,          \* the block the cache has at that height
  pending,      \* the transactions in the mempool
  checked,      \* those validated by a request that has not added them yet
  block,        \* the block create_proposal is committing
  step,         \* where the tick worker is
  acked,        \* history: transactions some request got an Ok for
  sent,         \* history: blocks sent to the peers
  mints         \* external: the rollup contract's view of the mints

diskVars == <<store, seenOutputs, seenMints, diskTree>>
memVars == <<tree, height, tip>>
poolVars == <<pending, checked>>
vars == <<diskVars, memVars, poolVars, block, step, acked, sent, mints>>

NoBlock == [txns |-> {}]

Steps == {"idle", "storing", "applying", "answering", "confirming", "sending",
          "down", "panicked"}

Up == step \notin {"down", "panicked"}

Init ==
  /\ store = <<>>
  /\ seenOutputs = {}
  /\ seenMints = {}
  /\ diskTree = {}
  /\ tree = {}
  /\ height = 0
  /\ tip = Genesis
  /\ pending = {}
  /\ checked = {}
  /\ block = NoBlock
  /\ step = "idle"
  /\ acked = {}
  /\ sent = {}
  /\ mints = [m \in MintHash |-> "absent"]

-----------------------------------------------------------------------------

(* The base chain: a deposit is recorded, and a committed claim of it is   *)
(* settled by a rollup proof.                                              *)
RecordMint(m) ==
  /\ mints[m] = "absent"
  /\ mints' = [mints EXCEPT ![m] = "open"]
  /\ UNCHANGED <<diskVars, memVars, poolVars, block, step, acked, sent>>

SettleMint(m) ==
  /\ mints[m] = "open"
  /\ \E b \in sent : m \in BlockMints(b)
  /\ mints' = [mints EXCEPT ![m] = "spent"]
  /\ UNCHANGED <<diskVars, memVars, poolVars, block, step, acked, sent>>

(* validate_transaction: the contract has the mint and has not spent it,   *)
(* and validate_txn holds.                                                 *)
ValidTransaction(t) ==
  /\ MintOf[t] # NoMint => mints[MintOf[t]] = "open"
  /\ ValidTxn(t, tree, seenOutputs, seenMints)

(* submit_transaction_and_wait validates the transaction ...               *)
ValidateRequest(t) ==
  /\ Up
  /\ ValidTransaction(t)
  /\ checked' = checked \cup {t}
  /\ UNCHANGED <<diskVars, memVars, pending, block, step, acked, sent, mints>>

(* ... and adds it to the pool in a later step.                            *)
AddRequest(t) ==
  /\ t \in checked
  /\ checked' = checked \ {t}
  /\ pending' = IF t \in pending \/ \E s \in pending : LeavesOf(s) \cap LeavesOf(t) # {}
                  THEN pending ELSE pending \cup {t}
  /\ UNCHANGED <<diskVars, memVars, block, step, acked, sent, mints>>

-----------------------------------------------------------------------------

Batches == {ts \in SUBSET pending : Cardinality(ts) <= BlockTxnsCount}

NewBlock(ts) ==
  [height |-> height + 1, prev |-> HashOf(tip), txns |-> ts,
   root |-> ApplyBlock(tree, [txns |-> ts])]

(* A transaction of the batch is no longer valid: it is dropped and the    *)
(* proposal is given up.                                                   *)
RejectTxn ==
  /\ step = "idle"
  /\ \E ts \in Batches : \E t \in ts : ~ ValidTransaction(t) /\ pending' = pending \ {t}
  /\ UNCHANGED <<diskVars, memVars, checked, block, step, acked, sent, mints>>

(* The batch validates: the block made of it is validated once more, and   *)
(* if that fails all its transactions are dropped.                         *)
Propose ==
  /\ step = "idle"
  /\ height < MaxHeight
  /\ \E ts \in Batches :
       /\ \A t \in ts : ValidTransaction(t)
       /\ IF ValidContent(NewBlock(ts), tree, seenOutputs, seenMints)
            THEN block' = NewBlock(ts) /\ step' = "storing" /\ UNCHANGED pending
            ELSE pending' = pending \ ts /\ UNCHANGED <<block, step>>
  /\ UNCHANGED <<diskVars, memVars, checked, acked, sent, mints>>

(* commit_proposal: the inputs must be in the tree, it panics otherwise;   *)
(* block_store.set writes the block and its indexes in one batch.          *)
StoreBlock ==
  /\ step = "storing"
  /\ BlockInputs(block) \subseteq tree
  /\ store' = [h \in 1 .. height + 1 |-> IF h = height + 1 THEN block ELSE store[h]]
  /\ seenOutputs' = seenOutputs \cup BlockOutputs(block)
  /\ seenMints' = seenMints \cup BlockMints(block)
  /\ step' = "applying"
  /\ UNCHANGED <<diskTree, memVars, poolVars, block, acked, sent, mints>>

(* Mutant: the error is ignored.                                           *)
StoreFailsUnnoticed ==
  /\ step = "storing"
  /\ step' = "answering"
  /\ UNCHANGED <<diskVars, memVars, poolVars, block, acked, sent, mints>>

(* The write is refused: create_proposal returns the error, the tick       *)
(* worker logs it.                                                         *)
StoreFails ==
  /\ step = "storing"
  /\ step' = "idle"
  /\ block' = NoBlock
  /\ UNCHANGED <<diskVars, memVars, poolVars, acked, sent, mints>>

ApplyToTree ==
  /\ step = "applying"
  /\ tree' = ApplyBlock(tree, block)
  /\ diskTree' = ApplyBlock(diskTree, block)
  /\ step' = "answering"
  /\ UNCHANGED <<store, seenOutputs, seenMints, height, tip, poolVars, block, acked, sent, mints>>

(* mempool.commit answers the requests of the block's transactions.        *)
AnswerRequests ==
  /\ step = "answering"
  /\ acked' = acked \cup (block.txns \cap pending)
  /\ pending' = pending \ block.txns
  /\ step' = "confirming"
  /\ UNCHANGED <<diskVars, memVars, checked, block, sent, mints>>

ConfirmBlock ==
  /\ step = "confirming"
  /\ height' = height + 1
  /\ tip' = block
  /\ step' = "sending"
  /\ UNCHANGED <<diskVars, tree, poolVars, block, acked, sent, mints>>

SendBlock ==
  /\ step = "sending"
  /\ sent' = sent \cup {block}
  /\ step' = "idle"
  /\ block' = NoBlock
  /\ UNCHANGED <<diskVars, memVars, poolVars, acked, mints>>

-----------------------------------------------------------------------------

(* The process dies: the mempool, the cache and the tree in memory go.     *)
Crash ==
  /\ Up
  /\ step' = "down"
  /\ tree' = {}
  /\ height' = 0
  /\ tip' = Genesis
  /\ pending' = {}
  /\ checked' = {}
  /\ block' = NoBlock
  /\ UNCHANGED <<diskVars, acked, sent, mints>>

(* load_db_and_smirk gives the block to start from and the tree, and may   *)
(* have written to disk before.                                            *)
Start(b, leaves) ==
  /\ step' = "idle"
  /\ height' = b.height
  /\ tip' = b
  /\ diskTree' = leaves
  /\ tree' = leaves

Max == Len(store)

LoadEmptyStore ==
  /\ ~ Up
  /\ store = <<>>
  /\ Start(Genesis, {})
  /\ UNCHANGED <<store, seenOutputs, seenMints, poolVars, block, acked, sent, mints>>

LoadInSync ==
  /\ ~ Up
  /\ store # <<>>
  /\ diskTree = store[Max].root
  /\ Start(store[Max], diskTree)
  /\ UNCHANGED <<store, seenOutputs, seenMints, poolVars, block, acked, sent, mints>>

(* The tree is not that of the last block and there is no block before it  *)
(* (the genesis block is never stored): the unwrap of load.rs panics.      *)
LoadPanics ==
  /\ ~ Up
  /\ store # <<>>
  /\ diskTree # store[Max].root
  /\ Max = 1
  /\ step' = "panicked"
  /\ UNCHANGED <<diskVars, memVars, poolVars, block, acked, sent, mints>>

(* The tree is one block behind the store: the block is applied again.     *)
OneBehind ==
  /\ ~ Up
  /\ Max > 1
  /\ diskTree # store[Max].root
  /\ diskTree = store[Max - 1].root

Reapplicable == Applicable(diskTree, store[Max])

(* Mutant: the inputs are not removed again.                               *)
ReappliedOutputs == diskTree \cup BlockOutputs(store[Max])

Reapplied == ApplyBlock(diskTree, store[Max])

(* Mutant: the block is taken as applied.                                  *)
LoadWithoutReapply ==
  /\ OneBehind
  /\ Start(store[Max], diskTree)
  /\ UNCHANGED <<store, seenOutputs, seenMints, poolVars, block, acked, sent, mints>>

LoadAndReapply ==
  /\ OneBehind
  /\ Reapplicable
  /\ Reapplied = store[Max].root
  /\ Start(store[Max], Reapplied)
  /\ UNCHANGED <<store, seenOutputs, seenMints, poolVars, block, acked, sent, mints>>

Next ==
  \/ \E m \in MintHash : RecordMint(m) \/ SettleMint(m)
  \/ \E t \in Txn : ValidateRequest(t) \/ AddRequest(t)
  \/ RejectTxn \/ Propose
  \/ StoreBlock \/ StoreFails
  \/ ApplyToTree
  \/ AnswerRequests \/ ConfirmBlock \/ SendBlock
  \/ Crash
  \/ LoadEmptyStore \/ LoadInSync \/ LoadPanics \/ LoadAndReapply

Spec == Init /\ [][Next]_vars

-----------------------------------------------------------------------------

Heights == DOMAIN store
StoredTxns == UNION {store[h].txns : h \in Heights}
Created(hs) == UNION {BlockOutputs(store[h]) : h \in hs}
Consumed(hs) == UNION {BlockInputs(store[h]) : h \in hs}

Blocks == [height : Nat, root : SUBSET Leaf, txns : SUBSET Txn,
           prev : {HashOf(Genesis)} \cup {HashOf(store[h]) : h \in Heights}]
Tips == {Genesis} \cup {store[h] : h \in Heights}

TypeOK ==
  /\ store \in Seq(Blocks)
  /\ seenOutputs \subseteq Leaf
  /\ seenMints \subseteq MintHash
  /\ diskTree \subseteq Leaf
  /\ tree \subseteq Leaf
  /\ height \in Nat
  /\ tip \in Tips
  /\ pending \subseteq Txn
  /\ checked \subseteq Txn
  /\ block.txns \subseteq Txn
  /\ step \in Steps
  /\ acked \subseteq Txn
  /\ mints \in [MintHash -> {"absent", "open", "spent"}]

(* Over the whole chain, whatever crashes and restarts happened while it   *)
(* was written, a note is created once and consumed at most once, and only *)
(* after the block that created it: the guarantee validate_txn and         *)
(* commit_proposal's "double-spend" panic are there for.                   *)
NoDoubleSpend ==
  /\ \A i, j \in Heights : i < j =>
       /\ BlockOutputs(store[i]) \cap BlockOutputs(store[j]) = {}
       /\ BlockInputs(store[i]) \cap BlockInputs(store[j]) = {}
  /\ \A j \in Heights : BlockInputs(store[j]) \subseteq Created(1 .. j - 1)

(* A deposit of the rollup contract is claimed in at most one block, also  *)
(* before its claim is settled there (get_mint_hash in validate_txn).      *)
MintClaimedInOneBlock ==
  \A i, j \in Heights : i # j => BlockMints(store[i]) \cap BlockMints(store[j]) = {}

(* The root of each stored block commits to the notes created and not      *)
(* consumed up to it, and the tree in memory is the one of the confirmed   *)
(* block whenever a new proposal is made or a request is validated against *)
(* it between proposals: recovery rebuilt it right.                        *)
TreeIsChain ==
  /\ \A h \in Heights : store[h].root = Created(1 .. h) \ Consumed(1 .. h)
  /\ step = "idle" => tree = Created(Heights) \ Consumed(Heights)

(* Heights are consecutive and each block names the hash of the one before *)
(* it (create_proposal's last_block_hash comes from the cache, which a     *)
(* restart refills from the store).                                        *)
ChainLinked ==
  \A h \in Heights :
    /\ store[h].height = h
    /\ store[h].prev = HashOf(IF h = 1 THEN Genesis ELSE store[h - 1])

(* A client whose submit_transaction_and_wait returned Ok finds its        *)
(* transaction in the block store, after any crash.                        *)
AckedIsDurable == acked \subseteq StoredTxns

(* What peers were sent is what the store holds for that height: the       *)
(* validator never proposes two blocks for one height, crash or not.       *)
SentIsStored == \A b \in sent : b.height \in Heights /\ store[b.height] = b

(* A stored block is never replaced or dropped; the store only grows at    *)
(* its end.                                                                *)
StoredBlocksStay ==
  [][/\ Len(store') >= Len(store)
     /\ \A h \in Heights : store'[h] = store[h]]_vars

(* Once the store holds two blocks, the tree a crash leaves behind is that *)
(* of the last block, or that of the one before and then the last block    *)
(* can be applied again and gives its root.  The two other branches of     *)
(* load_db_and_smirk are never due: the panics of apply_block_to_tree and  *)
(* of the assertion after it, and the reset that moves both databases away *)
(* and starts again from genesis.  (Next has no actions for them.)         *)
RecoveryRepairs ==
  ~ Up /\ Max > 1 =>
    \/ diskTree = store[Max].root
    \/ OneBehind /\ Reapplicable /\ Reapplied = store[Max].root

(* The notes, claims and answers of the chain in the block store.          *)
Promise == INSTANCE NoteLedger WITH
  unspent  <- Created(Heights) \ Consumed(Heights),
  created  <- Created(Heights),
  claimed  <- UNION {BlockMints(store[h]) : h \in Heights},
  final    <- StoredTxns,
  answered <- acked

(* The validator implements the ledger of notes: whatever it does in       *)
(* between, crashes and restarts included, the notes change only when      *)
(* block_store.set writes a block, by exactly one batch that consumes      *)
(* unspent notes, creates new ones and claims unclaimed deposits, and a    *)
(* request is answered only for a transaction that took effect.            *)
KeepsPromise == Promise!LedgerSpec
=============================================================================

------------------------------ MODULE Follower ------------------------------
(***************************************************************************)
(* A node that is not the validator: it inserts the blocks it receives in  *)
(* its cache (receive_proposal), and its tick worker commits those that    *)
(* extend what it has (the first half of tick in                           *)
(* pkg/node/src/node/tick_worker.rs, commit_proposal, and the background   *)
(* worker of pkg/primitives/src/tick_worker.rs that runs it).              *)
(*                                                                         *)
(* The validator's chain is given: the block of height h is the number h,  *)
(* it creates and consumes notes, and NotesAfter[h] are the notes in the   *)
(* tree after it.  A tree stands for its root hash, so a block's root is   *)
(* that set.  Stray holds blocks that validate_block refuses on any tree,  *)
(* such as those a validator signed before its databases were reset.  What *)
(* a block does to the mempool is in module FollowerMempool.               *)
(***************************************************************************)
EXTENDS BlockCache

CONSTANTS
  ChainHeight,    \* bound: the height of the validator's chain
  Stray,
  Note,
  Creates,        \* the nonzero output commitments of a block's transactions
  Consumes,       \* the nonzero input commitments
  MaxFailures     \* bound: writes that the block store refuses

Chain == 0 .. ChainHeight

NotesAfter[h \in Chain] ==
  IF h = 0 THEN {} ELSE (NotesAfter[h - 1] \ Consumes[h]) \cup Creates[h]

ASSUME FollowerAssumption ==
  /\ ChainHeight \in Nat
  /\ MaxFailures \in Nat
  /\ Block = Chain \cup Stray
  /\ Chain \cap Stray = {}
  /\ \A h \in Chain : HeightOf[h] = h
  /\ Creates \in [Chain -> SUBSET Note]
  /\ Consumes \in [Chain -> SUBSET Note]
  /\ Creates[0] = {} /\ Consumes[0] = {}
  /\ \A h \in 1 .. ChainHeight : Consumes[h] \subseteq NotesAfter[h - 1]
  /\ \A g, h \in Chain : g # h => Creates[g] \cap Creates[h] = {}

(* 10_000 blocks leave room for every block that is not of the chain, the  *)
(* ones they replaced in the index, and the two the tick worker needs.     *)
ASSUME RoomAssumption ==
  /\ IsFiniteSet(Stray)
  /\ MaxCacheSize > 2 * Cardinality(Stray) + 2

VARIABLES
  cache,      \* NodeShared.block_cache
  nodeStore,  \* disk: the heights of the blocks in the block store
  nodeTree,   \* disk: the elements of the notes tree
  tickStep,   \* where the tick worker is
  work,       \* the block it is committing
  wake,       \* a permit of the tick worker's Notify
  notifying,  \* a task inserted a block and has not called ticker.tick() yet
  failures    \* writes refused so far

nodeVars == <<cache, nodeStore, nodeTree, tickStep, work, wake, notifying, failures>>

FollowerSteps == {"looking", "validating", "removing", "confirming", "storing", "applying",
                  "checking", "retrying", "paused", "dead", "down", "panicked"}

(* The process runs; when the tick worker is dead, without committing.     *)
NodeUp == tickStep \notin {"down", "panicked"}

FollowerInit ==
  /\ cache = NewCache(0)
  /\ nodeStore = {}
  /\ nodeTree = NotesAfter[0]
  /\ tickStep = "looking"
  /\ work = 0
  /\ wake = FALSE
  /\ notifying = FALSE
  /\ failures = 0

-----------------------------------------------------------------------------

(* handle_event for a block, and the loop over a snapshot chunk:           *)
(* receive_proposal, then ticker.tick().                                   *)
ReceiveBlock(b) ==
  /\ NodeUp
  /\ ~ notifying
  /\ cache' = Inserted(cache, b)
  /\ notifying' = TRUE
  /\ UNCHANGED <<nodeStore, nodeTree, tickStep, work, wake, failures>>

Notify ==
  /\ NodeUp
  /\ notifying
  /\ wake' = TRUE
  /\ notifying' = FALSE
  /\ UNCHANGED <<cache, nodeStore, nodeTree, tickStep, work, failures>>

-----------------------------------------------------------------------------

(* The commit loop of tick.                                                *)
TakeNext ==
  /\ tickStep = "looking"
  /\ \E b \in NextCommit(cache) : work' = b
  /\ tickStep' = "validating"
  /\ UNCHANGED <<cache, nodeStore, nodeTree, wake, notifying, failures>>

NoNext ==
  /\ tickStep = "looking"
  /\ NextCommit(cache) = {}
  /\ tickStep' = "checking"
  /\ UNCHANGED <<cache, nodeStore, nodeTree, work, wake, notifying, failures>>

Applied(b) == (nodeTree \ Consumes[b]) \cup Creates[b]

(* validate_block: the signature, what validate_txn looks up in the tree   *)
(* and in the element history of the store, and the root.                  *)
ValidBlock(b) ==
  /\ b \in Chain
  /\ Consumes[b] \subseteq nodeTree
  /\ Creates[b] \cap (nodeTree \cup UNION {Creates[h] : h \in nodeStore}) = {}
  /\ Applied(b) = NotesAfter[b]

Validate ==
  /\ tickStep = "validating"
  /\ tickStep' = IF ValidBlock(work) THEN "confirming" ELSE "removing"
  /\ UNCHANGED <<cache, nodeStore, nodeTree, work, wake, notifying, failures>>

RemoveBlock ==
  /\ tickStep = "removing"
  /\ cache' = Removed(cache, work)
  /\ tickStep' = "looking"
  /\ UNCHANGED <<nodeStore, nodeTree, work, wake, notifying, failures>>

FollowerConfirms ==
  /\ tickStep = "confirming"
  /\ cache' = Confirmed(cache, work)
  /\ tickStep' = "storing"
  /\ UNCHANGED <<nodeStore, nodeTree, work, wake, notifying, failures>>

(* commit_proposal: the block store first, then the notes tree.  The       *)
(* inputs are looked up once more before, and by insert_batch.             *)
FollowerStores ==
  /\ tickStep = "storing"
  /\ Consumes[work] \subseteq nodeTree
  /\ nodeStore' = nodeStore \cup {work}
  /\ tickStep' = "applying"
  /\ UNCHANGED <<cache, nodeTree, work, wake, notifying, failures>>

(* The store refuses the write: tick, which has confirmed the block in the *)
(* cache already, logs the error and returns None.  (A failed write of the *)
(* tree is not modelled.)                                                  *)
FollowerStoreFails ==
  /\ tickStep = "storing"
  /\ Consumes[work] \subseteq nodeTree
  /\ failures < MaxFailures
  /\ failures' = failures + 1
  /\ tickStep' = "paused"
  /\ UNCHANGED <<cache, nodeStore, nodeTree, work, wake, notifying>>

FollowerApplies ==
  /\ tickStep = "applying"
  /\ Consumes[work] \subseteq nodeTree
  /\ Creates[work] \cap nodeTree = {}
  /\ nodeTree' = Applied(work)
  /\ tickStep' = "looking"
  /\ UNCHANGED <<cache, nodeStore, work, wake, notifying, failures>>

(* "Double-spend detected", or the todo! of check_collisions.  The panic   *)
(* ends the task of the tick worker, not the process.                      *)
CommitPanics ==
  /\ tickStep \in {"storing", "applying"}
  /\ ~ (Consumes[work] \subseteq nodeTree)
  /\ tickStep' = "dead"
  /\ UNCHANGED <<cache, nodeStore, nodeTree, work, wake, notifying, failures>>

(* A CollisionError: tick logs it and returns None.                        *)
ApplyRefused ==
  /\ tickStep = "applying"
  /\ Consumes[work] \subseteq nodeTree
  /\ Creates[work] \cap nodeTree # {}
  /\ tickStep' = "paused"
  /\ UNCHANGED <<cache, nodeStore, nodeTree, work, wake, notifying, failures>>

(* The unwrap in is_out_of_sync.                                           *)
CheckPanics ==
  /\ tickStep = "checking"
  /\ SyncCheckPanics(cache)
  /\ tickStep' = "dead"
  /\ UNCHANGED <<cache, nodeStore, nodeTree, work, wake, notifying, failures>>

(* Mutant: no timer; tick counts on the sync worker.                       *)
SignalAndPause ==
  /\ tickStep = "checking"
  /\ ~ SyncCheckPanics(cache)
  /\ IsOutOfSync(cache)
  /\ tickStep' = "paused"
  /\ UNCHANGED <<cache, nodeStore, nodeTree, work, wake, notifying, failures>>

(* Out of sync: the sync worker is told, and tick is due in 5 seconds.     *)
SignalOutOfSync ==
  /\ tickStep = "checking"
  /\ ~ SyncCheckPanics(cache)
  /\ IsOutOfSync(cache)
  /\ tickStep' = "retrying"
  /\ UNCHANGED <<cache, nodeStore, nodeTree, work, wake, notifying, failures>>

(* Mutant: a call of ticker.tick() is lost when nobody waits for it.       *)
PauseForgetting ==
  /\ tickStep = "checking"
  /\ ~ SyncCheckPanics(cache)
  /\ ~ IsOutOfSync(cache)
  /\ tickStep' = "paused"
  /\ wake' = FALSE
  /\ UNCHANGED <<cache, nodeStore, nodeTree, work, notifying, failures>>

(* tick returns None.                                                      *)
Pause ==
  /\ tickStep = "checking"
  /\ ~ SyncCheckPanics(cache)
  /\ ~ IsOutOfSync(cache)
  /\ tickStep' = "paused"
  /\ UNCHANGED <<cache, nodeStore, nodeTree, work, wake, notifying, failures>>

(* background_worker: notified() takes the permit, or the 5 seconds pass.  *)
Wake ==
  /\ tickStep \in {"paused", "retrying"}
  /\ wake
  /\ wake' = FALSE
  /\ tickStep' = "looking"
  /\ UNCHANGED <<cache, nodeStore, nodeTree, work, notifying, failures>>

Retry ==
  /\ tickStep = "retrying"
  /\ tickStep' = "looking"
  /\ UNCHANGED <<cache, nodeStore, nodeTree, work, wake, notifying, failures>>

Tick ==
  \/ TakeNext \/ NoNext \/ Validate \/ RemoveBlock \/ FollowerConfirms
  \/ FollowerStores \/ FollowerStoreFails \/ FollowerApplies \/ Pause \/ Wake \/ Retry

(* The other branches of tick, which only a fast snapshot can lead to (see *)
(* FastSync).                                                              *)
TickAfterSnapshot == CommitPanics \/ ApplyRefused \/ CheckPanics

-----------------------------------------------------------------------------

MaxStored == CHOOSE h \in nodeStore : \A g \in nodeStore : g <= h

(* Node::new on what load_db_and_smirk returns.                            *)
StartFrom(h, notes) ==
  /\ cache' = NewCache(h)
  /\ nodeTree' = notes
  /\ tickStep' = "looking"
  /\ UNCHANGED <<work, wake, notifying>>

FollowerCrash ==
  /\ NodeUp
  /\ tickStep' = "down"
  /\ cache' = NewCache(0)
  /\ work' = 0
  /\ wake' = FALSE
  /\ notifying' = FALSE
  /\ UNCHANGED <<nodeStore, nodeTree, failures>>

RestartEmpty ==
  /\ tickStep = "down"
  /\ nodeStore = {}
  /\ StartFrom(0, NotesAfter[0])
  /\ UNCHANGED <<nodeStore, failures>>

(* Mutant: the tree is taken as it is.                                     *)
RestartAsIs ==
  /\ tickStep = "down"
  /\ nodeStore # {}
  /\ StartFrom(MaxStored, nodeTree)
  /\ UNCHANGED <<nodeStore, failures>>

(* The tree is that of the last block, or of the one before, whose block   *)
(* is then applied again.                                                  *)
RestartInSync ==
  /\ tickStep = "down"
  /\ nodeStore # {}
  /\ \/ nodeTree = NotesAfter[MaxStored]
     \/ MaxStored - 1 \in nodeStore /\ nodeTree = NotesAfter[MaxStored - 1]
  /\ StartFrom(MaxStored, NotesAfter[MaxStored])
  /\ UNCHANGED <<nodeStore, failures>>

(* The block before the last is not in the store: unwrap.                  *)
RestartPanics ==
  /\ tickStep = "down"
  /\ nodeStore # {}
  /\ nodeTree # NotesAfter[MaxStored]
  /\ MaxStored - 1 \notin nodeStore
  /\ tickStep' = "panicked"
  /\ UNCHANGED <<cache, nodeStore, nodeTree, work, wake, notifying, failures>>

(* The tree is neither: both databases are deleted, and the node starts    *)
(* from nothing.  Only a fast snapshot can lead to this.                   *)
RestartReset ==
  /\ tickStep = "down"
  /\ nodeStore # {}
  /\ MaxStored - 1 \in nodeStore
  /\ nodeTree \notin {NotesAfter[MaxStored], NotesAfter[MaxStored - 1]}
  /\ StartFrom(0, NotesAfter[0])
  /\ nodeStore' = {}
  /\ UNCHANGED failures

Restart == RestartEmpty \/ RestartInSync \/ RestartPanics

FollowerNext ==
  \/ \E b \in Block : ReceiveBlock(b)
  \/ Notify
  \/ Tick
  \/ SignalOutOfSync
  \/ FollowerCrash
  \/ Restart

FollowerSpec == FollowerInit /\ [][FollowerNext]_nodeVars

-----------------------------------------------------------------------------

FollowerTypeOK ==
  /\ cache.height \in Chain
  /\ cache.maxHeight \in Nat
  /\ cache.blocks \subseteq Block
  /\ DOMAIN cache.index \subseteq {HeightOf[b] : b \in Block}
  /\ \A h \in DOMAIN cache.index : cache.index[h] \in Block /\ HeightOf[cache.index[h]] = h
  /\ nodeStore \subseteq Chain
  /\ nodeTree \subseteq Note
  /\ tickStep \in FollowerSteps
  /\ work \in Block
  /\ wake \in BOOLEAN
  /\ notifying \in BOOLEAN
  /\ failures \in 0 .. MaxFailures

Stored == IF nodeStore = {} THEN 0 ELSE MaxStored

(* Unless writes fail, blocks are committed one height after the other,    *)
(* whatever order they arrive in and wherever the process dies: the store  *)
(* never has a gap, the cache's height is the store's except while tick is *)
(* between its confirm and block_store.set, and the tree is that of the    *)
(* last stored block except between the two writes of commit_proposal (or  *)
(* when it died there).                                                    *)
FollowsChain ==
  failures = 0 =>
    /\ nodeStore = 1 .. Stored
    /\ NodeUp => cache.height = IF tickStep = "storing" THEN Stored + 1 ELSE Stored
    /\ \/ nodeTree = NotesAfter[Stored]
       \/ tickStep \in {"applying", "down", "panicked"} /\ nodeTree = NotesAfter[Stored - 1]

(* A block that was not written leaves a hole in the store only if it did  *)
(* not change the notes: validate_block refuses every later block as long  *)
(* as the tree lacks its changes.                                          *)
HolesAreEmptyBlocks ==
  \A h \in (1 .. Stored) \ nodeStore : Creates[h] = {} /\ Consumes[h] = {}

(* Whatever writes to the store fail, the tree is that of the last stored  *)
(* block or of the one before it, which is what load_db_and_smirk can      *)
(* repair: the node never has to discard its databases for them.           *)
AtMostOneBehind ==
  nodeStore # {} => nodeTree \in {NotesAfter[Stored], NotesAfter[Stored - 1]}

(* The cache always has the block of its confirmed height (the comment in  *)
(* BlockCache::new), so the unwrap of is_out_of_sync never panics: neither *)
(* an eviction nor a removal of a refused block takes it away, and the     *)
(* block being confirmed is still there after the unlocked validation.     *)
ConfirmedBlockCached == cache.height \in DOMAIN cache.index

(* The cache never holds more than max_cache_size blocks, refused and      *)
(* replaced ones included.                                                 *)
CapacityRespected == Cardinality(cache.blocks) <= MaxCacheSize

(* Unless writes failed, when the tick worker waits without a timer, and   *)
(* no task is about to wake it, there is no block to commit and no height  *)
(* missing up to the greatest seen: no wake-up is lost between the insert  *)
(* in the cache and ticker.tick(), or while tick runs.                     *)
NothingLeftUndone ==
  failures = 0 /\ tickStep = "paused" /\ ~ wake /\ ~ notifying =>
    /\ NextCommit(cache) = {}
    /\ cache.maxHeight = cache.height

(* Without snapshots of notes, the cache, the store and the tree of a node *)
(* stay in step whatever arrives in which order, whichever writes fail and *)
(* wherever the process dies.                                              *)
NodesInOrder ==
  /\ FollowerTypeOK
  /\ FollowsChain /\ HolesAreEmptyBlocks /\ AtMostOneBehind
  /\ ConfirmedBlockCached /\ CapacityRespected
=============================================================================

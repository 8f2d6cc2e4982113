------------------------------ MODULE FastSync ------------------------------
(***************************************************************************)
(* Fast snapshots (pkg/node/src/sync.rs): a prover that is far behind asks *)
(* for the notes of the tree at the height of the rollup contract, instead *)
(* of for blocks.  The chunk has the block of that height and the elements *)
(* of a peer's tree; the sync worker brings the tree to the state before   *)
(* the block, tells the cache that it is at the height before it, and      *)
(* inserts the block, while the tick worker of module Follower commits     *)
(* what the cache has.  The exchange of request, offer and accept is that  *)
(* of module NodeSync; here a request is answered, or is given up.         *)
(***************************************************************************)
EXTENDS Follower

CONSTANTS
  Padded,             \* blocks with a transaction that has a zero commitment
  ZeroElement,               \* Element::ZERO
  FastChunkSize,      \* sync_chunk_size
  FastSyncThreshold,  \* fast_sync_threshold
  Word                \* bound: u64 numbers are modulo this instead of 2^64

ASSUME FastAssumption ==
  /\ Padded \subseteq Chain
  /\ ZeroElement \notin Note
  /\ FastChunkSize \in Nat
  /\ FastSyncThreshold \in Nat
  /\ Word \in Nat /\ Word > 2 * ChainHeight

VARIABLES
  maxSeen,  \* max_seen_height of the OutOfSync message in the worker's channel
  fast      \* what the sync worker is doing: its phase and to_height

fastVars == <<nodeVars, maxSeen, fast>>

Idle == [phase |-> "idle", to |-> 0]

FastInit ==
  /\ FollowerInit
  /\ maxSeen = 0
  /\ fast = Idle

-----------------------------------------------------------------------------

(* A message that is queued already is handled before later ones.          *)
SignalFast ==
  /\ SignalOutOfSync
  /\ maxSeen' = IF maxSeen = 0 THEN cache.maxHeight ELSE maxSeen
  /\ UNCHANGED fast

(* max_seen_height.0 - self.node.height().0, which wraps.                  *)
FarBehind == (maxSeen + Word - cache.height) % Word > FastSyncThreshold

(* handle_out_of_sync for a prover, with contract the height of the rollup *)
(* contract.                                                               *)
RequestFast(contract) ==
  /\ NodeUp
  /\ fast = Idle
  /\ maxSeen > 0
  /\ ~ SyncCheckPanics(cache)
  /\ IsOutOfSync(cache)
  /\ FarBehind
  /\ contract > cache.height + 1 + FastChunkSize
  /\ fast' = [phase |-> "asking", to |-> contract]
  /\ maxSeen' = 0
  /\ UNCHANGED nodeVars

(* The node has caught up, asks for a slow snapshot, or drops the message  *)
(* while it waits for an offer or a chunk.                                 *)
SkipFast ==
  /\ NodeUp
  /\ fast.phase # "inserting"
  /\ maxSeen > 0
  /\ maxSeen' = 0
  /\ UNCHANGED <<nodeVars, fast>>

(* A timeout, or a chunk without a block.                                  *)
GiveUpFast ==
  /\ NodeUp
  /\ fast.phase = "asking"
  /\ fast' = Idle
  /\ UNCHANGED <<nodeVars, maxSeen>>

-----------------------------------------------------------------------------

CreatedBy(h) == UNION {Creates[g] : g \in 1 .. h}

(* send_snapshot_chunk_fast of a peer at height p, which may have been     *)
(* fast-synced, so that inserted_in is 0 for all its notes.                *)
Served(p, to) == {NotesAfter[p] \cap CreatedBy(to), NotesAfter[p]}

(* last_block_elements.                                                    *)
LastBlockElements(b) ==
  Creates[b] \cup Consumes[b] \cup (IF b \in Padded THEN {ZeroElement} ELSE {})

(* last_block_elements without block_elements_left_to_find.                *)
FoundInChunk(b, elements) ==
  ((elements \ nodeTree) \cap Creates[b]) \cup ((nodeTree \ elements) \cap Consumes[b])

(* Mutant: the elements of the last block are not looked for.              *)
RootMatches(b, elements) == elements = NotesAfter[b]

(* The root with the new elements and without the missing ones is the      *)
(* block's, and its own elements are among them.                           *)
Usable(b, elements) ==
  /\ elements = NotesAfter[b]
  /\ LastBlockElements(b) \subseteq FoundInChunk(b, elements)

(* The tree before the block: apply_fast_snapshot_chunk leaves the block's *)
(* own changes to the commit.                                              *)
BeforeBlock(b, elements) ==
  (nodeTree \cup ((elements \ nodeTree) \ Creates[b])) \ ((nodeTree \ elements) \ Consumes[b])

(* handle_snapshot_chunk_fast, with the tree locked: the cache is told     *)
(* whether the chunk was usable or not.                                    *)
ApplyFastChunk(elements) ==
  /\ NodeUp
  /\ fast.phase = "asking"
  /\ nodeTree' = IF Usable(fast.to, elements) THEN BeforeBlock(fast.to, elements) ELSE nodeTree
  /\ cache' = Confirmed(cache, fast.to - 1)
  /\ fast' = [fast EXCEPT !.phase = "inserting"]
  /\ UNCHANGED <<nodeStore, tickStep, work, wake, notifying, failures, maxSeen>>

(* receive_proposal; ticker.tick() follows.                                *)
InsertFastBlock ==
  /\ fast.phase = "inserting"
  /\ ReceiveBlock(fast.to)
  /\ fast' = Idle
  /\ UNCHANGED maxSeen

CrashFast ==
  /\ FollowerCrash
  /\ maxSeen' = 0
  /\ fast' = Idle

FastNext ==
  \/ \E b \in Block : ReceiveBlock(b) /\ UNCHANGED <<maxSeen, fast>>
  \/ (Notify \/ Tick \/ TickAfterSnapshot) /\ UNCHANGED <<maxSeen, fast>>
  \/ (Restart \/ RestartReset) /\ UNCHANGED <<maxSeen, fast>>
  \/ SignalFast
  \/ \E h \in Chain : RequestFast(h)
  \/ SkipFast
  \/ GiveUpFast
  \/ \E p \in fast.to .. ChainHeight : \E elements \in Served(p, fast.to) :
       ApplyFastChunk(elements)
  \/ InsertFastBlock
  \/ CrashFast

FastSpec == FastInit /\ [][FastNext]_fastVars

-----------------------------------------------------------------------------

(* A fast snapshot that changes the tree leaves exactly the notes before   *)
(* the block of the chunk, whichever notes the node had, and whether or    *)
(* not the peer's tree was ahead of the block.                             *)
FastTreeExact ==
  [][fast.phase = "asking" /\ fast'.phase = "inserting" /\ nodeTree' # nodeTree =>
       nodeTree' = NotesAfter[fast.to - 1]]_fastVars

(* validate_block lets a block through only on the tree of the block       *)
(* before it, also when the tree came from a fast snapshot or a commit     *)
(* raced with one: the lookups and the root leave no other tree.           *)
ValidOnlyOnPredecessor ==
  [][tickStep = "validating" /\ tickStep' = "confirming" =>
       nodeTree = NotesAfter[work - 1]]_fastVars

(* However a fast snapshot, a commit that raced with it and a crash left   *)
(* the databases, a node that starts has the tree of its last block.       *)
StartsConsistent ==
  [][tickStep = "down" /\ tickStep' = "looking" =>
       nodeTree' = NotesAfter[cache'.height]]_fastVars

(* A snapshot of notes leaves exactly the tree before its block, blocks    *)
(* are validated only on the tree of their predecessor, and a node starts  *)
(* with the tree of its last block, whatever raced or crashed before.      *)
FastSyncExact == FastTreeExact /\ ValidOnlyOnPredecessor /\ StartsConsistent

(* "This should never happen, this should have been caught before commit": *)
(* the inputs that validate_block found in the tree are in it when         *)
(* commit_proposal looks them up again.                                    *)
InputsStayInTree ==
  tickStep = "storing" => Consumes[work] \subseteq nodeTree

=============================================================================

----------------------------- MODULE BlockCache -----------------------------
(***************************************************************************)
(* BlockCache (pkg/node/src/cache.rs): the last confirmed block of a node  *)
(* and the blocks it received for later heights, in any order.  Blocks are *)
(* kept by hash, with an index from heights to hashes; a block stands for  *)
(* its hash.  Blocks are inserted before anything about them is validated, *)
(* so two blocks may have one height.                                      *)
(***************************************************************************)
EXTENDS Naturals, FiniteSets

CONSTANTS
  Block,
  HeightOf,       \* the height in a block's header
  MaxCacheSize    \* max_cache_size, 10_000 in Node::new

ASSUME CacheAssumption ==
  /\ HeightOf \in [Block -> Nat]
  /\ MaxCacheSize \in Nat \ {0}

(* block_hash_heights.iter().last(), 0 for an empty index.                 *)
LastIndexed(c) ==
  IF DOMAIN c.index = {} THEN 0
  ELSE CHOOSE h \in DOMAIN c.index : \A g \in DOMAIN c.index : g <= h

Drop(index, hs) == [h \in DOMAIN index \ hs |-> index[h]]

(* BlockCache::remove: the block goes, and whatever the index has for its  *)
(* height.                                                                 *)
Removed(c, b) ==
  IF b \in c.blocks
    THEN [c EXCEPT !.blocks = @ \ {b}, !.index = Drop(@, {HeightOf[b]})]
    ELSE c

AtCapacity(c) == Cardinality(c.blocks) >= MaxCacheSize

Put(c, b) ==
  [c EXCEPT
     !.blocks = @ \cup {b},
     !.index = [h \in DOMAIN @ \cup {HeightOf[b]} |-> IF h = HeightOf[b] THEN b ELSE @[h]]]

(* At capacity the block of the greatest height makes room.                *)
WithRoom(c) ==
  IF AtCapacity(c) /\ DOMAIN c.index # {} THEN Removed(c, c.index[LastIndexed(c)]) ELSE c

(* BlockCache::insert.                                                     *)
Inserted(c, b) ==
  IF c.height > HeightOf[b] THEN c
  ELSE LET seen == [c EXCEPT !.maxHeight = IF HeightOf[b] > @ THEN HeightOf[b] ELSE @]
       IN  IF AtCapacity(c) /\ HeightOf[b] > LastIndexed(c)
             THEN seen
             ELSE Put(WithRoom(seen), b)

(* BlockCache::confirm.                                                    *)
Confirmed(c, height) ==
  LET below == {h \in DOMAIN c.index : h < height}
  IN  [c EXCEPT !.height = height,
                !.blocks = @ \ {c.index[h] : h \in below},
                !.index = Drop(@, below)]

(* BlockCache::new.                                                        *)
NewCache(b) ==
  [height |-> HeightOf[b], maxHeight |-> HeightOf[b], blocks |-> {b},
   index |-> [h \in {HeightOf[b]} |-> b]]

(* get_next_commit_block: the block at the next height, if there is one.   *)
NextCommit(c) == {c.index[h] : h \in {c.height + 1} \cap DOMAIN c.index}

(* is_out_of_sync unwraps the last entry of the index.                     *)
SyncCheckPanics(c) == DOMAIN c.index = {}

(* is_out_of_sync.                                                         *)
IsOutOfSync(c) ==
  \/ c.maxHeight > LastIndexed(c)
  \/ \E h \in c.height + 1 .. c.maxHeight : h \notin DOMAIN c.index
=============================================================================

-------------------------------- MODULE Smirk --------------------------------
(***************************************************************************)
(* Smirk, the sparse Merkle tree of the notes (pkg/smirk), and Persistent, *)
(* its copy in rocksdb.                                                    *)
(*                                                                         *)
(* hash_merge is free of collisions: a hash is the term that computes it,  *)
(* preceded by the depth of the subtree.  The values stored with the       *)
(* elements do not enter any hash and are left out.  The recursion of the  *)
(* code splits a list sorted by bits at the first 1; here it splits a set  *)
(* of changes.                                                             *)
(***************************************************************************)
EXTENDS Integers, FiniteSets, SequencesExt, TLC

CONSTANTS
    DEPTH,        \* of the tree: an element is at the leaf its DEPTH - 1 low bits name
    Element,      \* naturals; 0 is NULL_HASH
    MaxBatch,     \* bound: changes of one batch
    MaxBatches    \* bound: batches inserted

ASSUME TreeAssumption == DEPTH \in Nat \ {0, 1} /\ Element \subseteq Nat \ {0}

VARIABLES
    tree,     \* Tree::tree, the nodes
    entries,  \* Tree::entries
    initial,  \* SimpleHashCache::initial, the known hashes loaded
    db,       \* the rocksdb entries: versioned element keys, known hashes
    failed,   \* whether a write has failed; at most one does
    written,  \* history: the elements of every batch that was written
    batches   \* history: the batches inserted

smirkVars == <<tree, entries, initial, db, failed, written, batches>>

NULL_HASH == 0
Down == [kind |-> "down"]

(***************************************************************************)
(* Bits and hashes.                                                        *)
(***************************************************************************)
\* Element::lsb: the DEPTH - 1 low bits, most significant first.
Lsb(e) == [i \in 1 .. DEPTH - 1 |-> (e \div 2 ^ (DEPTH - 1 - i)) % 2]

LeafHash(e) == <<1, e>>

HashMerge(l, r) == <<l[1] + 1, l, r>>

EmptyTreeHash[d \in 1 .. DEPTH] ==
    IF d = 1 THEN LeafHash(NULL_HASH) ELSE HashMerge(EmptyTreeHash[d - 1], EmptyTreeHash[d - 1])

\* Mutant: a known hash is looked up by its left child alone.
CacheHashByLeft(cache, l, r) ==
    LET hits == {k \in cache : k.left = l}
    IN  IF hits = {} THEN HashMerge(l, r) ELSE (CHOOSE k \in hits : TRUE).result

\* SimpleHashCache::hash: a hash that was loaded is used unchecked.
CacheHash(cache, l, r) ==
    LET hits == {k \in cache : k.left = l /\ k.right = r}
    IN  IF hits = {} THEN HashMerge(l, r) ELSE (CHOOSE k \in hits : TRUE).result

(***************************************************************************)
(* Node.                                                                   *)
(***************************************************************************)
Leaf(e) == [kind |-> "leaf", e |-> e]
Empty(d) == [kind |-> "empty", depth |-> d]
Parent(l, r, hash, dirty) ==
    [kind |-> "parent", left |-> l, right |-> r, hash |-> hash, dirty |-> dirty]

Hash(node) ==
    CASE node.kind = "leaf"   -> LeafHash(node.e)
      [] node.kind = "parent" -> node.hash
      [] node.kind = "empty"  -> EmptyTreeHash[node.depth]

Split(d) == Parent(Empty(d - 1), Empty(d - 1), EmptyTreeHash[d], FALSE)

Inserted(e) == [op |-> "insert", e |-> e]
Removed(e) == [op |-> "remove", e |-> e]

Going(changes, bit, i) == {c \in changes : Lsb(c.e)[i] = bit}

RECURSIVE HashWithInner(_, _, _, _)
HashWithInner(cache, node, changes, i) ==
    LET Below(l, r) == CacheHash(cache, HashWithInner(cache, l, Going(changes, 0, i), i + 1),
                                        HashWithInner(cache, r, Going(changes, 1, i), i + 1))
    IN  CASE node.kind = "leaf" /\ changes # {} ->
               LET c == CHOOSE x \in changes : TRUE
               IN  IF c.op = "insert" THEN LeafHash(c.e)
                   ELSE IF c.e = node.e THEN EmptyTreeHash[1] ELSE Hash(node)
          [] node.kind = "parent" -> Below(node.left, node.right)
          [] node.kind = "empty" /\ node.depth = 1 /\ changes # {} ->
               LET c == CHOOSE x \in changes : TRUE
               IN  IF c.op = "insert" THEN LeafHash(c.e) ELSE EmptyTreeHash[1]
          [] node.kind = "empty" /\ node.depth > 1 /\ changes # {} ->
               Below(Empty(node.depth - 1), Empty(node.depth - 1))
          [] OTHER -> Hash(node)

RootHashWith(ins, rem) ==
    HashWithInner(initial, tree, {Inserted(e) : e \in ins} \union {Removed(e) : e \in rem}, 1)

\* insert_without_hashing: the new node and whether it changed.  A leaf that is
\* met by another element is an error the callers unwrap; ok records it.
RECURSIVE InsertWithoutHashing(_, _, _)
InsertWithoutHashing(node, changes, i) ==
    CASE node.kind = "leaf" ->
           IF Inserted(node.e) \in changes THEN [node |-> node, changed |-> FALSE, ok |-> TRUE]
           ELSE IF Removed(node.e) \in changes THEN [node |-> Empty(1), changed |-> TRUE, ok |-> TRUE]
           ELSE [node |-> node, changed |-> FALSE, ok |-> FALSE]
      [] node.kind = "empty" /\ node.depth = 1 ->
           LET c == CHOOSE x \in changes : TRUE
           IN  [node |-> IF c.op = "insert" THEN Leaf(c.e) ELSE node,
                changed |-> c.op = "insert", ok |-> Cardinality(changes) = 1]
      [] node.kind = "empty" /\ node.depth > 1 -> InsertWithoutHashing(Split(node.depth), changes, i)
      [] node.kind = "parent" ->
           LET Child(n, bit) == IF Going(changes, bit, i) = {} THEN [node |-> n, changed |-> FALSE, ok |-> TRUE]
                                ELSE InsertWithoutHashing(n, Going(changes, bit, i), i + 1)
               l == Child(node.left, 0)
               r == Child(node.right, 1)
           IN  [node |-> Parent(l.node, r.node, node.hash, l.changed \/ r.changed),
                changed |-> l.changed \/ r.changed, ok |-> l.ok /\ r.ok]

KnownHash(l, r, result) == [left |-> l, right |-> r, result |-> result]

\* recalculate_hashes: the node with its hashes, and the pairs of hashes given to
\* the remove and to the set callback.
RECURSIVE RecalculateHashes(_, _)
RecalculateHashes(cache, node) ==
    IF node.kind # "parent" \/ (node.kind = "parent" /\ ~node.dirty)
    THEN [node |-> node, removes |-> {}, sets |-> {}]
    ELSE LET l == RecalculateHashes(cache, node.left)
             r == RecalculateHashes(cache, node.right)
             hash == CacheHash(cache, Hash(l.node), Hash(r.node))
         IN  [node |-> Parent(l.node, r.node, hash, FALSE),
              removes |-> l.removes \union r.removes \union {<<Hash(node.left), Hash(node.right)>>},
              sets |-> l.sets \union r.sets \union {KnownHash(Hash(l.node), Hash(r.node), hash)}]

RECURSIVE KnownHashes(_)
KnownHashes(node) ==
    IF node.kind # "parent" THEN {}
    ELSE {KnownHash(Hash(node.left), Hash(node.right), node.hash)}
           \union KnownHashes(node.left) \union KnownHashes(node.right)

(***************************************************************************)
(* Path.                                                                   *)
(***************************************************************************)
\* The siblings on the way to e, from the root; below an empty node they are
\* the hashes of the empty trees.
RECURSIVE Siblings(_, _, _)
Siblings(node, e, i) ==
    CASE node.kind = "parent" ->
           IF Lsb(e)[i] = 0 THEN <<Hash(node.right)>> \o Siblings(node.left, e, i + 1)
           ELSE <<Hash(node.left)>> \o Siblings(node.right, e, i + 1)
      [] node.kind = "empty"  -> [k \in 1 .. node.depth - 1 |-> EmptyTreeHash[node.depth - k]]
      [] node.kind = "leaf"   -> <<>>

PathFor(e) == [siblings |-> Reverse(Siblings(tree, e, 1)), element |-> e]

ComputeMerkleRoot(leaf, path) ==
    LET bits == Reverse(Lsb(path.element))
        Up(hash, i) == IF bits[i] = 0 THEN HashMerge(hash, path.siblings[i])
                       ELSE HashMerge(path.siblings[i], hash)
    IN  FoldLeft(Up, LeafHash(leaf), [i \in 1 .. DEPTH - 1 |-> i])

Proves(path, leaf) == ComputeMerkleRoot(leaf, path) = Hash(tree)

(***************************************************************************)
(* Batch.                                                                  *)
(***************************************************************************)
NewBatch == [inserts |-> {}, removes |-> {}, lsbs |-> {}, ok |-> TRUE]

BatchInsert(b, e) ==
    IF Lsb(e) \in b.lsbs THEN [b EXCEPT !.ok = FALSE]
    ELSE [b EXCEPT !.lsbs = @ \union {Lsb(e)}, !.inserts = @ \union {e}]

BatchRemove(b, e) ==
    IF Lsb(e) \in b.lsbs THEN [b EXCEPT !.ok = FALSE]
    ELSE [b EXCEPT !.lsbs = @ \union {Lsb(e)}, !.removes = @ \union {e}]

FromEntries(ins, rem) ==
    LET inserted == FoldLeft(BatchInsert, NewBatch, SetToSeq(ins))
    IN  FoldLeft(BatchRemove, inserted, SetToSeq(rem))

Lsbs(S) == {Lsb(e) : e \in S}

\* check_collisions: an insert meets an element of the tree.
Collides(b) == Lsbs(b.inserts) \intersect Lsbs(entries) # {}

\* The todo!()s on the way: a remove that meets nothing, in the check, and a
\* remove that meets another element, in Tree::insert_without_hashing.
RemovesAbsent(b) == ~(b.removes \subseteq entries)

(***************************************************************************)
(* Persistent.                                                             *)
(***************************************************************************)
NewTree == Empty(DEPTH)

Key(version, e) == <<version, e>>

Pair(known) == <<known.left, known.right>>

\* A rocksdb batch that removes an element under its new key only
WriteBatchNewKeys(b, removes, sets, lost) ==
    [elements |-> (db.elements \ {Key(2, e) : e \in b.removes}) \union {Key(2, e) : e \in b.inserts},
     known |-> {k \in db.known : Pair(k) \notin removes} \union {k \in sets : Pair(k) \notin lost}]

\* The rocksdb batch.  hash_changes is a map filled by the callbacks of subtrees
\* that run in parallel: of a pair that is both removed and set the last callback
\* remains, and lost has those whose remove came last.
WriteBatch(b, removes, sets, lost) ==
    [elements |-> (db.elements \ {Key(v, e) : v \in {1, 2}, e \in b.removes \union b.inserts})
                    \union {Key(2, e) : e \in b.inserts},
     known |-> {k \in db.known : Pair(k) \notin removes} \union {k \in sets : Pair(k) \notin lost}]

\* A new store, or one an older version left, whose tree is not loaded yet.
SmirkInit ==
    /\ \E old \in {S \in SUBSET Element : Cardinality(Lsbs(S)) = Cardinality(S)} :
        /\ db = [elements |-> {Key(1, e) : e \in old}, known |-> {}]
        /\ written = old
        /\ tree = IF old = {} THEN NewTree ELSE Down
    /\ entries = {}
    /\ initial = {}
    /\ failed = FALSE
    /\ batches = 0

Running == tree # Down

Stop ==
    /\ tree' = Down
    /\ entries' = {}
    /\ initial' = {}
    /\ UNCHANGED <<db, failed, written, batches>>

\* Persistent::insert_batch after the checks: the tree in memory, then rocksdb,
\* whose error leaves the tree as it is.
Write(b) ==
    LET inserted == InsertWithoutHashing(tree, {Inserted(e) : e \in b.inserts} \union
                                               {Removed(e) : e \in b.removes}, 1)
        recalc == RecalculateHashes(initial, inserted.node)
        raced  == recalc.removes \intersect {Pair(k) : k \in recalc.sets}
    IN  /\ tree' = recalc.node
        /\ entries' = (entries \union b.inserts) \ b.removes
        /\ batches' = batches + 1
        /\ UNCHANGED initial
        /\ \/ /\ \E lost \in SUBSET raced : db' = WriteBatch(b, recalc.removes, recalc.sets, lost)
              /\ written' = (written \union b.inserts) \ b.removes
              /\ UNCHANGED failed
           \/ /\ ~failed
              /\ failed' = TRUE
              /\ UNCHANGED <<db, written>>

InsertBatch(b) ==
    /\ Running
    /\ batches < MaxBatches
    /\ b.ok
    /\ b.lsbs # {}
    /\ ~Collides(b)
    /\ IF RemovesAbsent(b) THEN Stop ELSE Write(b)

\* store::synchronize_hashes
PersistHashes ==
    /\ Running
    /\ db' = [db EXCEPT !.known = @ \union KnownHashes(tree)]
    /\ UNCHANGED <<tree, entries, initial, failed, written, batches>>

\* load::load_tree: an error if two keys name one leaf.
Load ==
    /\ ~Running
    /\ LET loaded == FromEntries({k[2] : k \in db.elements}, {})
           inserted == InsertWithoutHashing(NewTree, {Inserted(e) : e \in loaded.inserts}, 1)
       IN  /\ loaded.ok
           /\ Cardinality(db.elements) = Cardinality(loaded.inserts)
           /\ initial' = db.known
           /\ entries' = loaded.inserts
           /\ tree' = IF loaded.inserts = {} THEN NewTree
                      ELSE RecalculateHashes(db.known, inserted.node).node
    /\ UNCHANGED <<db, failed, written, batches>>

Batches ==
    LET S == {E \in SUBSET Element : Cardinality(E) <= MaxBatch}
    IN  {FromEntries(p[1], p[2]) : p \in {q \in S \X S :
            Cardinality(q[1]) + Cardinality(q[2]) \in 1 .. MaxBatch}}

SmirkNext ==
    \/ \E b \in Batches : InsertBatch(b)
    \/ PersistHashes
    \/ Running /\ Stop
    \/ Load

SmirkSpec == SmirkInit /\ [][SmirkNext]_smirkVars

(***************************************************************************)
(* Properties.                                                             *)
(***************************************************************************)
\* The root hash of the tree of depth d of the elements S, by definition.
RECURSIVE MerkleRoot(_, _, _)
MerkleRoot(S, d, i) ==
    IF d = 1 THEN LeafHash(IF S = {} THEN NULL_HASH ELSE CHOOSE e \in S : TRUE)
    ELSE HashMerge(MerkleRoot({e \in S : Lsb(e)[i] = 0}, d - 1, i + 1),
                   MerkleRoot({e \in S : Lsb(e)[i] = 1}, d - 1, i + 1))

\* The root hash is the one of the set of elements, whatever batches of inserts
\* and removes, reloads and known hashes led to it (hash_dirty,
\* recalculate_hashes, SimpleHashCache), and no leaf is met by a second element.
RootHashCanonical == Running => Hash(tree) = MerkleRoot(entries, DEPTH, 1)

\* The root hash a proposer or a syncing node predicts for a batch with
\* root_hash_with is the one the tree has after insert_batch of it.
RootHashWithPredicts ==
    Running => \A b \in Batches :
        b.ok /\ ~Collides(b) /\ ~RemovesAbsent(b) =>
            RootHashWith(b.inserts, b.removes)
                = MerkleRoot((entries \union b.inserts) \ b.removes, DEPTH, 1)

\* path_for proves an element exactly if the tree has it, and NULL_HASH exactly
\* if no element is at its leaf.
PathsProve ==
    Running => \A e \in Element :
        /\ Proves(PathFor(e), e) <=> e \in entries
        /\ Proves(PathFor(e), NULL_HASH) <=> Lsb(e) \notin Lsbs(entries)

\* rocksdb holds what was written: nothing of a batch whose write failed, nothing
\* that was removed, whatever the version of its key.  As long as no write fails
\* the tree in memory is the same, and load_tree meets no collision.
RestartFindsWrites ==
    /\ {k[2] : k \in db.elements} = written
    /\ ~failed => /\ Running => entries = written
                  /\ Cardinality(db.elements) = Cardinality(Lsbs(written))
====

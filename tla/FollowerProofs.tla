---------------------------- MODULE FollowerProofs ----------------------------
(***************************************************************************)
(* The cache, the store and the tree of a follower stay in step, for every *)
(* chain, every set of foreign blocks and every number of failed writes.   *)
(***************************************************************************)
EXTENDS Follower, Integers, FiniteSetTheorems, TLAPS

-----------------------------------------------------------------------------
(* The smallest of the numbers for which a law fails, instead of induction. *)
LEMMA SmallestNumber ==
  ASSUME NEW C, C \subseteq Nat, C # {}
  PROVE  \E n \in C : \A k \in C : ~ (k < n)
<1>1. PICK n \in C : \A k \in C : ~ (<<k, n>> \in OpToRel(<, Nat))
  BY NatLessThanWellFounded, WFMin, Zenon
<1> QED BY <1>1, Zenon DEF OpToRel

-----------------------------------------------------------------------------
(* The notes after each block of the chain.                                *)

(* f is NotesAfter up to height n.                                         *)
NotesUpTo(f, n) ==
  f = [h \in 0 .. n |-> IF h = 0 THEN {} ELSE (f[h - 1] \ Consumes[h]) \cup Creates[h]]

(* The recursion that defines NotesAfter has a solution up to every        *)
(* height.                                                                 *)
LEMMA NotesExist ==
  ASSUME NEW m \in Nat
  PROVE  \E f : NotesUpTo(f, m)
<1> DEFINE C == {n \in Nat : ~ \E f : NotesUpTo(f, n)}
<1>1. SUFFICES ASSUME C # {} PROVE FALSE
  BY Zenon
<1>2. PICK n \in C : \A k \in C : ~ (k < n)
  <2>1. C \subseteq Nat
    BY Zenon
  <2> HIDE DEF C
  <2> QED BY <1>1, <2>1, SmallestNumber, Zenon
<1>3. CASE n = 0
  <2> DEFINE f == [h \in 0 .. 0 |-> {}]
  <2>1. NotesUpTo(f, 0)
    BY DEF NotesUpTo
  <2> QED BY <1>2, <1>3, <2>1, Zenon
<1>4. CASE n # 0
  <2>1. n - 1 \in Nat /\ n - 1 \notin C
    BY <1>2, <1>4
  <2>2. PICK g : NotesUpTo(g, n - 1)
    BY <2>1, Zenon
  <2> DEFINE f == [h \in 0 .. n |-> IF h = n THEN (g[n - 1] \ Consumes[n]) \cup Creates[n]
                                    ELSE g[h]]
             e(k, h) == IF h = 0 THEN {} ELSE (k[h - 1] \ Consumes[h]) \cup Creates[h]
  <2>3. ASSUME NEW h \in 0 .. n PROVE f[h] = e(f, h)
    <3>1. CASE h = n
      <4>1. f[n - 1] = g[n - 1]
        BY <1>4, <2>1
      <4> QED BY <3>1, <4>1, <1>4, Zenon
    <3>2. CASE h # n
      <4>1. h \in 0 .. n - 1 /\ (h # 0 => h - 1 \in 0 .. n - 1 /\ h - 1 # n)
        BY <3>2, <2>1
      <4>2. g[h] = e(g, h)
        BY <2>2, <4>1, Zenon DEF NotesUpTo
      <4>3. h # 0 => f[h - 1] = g[h - 1]
        BY <4>1, <2>1
      <4> QED BY <3>2, <4>2, <4>3, Zenon
    <3> QED BY <3>1, <3>2, Zenon
  <2>4. f = [h \in 0 .. n |-> e(f, h)]
    <3>1. f = [h \in 0 .. n |-> f[h]]
      BY Zenon
    <3> HIDE DEF f, e
    <3> QED BY <3>1, <2>3, Zenon
  <2>5. NotesUpTo(f, n)
    <3> HIDE DEF f
    <3> QED BY <2>4, Zenon DEF NotesUpTo
  <2> QED BY <1>2, <2>5, Zenon
<1> QED BY <1>3, <1>4, Zenon

(* NotesAfter satisfies the recursion that defines it.                     *)
LEMMA NotesRecursion ==
  /\ NotesAfter[0] = {}
  /\ \A h \in 1 .. ChainHeight :
       NotesAfter[h] = (NotesAfter[h - 1] \ Consumes[h]) \cup Creates[h]
<1>1. ChainHeight \in Nat
  BY FollowerAssumption, Zenon
<1>2. NotesUpTo(NotesAfter, ChainHeight)
  <2>1. \E f : NotesUpTo(f, ChainHeight)
    BY <1>1, NotesExist, Zenon
  <2>2. NotesAfter = CHOOSE f : NotesUpTo(f, ChainHeight)
    BY Zenon DEF NotesAfter, NotesUpTo, Chain
  <2> QED BY <2>1, <2>2, Zenon
<1> HIDE DEF NotesAfter
<1>3. NotesAfter[0] = {}
  BY <1>1, <1>2 DEF NotesUpTo
<1>4. ASSUME NEW h \in 1 .. ChainHeight
      PROVE  NotesAfter[h] = (NotesAfter[h - 1] \ Consumes[h]) \cup Creates[h]
  <2>1. h \in 0 .. ChainHeight /\ h # 0
    BY <1>1
  <2> QED BY <1>2, <2>1, Zenon DEF NotesUpTo
<1> QED BY <1>3, <1>4, Zenon

(* A note in the tree was created by a block up to its height.             *)
LEMMA NotesCreated ==
  ASSUME NEW m \in Chain
  PROVE  \A x \in NotesAfter[m] : \E g \in 1 .. m : x \in Creates[g]
<1> DEFINE P(n) == \A x \in NotesAfter[n] : \E g \in 1 .. n : x \in Creates[g]
           C == {n \in Chain : ~ P(n)}
<1>0. ChainHeight \in Nat /\ Chain \subseteq Nat
  BY FollowerAssumption DEF Chain
<1>1. SUFFICES ASSUME C # {} PROVE FALSE
  BY Zenon
<1>2. PICK n \in C : \A k \in C : ~ (k < n)
  <2>1. C \subseteq Nat
    BY <1>0, Zenon
  <2> HIDE DEF C
  <2> QED BY <1>1, <2>1, SmallestNumber, Zenon
<1>3. n # 0
  BY NotesRecursion, <1>2, Zenon
<1>4. n \in 1 .. ChainHeight /\ n - 1 \in Chain /\ n - 1 < n
  BY <1>0, <1>2, <1>3 DEF Chain
<1>5. P(n - 1)
  BY <1>2, <1>4, Zenon
<1>6. NotesAfter[n] = (NotesAfter[n - 1] \ Consumes[n]) \cup Creates[n]
  BY <1>4, NotesRecursion, Zenon
<1>7. 1 .. n - 1 \subseteq 1 .. n /\ n \in 1 .. n
  BY <1>4, <1>0
<1>8. P(n)
  BY <1>5, <1>6, <1>7, Zenon
<1> QED BY <1>2, <1>8, Zenon

(* What a block creates is not in the tree before it, and what it consumes *)
(* is.                                                                     *)
LEMMA BlockFits ==
  ASSUME NEW b \in 1 .. ChainHeight
  PROVE  /\ Creates[b] \cap NotesAfter[b - 1] = {}
         /\ Consumes[b] \subseteq NotesAfter[b - 1]
         /\ NotesAfter[b] = (NotesAfter[b - 1] \ Consumes[b]) \cup Creates[b]
<1>1. b \in Chain /\ b - 1 \in Chain /\ \A g \in 1 .. b - 1 : g \in Chain /\ g # b
  BY FollowerAssumption DEF Chain
<1>2. Creates[b] \cap NotesAfter[b - 1] = {}
  BY <1>1, NotesCreated, FollowerAssumption
<1>3. Consumes[b] \subseteq NotesAfter[b - 1]
  BY FollowerAssumption, Zenon
<1> QED BY <1>2, <1>3, NotesRecursion, Zenon

(* Its values are sets of notes.                                           *)
LEMMA NotesTyped ==
  ASSUME NEW h \in Chain
  PROVE  NotesAfter[h] \subseteq Note
<1>1. \A g \in 1 .. h : g \in Chain
  BY FollowerAssumption DEF Chain
<1> QED BY <1>1, NotesCreated, FollowerAssumption, Zenon

(* The lookups and the root of validate_block leave one tree on which a    *)
(* block of the chain is valid, the one before it.                         *)
LEMMA OnlyPredecessor ==
  ASSUME NEW b \in 1 .. ChainHeight, NEW tree, Consumes[b] \subseteq tree,
         Creates[b] \cap tree = {}, (tree \ Consumes[b]) \cup Creates[b] = NotesAfter[b]
  PROVE  tree = NotesAfter[b - 1]
<1>1. (tree \ Consumes[b]) \cup Creates[b] = (NotesAfter[b - 1] \ Consumes[b]) \cup Creates[b]
  BY BlockFits, Zenon
<1>2. tree \ Consumes[b] = NotesAfter[b - 1] \ Consumes[b]
  BY <1>1, BlockFits, Zenon
<1> QED BY <1>2, BlockFits

EmptyBlock(h) == Creates[h] = {} /\ Consumes[h] = {}

(* A block after which the tree is the same changed nothing.               *)
LEMMA SameNotes ==
  ASSUME NEW b \in 1 .. ChainHeight, NotesAfter[b] = NotesAfter[b - 1]
  PROVE  EmptyBlock(b)
BY BlockFits DEF EmptyBlock

(* Empty blocks leave the tree as it was.                                  *)
LEMMA EmptyBlocks ==
  ASSUME NEW s \in Chain, NEW t \in Chain, s <= t, \A h \in s + 1 .. t : EmptyBlock(h)
  PROVE  NotesAfter[t] = NotesAfter[s]
<1> DEFINE C == {n \in s .. t : NotesAfter[n] # NotesAfter[s]}
<1>0. ChainHeight \in Nat /\ s \in Nat /\ t \in Nat /\ t <= ChainHeight
  BY FollowerAssumption DEF Chain
<1>1. SUFFICES ASSUME C # {} PROVE FALSE
  BY <1>0
<1>2. PICK n \in C : \A k \in C : ~ (k < n)
  <2>1. C \subseteq Nat
    BY <1>0
  <2> HIDE DEF C
  <2> QED BY <1>1, <2>1, SmallestNumber, Zenon
<1>3. n # s /\ n \in s .. t
  BY <1>2, Zenon
<1>4. n \in 1 .. ChainHeight /\ n - 1 \in s .. t /\ n - 1 < n /\ n \in s + 1 .. t
  BY <1>0, <1>3
<1>5. NotesAfter[n - 1] = NotesAfter[s]
  BY <1>2, <1>4, Zenon
<1>6. NotesAfter[n] = NotesAfter[n - 1]
  <2>1. NotesAfter[n] = (NotesAfter[n - 1] \ Consumes[n]) \cup Creates[n]
    BY <1>4, BlockFits, Zenon
  <2>2. Creates[n] = {} /\ Consumes[n] = {}
    BY <1>4, Zenon DEF EmptyBlock
  <2> QED BY <2>1, <2>2, Zenon
<1> QED BY <1>2, <1>5, <1>6, Zenon

-----------------------------------------------------------------------------
(* The cache.                                                              *)

(* A nonempty set of numbers up to n has a greatest one.                   *)
LEMMA GreatestNumber ==
  ASSUME NEW n \in Nat, NEW D, D \subseteq 0 .. n, D # {}
  PROVE  \E h \in D : \A g \in D : g <= h
<1> DEFINE C == {n - h : h \in D}
<1>1. C \subseteq Nat /\ C # {}
  <2>1. \A h \in D : h \in Nat /\ n - h \in Nat
    OBVIOUS
  <2>2. C \subseteq Nat
    BY <2>1, Zenon
  <2> QED BY <2>2, Zenon
<1>2. PICK d \in C : \A k \in C : ~ (k < d)
  <2> HIDE DEF C
  <2> QED BY <1>1, SmallestNumber, Zenon
<1>3. PICK h \in D : d = n - h
  BY <1>2, Zenon
<1>4. ASSUME NEW g \in D PROVE g <= h
  <2>1. n - g \in C
    BY Zenon
  <2>2. ~ (n - g < n - h)
    BY <1>2, <1>3, <2>1, Zenon
  <2>3. g \in Nat /\ h \in Nat
    OBVIOUS
  <2> QED BY <2>2, <2>3
<1> QED BY <1>4, Zenon

(* The entries of the index are blocks of their height.                    *)
Indexed(c) ==
  /\ c = [height |-> c.height, maxHeight |-> c.maxHeight, blocks |-> c.blocks, index |-> c.index]
  /\ c.height \in Chain /\ c.maxHeight \in Nat /\ c.blocks \subseteq Block
  /\ \A h \in DOMAIN c.index : h \in Nat /\ c.index[h] \in Block /\ HeightOf[c.index[h]] = h

(* Heights at which a foreign block may take the place of the chain's.     *)
Doubled == {HeightOf[b] : b \in Stray}

(* The index is of cached blocks, from the confirmed one to the greatest   *)
(* height seen, and the blocks of the chain that the index has lost are    *)
(* those a foreign block replaced.                                         *)
CacheOK(c) ==
  /\ Indexed(c)
  /\ \A h \in DOMAIN c.index : c.index[h] \in c.blocks /\ c.height <= h /\ h <= c.maxHeight
  /\ c.height \in DOMAIN c.index
  /\ IsFiniteSet(c.blocks) /\ Cardinality(c.blocks) <= MaxCacheSize
  /\ \A g \in Chain \cap c.blocks : g \in Doubled \/ (g \in DOMAIN c.index /\ c.index[g] = g)

(* A cache made for a confirmed block is in order (BlockCache::new).       *)
LEMMA NewCacheOK ==
  ASSUME NEW b \in Chain, NEW t, t = NewCache(b)
  PROVE  CacheOK(t) /\ t.height = b /\ t.maxHeight = b /\ b + 1 \notin DOMAIN t.index
<1>1. b \in Nat /\ b \in Block /\ HeightOf[b] = b
  BY FollowerAssumption DEF Chain
<1>2. t = [height |-> b, maxHeight |-> b, blocks |-> {b}, index |-> [h \in {b} |-> b]]
  BY <1>1, Zenon DEF NewCache
<1>3. IsFiniteSet({b}) /\ Cardinality({b}) <= MaxCacheSize
  <2>1. IsFiniteSet({b}) /\ Cardinality({b}) = 1
    BY FS_Singleton, Zenon
  <2>2. 1 <= MaxCacheSize
    BY CacheAssumption
  <2> QED BY <2>1, <2>2, Zenon
<1>4. /\ t.height = b /\ t.maxHeight = b /\ t.blocks = {b}
      /\ DOMAIN t.index = {b} /\ t.index[b] = b
  BY <1>2
<1>5. Indexed(t)
  BY <1>1, <1>2, <1>4, Zenon DEF Indexed
<1>6. CacheOK(t)
  BY <1>1, <1>3, <1>4, <1>5 DEF CacheOK
<1> QED BY <1>1, <1>4, <1>6

(* The greatest height of the index.                                       *)
LEMMA LastIndexedIs ==
  ASSUME NEW c, CacheOK(c)
  PROVE  /\ LastIndexed(c) \in DOMAIN c.index
         /\ \A h \in DOMAIN c.index : h <= LastIndexed(c)
<1>1. c.maxHeight \in Nat /\ DOMAIN c.index \subseteq 0 .. c.maxHeight /\ DOMAIN c.index # {}
  BY DEF CacheOK, Indexed
<1>2. \E h \in DOMAIN c.index : \A g \in DOMAIN c.index : g <= h
  BY <1>1, GreatestNumber, Zenon
<1> QED BY <1>1, <1>2, Zenon DEF LastIndexed

(* BlockCache::remove.                                                     *)
LEMMA RemovedIs ==
  ASSUME NEW c, Indexed(c), NEW b, NEW t, t = Removed(c, b)
  PROVE  /\ Indexed(t)
         /\ t.height = c.height /\ t.maxHeight = c.maxHeight
         /\ t.blocks = c.blocks \ {b}
         /\ b \notin c.blocks => t = c
         /\ b \in c.blocks => DOMAIN t.index = DOMAIN c.index \ {HeightOf[b]}
         /\ \A h \in DOMAIN t.index : h \in DOMAIN c.index /\ t.index[h] = c.index[h]
<1>1. CASE b \in c.blocks
  <2>1. t = [height |-> c.height, maxHeight |-> c.maxHeight, blocks |-> c.blocks \ {b},
             index |-> [h \in DOMAIN c.index \ {HeightOf[b]} |-> c.index[h]]]
    BY <1>1, Zenon DEF Removed, Drop, Indexed
  <2>2. /\ t.height = c.height /\ t.maxHeight = c.maxHeight /\ t.blocks = c.blocks \ {b}
        /\ DOMAIN t.index = DOMAIN c.index \ {HeightOf[b]}
        /\ \A h \in DOMAIN t.index : h \in DOMAIN c.index /\ t.index[h] = c.index[h]
    BY <2>1
  <2>3. Indexed(t)
    BY <2>1, <2>2, Zenon DEF Indexed
  <2> QED BY <1>1, <2>2, <2>3, Zenon
<1>2. CASE b \notin c.blocks
  BY <1>2, Zenon DEF Removed
<1> QED BY <1>1, <1>2, Zenon

(* It keeps the cache in order unless the block has the confirmed height.  *)
LEMMA RemovedOK ==
  ASSUME NEW c, CacheOK(c), NEW b \in Block, HeightOf[b] # c.height, NEW t, t = Removed(c, b)
  PROVE  /\ CacheOK(t)
         /\ b \in c.blocks => Cardinality(t.blocks) = Cardinality(c.blocks) - 1
<1>1. CASE b \notin c.blocks
  BY <1>1, Zenon DEF Removed
<1>2. CASE b \in c.blocks
  <2>1. /\ Indexed(t)
        /\ t.height = c.height /\ t.maxHeight = c.maxHeight
        /\ t.blocks = c.blocks \ {b}
        /\ DOMAIN t.index = DOMAIN c.index \ {HeightOf[b]}
        /\ \A h \in DOMAIN t.index : h \in DOMAIN c.index /\ t.index[h] = c.index[h]
    BY <1>2, RemovedIs DEF CacheOK
  <2>2. /\ IsFiniteSet(t.blocks) /\ Cardinality(t.blocks) = Cardinality(c.blocks) - 1
        /\ Cardinality(t.blocks) <= MaxCacheSize
    BY <1>2, <2>1, FS_RemoveElement, FS_CardinalityType, CacheAssumption DEF CacheOK
  <2>3. \A h \in DOMAIN t.index : t.index[h] # b
    BY <2>1, Zenon DEF CacheOK, Indexed
  <2>4. \A h \in DOMAIN t.index : t.index[h] \in t.blocks /\ t.height <= h /\ h <= t.maxHeight
    BY <2>1, <2>3, Zenon DEF CacheOK
  <2>5. t.height \in DOMAIN t.index
    BY <2>1, Zenon DEF CacheOK
  <2>6. ASSUME NEW g \in Chain \cap t.blocks, g \notin Doubled
        PROVE  g \in DOMAIN t.index /\ t.index[g] = g
    <3>1. g \in Chain \cap c.blocks /\ g # b
      BY <2>1, <2>6, Zenon
    <3>2. g \in DOMAIN c.index /\ c.index[g] = g
      BY <3>1, <2>6, Zenon DEF CacheOK
    <3>3. g # HeightOf[b]
      BY <3>1, <2>6, FollowerAssumption, Zenon DEF Doubled
    <3> QED BY <2>1, <3>2, <3>3, Zenon
  <2> QED BY <2>1, <2>2, <2>4, <2>5, <2>6, Zenon DEF CacheOK
<1> QED BY <1>1, <1>2, Zenon

(* A union has at most as many elements as its parts together.             *)
LEMMA UnionBound ==
  ASSUME NEW S, NEW T, IsFiniteSet(S), IsFiniteSet(T)
  PROVE  /\ IsFiniteSet(S \cup T) /\ Cardinality(S \cup T) \in Nat
         /\ Cardinality(S \cup T) <= Cardinality(S) + Cardinality(T)
<1>1. /\ IsFiniteSet(S \cup T)
      /\ Cardinality(S \cup T) = Cardinality(S) + Cardinality(T) - Cardinality(S \cap T)
  BY FS_Union, Zenon
<1>2. IsFiniteSet(S \cap T)
  BY FS_Subset, Zenon
<1>3. /\ Cardinality(S) \in Nat /\ Cardinality(T) \in Nat /\ Cardinality(S \cup T) \in Nat
      /\ Cardinality(S \cap T) \in Nat
  BY <1>1, <1>2, FS_CardinalityType, Zenon
<1> QED BY <1>1, <1>3

(* A full cache has more than the confirmed block and the next one in its  *)
(* index: the others it holds are foreign, or were replaced by such.       *)
LEMMA RoomLeft ==
  ASSUME NEW c, CacheOK(c), AtCapacity(c)
  PROVE  LastIndexed(c) > c.height + 1
<1> DEFINE s == Cardinality(Stray)
           next == {c.height, c.height + 1}
<1>0. c.height \in Nat /\ LastIndexed(c) \in Nat /\ MaxCacheSize \in Nat
  BY LastIndexedIs, FollowerAssumption, CacheAssumption, Zenon DEF CacheOK, Indexed, Chain
<1>1. SUFFICES ASSUME LastIndexed(c) <= c.height + 1 PROVE FALSE
  BY <1>0
<1>2. DOMAIN c.index \subseteq next
  <2>1. ASSUME NEW h \in DOMAIN c.index PROVE h \in next
    <3>1. h \in Nat /\ c.height <= h /\ h <= LastIndexed(c)
      BY LastIndexedIs, Zenon DEF CacheOK, Indexed
    <3> QED BY <3>1, <1>0, <1>1
  <2> QED BY <2>1, Zenon
<1>3. IsFiniteSet(Stray) /\ s \in Nat /\ MaxCacheSize > 2 * s + 2
  BY RoomAssumption, FS_CardinalityType, Zenon
<1>4. IsFiniteSet(Doubled) /\ Cardinality(Doubled) <= s /\ Cardinality(Doubled) \in Nat
  <2> DEFINE f == [b \in Stray |-> HeightOf[b]]
  <2>1. f \in Surjection(Stray, Doubled)
    BY Zenon DEF Surjection, Doubled
  <2>2. IsFiniteSet(Doubled) /\ Cardinality(Doubled) <= s
    BY <1>3, <2>1, FS_Surjection, Zenon
  <2> QED BY <2>2, FS_CardinalityType, Zenon
<1>5. IsFiniteSet(next) /\ Cardinality(next) <= 2 /\ Cardinality(next) \in Nat
  <2>1. next = {c.height} \cup {c.height + 1}
    BY Zenon
  <2>2. /\ IsFiniteSet({c.height}) /\ Cardinality({c.height}) = 1
        /\ IsFiniteSet({c.height + 1}) /\ Cardinality({c.height + 1}) = 1
    BY FS_Singleton, Zenon
  <2> HIDE DEF next
  <2> QED BY <2>1, <2>2, UnionBound
<1>6. c.blocks \subseteq (Stray \cup Doubled) \cup next
  BY <1>2, FollowerAssumption, Zenon DEF CacheOK, Indexed
<1>7. /\ IsFiniteSet(Stray \cup Doubled)
      /\ Cardinality(Stray \cup Doubled) <= 2 * s
      /\ Cardinality(Stray \cup Doubled) \in Nat
  BY <1>3, <1>4, UnionBound
<1>8. /\ IsFiniteSet((Stray \cup Doubled) \cup next)
      /\ Cardinality((Stray \cup Doubled) \cup next) <= 2 * s + 2
      /\ Cardinality((Stray \cup Doubled) \cup next) \in Nat
  BY <1>3, <1>5, <1>7, UnionBound
<1>9. Cardinality(c.blocks) <= 2 * s + 2
  BY <1>6, <1>8, <1>3, FS_Subset, FS_CardinalityType
<1> QED BY <1>9, <1>3, <1>0, FS_CardinalityType DEF AtCapacity, CacheOK

(* BlockCache::insert, where the block is put in the index.                *)
LEMMA PutIs ==
  ASSUME NEW c, Indexed(c), NEW b \in Block, NEW t, t = Put(c, b)
  PROVE  /\ Indexed(t)
         /\ t.height = c.height /\ t.maxHeight = c.maxHeight
         /\ t.blocks = c.blocks \cup {b}
         /\ DOMAIN t.index = DOMAIN c.index \cup {HeightOf[b]}
         /\ t.index[HeightOf[b]] = b
         /\ \A h \in DOMAIN c.index : h # HeightOf[b] => t.index[h] = c.index[h]
<1>1. t = [height |-> c.height, maxHeight |-> c.maxHeight, blocks |-> c.blocks \cup {b},
           index |-> [h \in DOMAIN c.index \cup {HeightOf[b]} |->
                        IF h = HeightOf[b] THEN b ELSE c.index[h]]]
  BY Zenon DEF Put, Indexed
<1>2. /\ t.height = c.height /\ t.maxHeight = c.maxHeight
      /\ t.blocks = c.blocks \cup {b}
      /\ DOMAIN t.index = DOMAIN c.index \cup {HeightOf[b]}
      /\ t.index[HeightOf[b]] = b
      /\ \A h \in DOMAIN c.index : h # HeightOf[b] => t.index[h] = c.index[h]
  BY <1>1
<1>3. HeightOf[b] \in Nat
  BY CacheAssumption, Zenon
<1>4. \A h \in DOMAIN t.index : h \in Nat /\ t.index[h] \in Block /\ HeightOf[t.index[h]] = h
  BY <1>2, <1>3 DEF Indexed
<1>5. Indexed(t)
  BY <1>1, <1>2, <1>4, Zenon DEF Indexed
<1> QED BY <1>2, <1>5, Zenon

(* Putting a block of a height that is due in a cache with room keeps it   *)
(* in order.                                                               *)
LEMMA PutOK ==
  ASSUME NEW c, CacheOK(c), NEW b \in Block, NEW t, t = Put(c, b),
         Cardinality(c.blocks) < MaxCacheSize,
         c.height <= HeightOf[b], HeightOf[b] <= c.maxHeight
  PROVE  CacheOK(t)
<1>1. /\ Indexed(t)
      /\ t.height = c.height /\ t.maxHeight = c.maxHeight
      /\ t.blocks = c.blocks \cup {b}
      /\ DOMAIN t.index = DOMAIN c.index \cup {HeightOf[b]}
      /\ t.index[HeightOf[b]] = b
      /\ \A h \in DOMAIN c.index : h # HeightOf[b] => t.index[h] = c.index[h]
  BY PutIs DEF CacheOK
<1>2. IsFiniteSet(t.blocks) /\ Cardinality(t.blocks) <= MaxCacheSize
  <2>1. IsFiniteSet(c.blocks) /\ Cardinality(c.blocks) \in Nat
    BY FS_CardinalityType, Zenon DEF CacheOK
  <2>2. /\ IsFiniteSet(c.blocks \cup {b})
        /\ Cardinality(c.blocks \cup {b}) =
             IF b \in c.blocks THEN Cardinality(c.blocks) ELSE Cardinality(c.blocks) + 1
    BY <2>1, FS_AddElement, Zenon
  <2> QED BY <1>1, <2>1, <2>2, CacheAssumption
<1>3. \A h \in DOMAIN t.index : t.index[h] \in t.blocks /\ t.height <= h /\ h <= t.maxHeight
  BY <1>1, Zenon DEF CacheOK
<1>4. t.height \in DOMAIN t.index
  BY <1>1, Zenon DEF CacheOK
<1>5. ASSUME NEW g \in Chain \cap t.blocks, g \notin Doubled
      PROVE  g \in DOMAIN t.index /\ t.index[g] = g
  <2>1. CASE g = b
    BY <1>1, <2>1, FollowerAssumption, Zenon
  <2>2. CASE g # b
    <3>1. g \in DOMAIN c.index /\ c.index[g] = g
      BY <1>1, <1>5, <2>2, Zenon DEF CacheOK
    <3>2. g # HeightOf[b]
      BY <1>5, <2>2, FollowerAssumption, Zenon DEF Doubled
    <3> QED BY <1>1, <3>1, <3>2, Zenon
  <2> QED BY <2>1, <2>2, Zenon
<1> QED BY <1>1, <1>2, <1>3, <1>4, <1>5, Zenon DEF CacheOK

(* A greater height seen.                                                  *)
Seen(c, b) == [c EXCEPT !.maxHeight = IF HeightOf[b] > @ THEN HeightOf[b] ELSE @]

(* max_height grows and nothing else changes.                              *)
LEMMA SeenIs ==
  ASSUME NEW c, Indexed(c), NEW b \in Block, NEW t, t = Seen(c, b)
  PROVE  /\ Indexed(t)
         /\ CacheOK(c) => CacheOK(t)
         /\ t.height = c.height /\ t.blocks = c.blocks /\ t.index = c.index
         /\ t.maxHeight >= c.maxHeight /\ t.maxHeight >= HeightOf[b]
         /\ LastIndexed(t) = LastIndexed(c)
<1> DEFINE m == IF HeightOf[b] > c.maxHeight THEN HeightOf[b] ELSE c.maxHeight
<1>1. t = [height |-> c.height, maxHeight |-> m, blocks |-> c.blocks, index |-> c.index]
  BY Zenon DEF Seen, Indexed
<1>2. HeightOf[b] \in Nat /\ c.maxHeight \in Nat
  BY CacheAssumption, Zenon DEF Indexed
<1>3. m \in Nat /\ m >= c.maxHeight /\ m >= HeightOf[b]
  BY <1>2
<1> HIDE DEF m
<1>4. t.height = c.height /\ t.maxHeight = m /\ t.blocks = c.blocks /\ t.index = c.index
  BY <1>1
<1>5. Indexed(t)
  BY <1>1, <1>3, <1>4, Zenon DEF Indexed
<1>6. ASSUME CacheOK(c) PROVE CacheOK(t)
  <2>1. \A h \in DOMAIN t.index : t.index[h] \in t.blocks /\ t.height <= h /\ h <= t.maxHeight
    BY <1>2, <1>3, <1>4, <1>6 DEF CacheOK, Indexed
  <2> QED BY <1>4, <1>5, <1>6, <2>1, Zenon DEF CacheOK
<1>7. LastIndexed(t) = LastIndexed(c)
  BY <1>4 DEF LastIndexed
<1> QED BY <1>3, <1>4, <1>5, <1>6, <1>7, Zenon

(* The three ways of BlockCache::insert: too low, no room, inserted.       *)
LEMMA InsertedIs ==
  ASSUME NEW c, NEW b
  PROVE  Inserted(c, b) =
           IF c.height > HeightOf[b] THEN c
           ELSE IF AtCapacity(c) /\ HeightOf[b] > LastIndexed(c) THEN Seen(c, b)
           ELSE Put(WithRoom(Seen(c, b)), b)
BY Zenon DEF Inserted, Seen

(* BlockCache::insert keeps the index right ...                            *)
LEMMA InsertedIndexed ==
  ASSUME NEW c, Indexed(c), NEW b \in Block, NEW t, t = Inserted(c, b)
  PROVE  Indexed(t) /\ t.height = c.height
<1>1. Indexed(Seen(c, b)) /\ Seen(c, b).height = c.height
  BY SeenIs, Zenon
<1> DEFINE r == WithRoom(Seen(c, b))
<1>2. Indexed(r) /\ r.height = c.height
  BY <1>1, RemovedIs DEF WithRoom
<1> HIDE DEF r
<1>3. Indexed(Put(r, b)) /\ Put(r, b).height = c.height
  BY <1>2, PutIs
<1> QED BY <1>1, <1>3, InsertedIs, Zenon DEF r

(* ... and the cache in order; neither the confirmed block nor the one     *)
(* that the tick worker validates makes room for another.                  *)
LEMMA InsertedOK ==
  ASSUME NEW c, CacheOK(c), NEW b \in Block, NEW t, t = Inserted(c, b)
  PROVE  /\ CacheOK(t) /\ t.height = c.height /\ t.maxHeight >= c.maxHeight
         /\ c.height + 1 \in DOMAIN c.index => c.height + 1 \in DOMAIN t.index
<1> DEFINE s == Seen(c, b)
           r == WithRoom(s)
<1>0. c.maxHeight \in Nat /\ c.height \in Nat /\ HeightOf[b] \in Nat
  BY FollowerAssumption, CacheAssumption, Zenon DEF CacheOK, Indexed, Chain
<1>1. /\ CacheOK(s) /\ s.height = c.height /\ s.blocks = c.blocks /\ s.index = c.index
      /\ s.maxHeight >= c.maxHeight /\ s.maxHeight >= HeightOf[b]
      /\ LastIndexed(s) = LastIndexed(c)
  BY SeenIs DEF CacheOK
<1> HIDE DEF s
<1>2. /\ CacheOK(r) /\ r.height = c.height /\ r.maxHeight = s.maxHeight
      /\ Cardinality(r.blocks) < MaxCacheSize
      /\ c.height + 1 \in DOMAIN c.index => c.height + 1 \in DOMAIN r.index
  <2>1. CASE AtCapacity(s)
    <3> DEFINE x == s.index[LastIndexed(s)]
    <3>1. LastIndexed(s) \in DOMAIN s.index /\ LastIndexed(s) > s.height + 1
      BY <1>1, <2>1, LastIndexedIs, RoomLeft, Zenon
    <3>2. x \in Block /\ x \in s.blocks /\ HeightOf[x] = LastIndexed(s) /\ s.height \in Nat
          /\ HeightOf[x] \in Nat
      BY <1>0, <1>1, <3>1 DEF CacheOK, Indexed
    <3>3. r = Removed(s, x)
      BY <2>1, <3>1, Zenon DEF WithRoom
    <3> HIDE DEF x, r
    <3>4. HeightOf[x] # s.height /\ HeightOf[x] # s.height + 1
      BY <3>1, <3>2
    <3>5. CacheOK(r) /\ Cardinality(r.blocks) = Cardinality(s.blocks) - 1
      BY <1>1, <3>2, <3>3, <3>4, RemovedOK, Zenon
    <3>6. /\ r.height = s.height /\ r.maxHeight = s.maxHeight
          /\ DOMAIN r.index = DOMAIN s.index \ {HeightOf[x]}
      BY <1>1, <3>2, <3>3, RemovedIs DEF CacheOK
    <3>7. Cardinality(s.blocks) \in Nat /\ Cardinality(s.blocks) <= MaxCacheSize
      BY <1>1, FS_CardinalityType, Zenon DEF CacheOK
    <3>8. Cardinality(r.blocks) < MaxCacheSize
      BY <3>5, <3>7, CacheAssumption
    <3> QED BY <1>1, <3>4, <3>5, <3>6, <3>8, Zenon
  <2>2. CASE ~ AtCapacity(s)
    <3>1. r = s
      BY <2>2, Zenon DEF WithRoom
    <3>2. Cardinality(s.blocks) \in Nat
      BY <1>1, FS_CardinalityType, Zenon DEF CacheOK
    <3> HIDE DEF r
    <3> QED BY <1>1, <2>2, <3>1, <3>2, CacheAssumption DEF AtCapacity
  <2> QED BY <2>1, <2>2, Zenon
<1> HIDE DEF r
<1>3. CASE c.height > HeightOf[b]
  BY <1>0, <1>3, InsertedIs
<1>4. CASE ~ (c.height > HeightOf[b]) /\ AtCapacity(c) /\ HeightOf[b] > LastIndexed(c)
  BY <1>0, <1>1, <1>4, InsertedIs, Zenon DEF s
<1>5. CASE ~ (c.height > HeightOf[b]) /\ ~ (AtCapacity(c) /\ HeightOf[b] > LastIndexed(c))
  <2>1. t = Put(r, b)
    BY <1>5, InsertedIs, Zenon DEF s, r
  <2>2. r.height <= HeightOf[b] /\ HeightOf[b] <= r.maxHeight
    <3>1. s.maxHeight \in Nat
      BY <1>1, Zenon DEF CacheOK, Indexed
    <3> QED BY <1>0, <1>1, <1>2, <1>5, <3>1
  <2>3. CacheOK(t)
    BY <1>2, <2>1, <2>2, PutOK, Zenon
  <2>4. /\ t.height = r.height /\ t.maxHeight = r.maxHeight
        /\ DOMAIN t.index = DOMAIN r.index \cup {HeightOf[b]}
    BY <1>2, <2>1, PutIs DEF CacheOK
  <2> QED BY <1>1, <1>2, <2>3, <2>4, Zenon
<1> QED BY <1>3, <1>4, <1>5, Zenon

(* BlockCache::confirm.                                                    *)
LEMMA ConfirmedIs ==
  ASSUME NEW c, Indexed(c), NEW n \in Chain, NEW t, t = Confirmed(c, n)
  PROVE  /\ Indexed(t)
         /\ t.height = n /\ t.maxHeight = c.maxHeight
         /\ t.blocks = c.blocks \ {c.index[h] : h \in {g \in DOMAIN c.index : g < n}}
         /\ DOMAIN t.index = {h \in DOMAIN c.index : h >= n}
         /\ \A h \in DOMAIN t.index : t.index[h] = c.index[h]
<1> DEFINE below == {h \in DOMAIN c.index : h < n}
<1>1. t = [height |-> n, maxHeight |-> c.maxHeight,
           blocks |-> c.blocks \ {c.index[h] : h \in below},
           index |-> [h \in DOMAIN c.index \ below |-> c.index[h]]]
  BY Zenon DEF Confirmed, Indexed, Drop
<1>2. n \in Nat /\ \A h \in DOMAIN c.index : h \in Nat
  BY FollowerAssumption DEF Chain, Indexed
<1>3. DOMAIN c.index \ below = {h \in DOMAIN c.index : h >= n}
  BY <1>2
<1>4. /\ t.height = n /\ t.maxHeight = c.maxHeight
      /\ t.blocks = c.blocks \ {c.index[h] : h \in below}
      /\ DOMAIN t.index = {h \in DOMAIN c.index : h >= n}
      /\ \A h \in DOMAIN t.index : t.index[h] = c.index[h]
  BY <1>1, <1>3
<1>5. Indexed(t)
  BY <1>1, <1>4, Zenon DEF Indexed
<1> QED BY <1>4, <1>5, Zenon

(* Confirming the next block keeps the cache in order                      *)
(* (BlockCache::confirm).                                                  *)
LEMMA ConfirmedOK ==
  ASSUME NEW c, CacheOK(c), NEW n \in Chain, n = c.height + 1, n \in DOMAIN c.index,
         NEW t, t = Confirmed(c, n)
  PROVE  CacheOK(t) /\ t.height = n /\ t.maxHeight = c.maxHeight
<1> DEFINE below == {g \in DOMAIN c.index : g < n}
<1>1. /\ Indexed(t)
      /\ t.height = n /\ t.maxHeight = c.maxHeight
      /\ t.blocks = c.blocks \ {c.index[h] : h \in below}
      /\ DOMAIN t.index = {h \in DOMAIN c.index : h >= n}
      /\ \A h \in DOMAIN t.index : t.index[h] = c.index[h]
  BY ConfirmedIs DEF CacheOK
<1>2. n \in Nat /\ \A h \in DOMAIN c.index : h \in Nat /\ HeightOf[c.index[h]] = h
  BY FollowerAssumption, Zenon DEF CacheOK, Indexed, Chain
<1>3. IsFiniteSet(t.blocks) /\ Cardinality(t.blocks) <= MaxCacheSize
  <2>1. /\ IsFiniteSet(t.blocks) /\ Cardinality(t.blocks) <= Cardinality(c.blocks)
        /\ Cardinality(t.blocks) \in Nat /\ Cardinality(c.blocks) \in Nat
    BY <1>1, FS_Subset, FS_CardinalityType, Zenon DEF CacheOK
  <2> QED BY <2>1, CacheAssumption DEF CacheOK
<1>4. \A h \in DOMAIN t.index : t.index[h] \notin {c.index[g] : g \in below}
  BY <1>1, <1>2
<1>5. \A h \in DOMAIN t.index : t.index[h] \in t.blocks /\ t.height <= h /\ h <= t.maxHeight
  BY <1>1, <1>2, <1>4, Zenon DEF CacheOK
<1>6. t.height \in DOMAIN t.index
  BY <1>1, <1>2
<1>7. ASSUME NEW g \in Chain \cap t.blocks, g \notin Doubled
      PROVE  g \in DOMAIN t.index /\ t.index[g] = g
  <2>1. g \in DOMAIN c.index /\ c.index[g] = g
    BY <1>1, <1>7, Zenon DEF CacheOK
  <2>2. g \notin below
    BY <1>1, <1>7, <2>1, Zenon
  <2> QED BY <1>1, <1>2, <2>1, <2>2
<1> QED BY <1>1, <1>3, <1>5, <1>6, <1>7, Zenon DEF CacheOK

(* A node that is in sync and has no next block has seen no later height.  *)
LEMMA CaughtUp ==
  ASSUME NEW c, CacheOK(c), ~ IsOutOfSync(c), NextCommit(c) = {}
  PROVE  c.maxHeight = c.height
<1>1. c.maxHeight \in Nat /\ c.height \in Nat /\ c.height <= c.maxHeight
  BY FollowerAssumption, Zenon DEF CacheOK, Indexed, Chain
<1>2. c.height + 1 \notin DOMAIN c.index
  BY Zenon DEF NextCommit
<1>3. ~ (c.height + 1 \in c.height + 1 .. c.maxHeight)
  BY <1>2, Zenon DEF IsOutOfSync
<1> QED BY <1>1, <1>3

-----------------------------------------------------------------------------
(* The inductive invariant of a follower.                                  *)

(* A block that the tree is ready for.                                     *)
Fits(b) ==
  /\ b \in 1 .. ChainHeight
  /\ Consumes[b] \subseteq nodeTree
  /\ Creates[b] \cap nodeTree = {}
  /\ Applied(b) = NotesAfter[b]

(* The tick worker's block is the next one, and still indexed, until it is *)
(* confirmed.  What was validated stays so.                                *)
TickOK ==
  /\ tickStep \in {"validating", "removing", "confirming"} =>
       HeightOf[work] = cache.height + 1 /\ cache.height + 1 \in DOMAIN cache.index
  /\ tickStep \in {"confirming", "storing", "applying"} => Fits(work)
  /\ tickStep \in {"storing", "applying"} => work = cache.height

(* From the last stored block to the one before the confirmed height all   *)
(* blocks are empty, and so are the holes below.                           *)
HeightsOK ==
  /\ nodeStore \subseteq 1 .. ChainHeight
  /\ HolesAreEmptyBlocks
  /\ NodeUp =>
       /\ Stored <= cache.height
       /\ tickStep = "storing" => Stored < cache.height
       /\ tickStep = "applying" => Stored = cache.height
       /\ \A h \in Stored + 1 .. cache.height - 1 : EmptyBlock(h)

TreeOK ==
  \/ nodeTree = NotesAfter[Stored]
  \/ /\ tickStep \in {"applying", "down", "panicked"}
     /\ nodeStore # {}
     /\ nodeTree = NotesAfter[Stored - 1]

NoFailureOK ==
  failures = 0 =>
    /\ nodeStore = 1 .. Stored
    /\ NodeUp => cache.height = IF tickStep = "storing" THEN Stored + 1 ELSE Stored

StateOK ==
  /\ tickStep \in FollowerSteps \ {"dead"}
  /\ work \in Block
  /\ wake \in BOOLEAN
  /\ notifying \in BOOLEAN
  /\ failures \in 0 .. MaxFailures

FollowerInv == StateOK /\ CacheOK(cache) /\ TickOK /\ HeightsOK /\ TreeOK /\ NoFailureOK

(* A look into the cache that found nothing is still right, or the worker  *)
(* is going to look again.                                                 *)
WakeInv ==
  failures = 0 /\ ~ wake /\ ~ notifying =>
    /\ tickStep \in {"checking", "paused"} => NextCommit(cache) = {}
    /\ tickStep = "paused" => cache.maxHeight = cache.height

-----------------------------------------------------------------------------
(* The steps of a follower.                                                *)

(* The greatest height of a store.                                         *)
LEMMA TopOf ==
  ASSUME NEW S, S \subseteq 1 .. ChainHeight, S # {}, NEW m,
         m = (CHOOSE h \in S : \A g \in S : g <= h)
  PROVE  m \in S /\ m \in 1 .. ChainHeight /\ \A g \in S : g <= m
<1>1. ChainHeight \in Nat /\ S \subseteq 0 .. ChainHeight
  BY FollowerAssumption
<1>2. \E h \in S : \A g \in S : g <= h
  BY <1>1, GreatestNumber, Zenon
<1> QED BY <1>2, Zenon

(* Stored is the greatest height in the block store, 0 for an empty one.   *)
LEMMA StoredIs ==
  ASSUME nodeStore \subseteq 1 .. ChainHeight
  PROVE  /\ Stored \in Chain /\ Stored \in Nat
         /\ nodeStore # {} => Stored \in nodeStore /\ Stored \in 1 .. ChainHeight
         /\ \A g \in nodeStore : g <= Stored
<1>1. CASE nodeStore = {}
  BY <1>1, FollowerAssumption DEF Stored, Chain
<1>2. CASE nodeStore # {}
  <2>1. MaxStored \in nodeStore /\ MaxStored \in 1 .. ChainHeight /\ \A g \in nodeStore : g <= MaxStored
    BY <1>2, TopOf, Zenon DEF MaxStored
  <2> QED BY <1>2, <2>1, FollowerAssumption DEF Stored, Chain
<1> QED BY <1>1, <1>2, Zenon

(* It changes only with the store.                                         *)
LEMMA SameStored ==
  ASSUME UNCHANGED nodeStore
  PROVE  Stored' = Stored
BY DEF Stored, MaxStored

(* The first state is in order.                                            *)
LEMMA FollowerInitInv == FollowerInit => FollowerInv /\ WakeInv
<1> SUFFICES ASSUME FollowerInit PROVE FollowerInv /\ WakeInv
  BY Zenon
<1>1. ChainHeight \in Nat /\ 0 \in Chain /\ 0 \in Block /\ MaxFailures \in Nat
  BY FollowerAssumption DEF Chain
<1>2. CacheOK(cache) /\ cache.height = 0 /\ cache.maxHeight = 0 /\ 1 \notin DOMAIN cache.index
  BY <1>1, NewCacheOK DEF FollowerInit
<1>3. Stored = 0
  BY Zenon DEF FollowerInit, Stored
<1>4. StateOK /\ TickOK /\ WakeInv
  <2>1. StateOK
    <3>1. failures \in 0 .. MaxFailures /\ work \in Block
      BY <1>1 DEF FollowerInit
    <3>2. tickStep \in FollowerSteps \ {"dead"} /\ wake \in BOOLEAN /\ notifying \in BOOLEAN
      BY Zenon DEF FollowerInit, FollowerSteps
    <3> QED BY <3>1, <3>2, Zenon DEF StateOK
  <2>2. tickStep = "looking"
    BY Zenon DEF FollowerInit
  <2> QED BY <2>1, <2>2, Zenon DEF TickOK, WakeInv
<1>5. HeightsOK
  BY <1>2, <1>3 DEF FollowerInit, HeightsOK, HolesAreEmptyBlocks
<1>6. TreeOK
  BY <1>3, Zenon DEF FollowerInit, TreeOK
<1>7. NoFailureOK
  BY <1>2, <1>3 DEF FollowerInit, NoFailureOK
<1> QED BY <1>2, <1>4, <1>5, <1>6, <1>7, Zenon DEF FollowerInv

(* Steps that leave the cache and the databases alone.                     *)
LEMMA IdleStep ==
  ASSUME FollowerInv,
         Notify \/ TakeNext \/ NoNext \/ Validate \/ Pause \/ SignalOutOfSync \/ Wake \/ Retry
  PROVE  FollowerInv'
<1>1. cache' = cache /\ nodeStore' = nodeStore /\ nodeTree' = nodeTree /\ failures' = failures
  BY Zenon DEF Notify, TakeNext, NoNext, Validate, Pause, SignalOutOfSync, Wake, Retry
<1>2. NodeUp /\ NodeUp'
  BY Zenon DEF NodeUp, Notify, TakeNext, NoNext, Validate, Pause, SignalOutOfSync, Wake, Retry
<1>3. tickStep' = tickStep \/ (/\ tickStep \notin {"storing", "applying"}
                               /\ tickStep' \notin {"storing", "applying"})
  BY Zenon DEF Notify, TakeNext, NoNext, Validate, Pause, SignalOutOfSync, Wake, Retry
<1>4. Stored' = Stored
  BY <1>1, SameStored, Zenon
<1>5. \A b : Fits(b)' <=> Fits(b)
  BY <1>1, Zenon DEF Fits, Applied
<1>6. CacheOK(cache)'
  BY <1>1, Zenon DEF FollowerInv
<1>7. StateOK' /\ TickOK'
  <2>1. CASE Notify
    BY <1>1, <1>5, <2>1, Zenon DEF Notify, FollowerInv, StateOK, TickOK
  <2>2. CASE TakeNext
    <3>1. /\ work' \in Block /\ HeightOf[work'] = cache.height + 1
          /\ cache.height + 1 \in DOMAIN cache.index
      BY <2>2 DEF TakeNext, NextCommit, FollowerInv, CacheOK, Indexed
    <3>2. StateOK'
      BY <2>2, <3>1, Zenon DEF TakeNext, FollowerInv, StateOK, FollowerSteps
    <3>3. TickOK'
      BY <1>1, <2>2, <3>1, Zenon DEF TakeNext, TickOK
    <3> QED BY <3>2, <3>3, Zenon
  <2>3. CASE NoNext
    BY <2>3, Zenon DEF NoNext, FollowerInv, StateOK, TickOK, FollowerSteps
  <2>4. CASE Validate
    <3>1. HeightOf[work] = cache.height + 1 /\ cache.height + 1 \in DOMAIN cache.index
          /\ work' = work
      BY <2>4, Zenon DEF Validate, FollowerInv, TickOK
    <3>2. ASSUME ValidBlock(work) PROVE Fits(work)
      <4>1. work \in Chain /\ cache.height \in Nat /\ work = cache.height + 1
        BY <3>1, <3>2, FollowerAssumption, Zenon DEF ValidBlock, FollowerInv, CacheOK, Indexed, Chain
      <4>2. work \in 1 .. ChainHeight
        BY <4>1, FollowerAssumption DEF Chain
      <4> QED BY <3>2, <4>2, Zenon DEF ValidBlock, Fits
    <3>3. tickStep' \in {"confirming", "removing"} /\ (tickStep' = "confirming" => Fits(work))
      BY <2>4, <3>2, Zenon DEF Validate
    <3>4. StateOK'
      BY <2>4, <3>3, Zenon DEF Validate, FollowerInv, StateOK, FollowerSteps
    <3>5. TickOK'
      BY <1>1, <1>5, <3>1, <3>3, Zenon DEF TickOK
    <3> QED BY <3>4, <3>5, Zenon
  <2>5. CASE Pause \/ SignalOutOfSync \/ Wake \/ Retry
    BY <2>5, Zenon DEF Pause, SignalOutOfSync, Wake, Retry, FollowerInv, StateOK, TickOK, FollowerSteps
  <2> QED BY <2>1, <2>2, <2>3, <2>4, <2>5, Zenon
<1>8. HeightsOK'
  BY <1>1, <1>2, <1>3, <1>4, Zenon DEF FollowerInv, HeightsOK, HolesAreEmptyBlocks
<1>9. TreeOK'
  BY <1>1, <1>2, <1>3, <1>4, Zenon DEF FollowerInv, TreeOK, NodeUp
<1>10. NoFailureOK'
  BY <1>1, <1>2, <1>3, <1>4, Zenon DEF FollowerInv, NoFailureOK
<1> QED BY <1>6, <1>7, <1>8, <1>9, <1>10, Zenon DEF FollowerInv

(* A block is inserted in the cache.                                       *)
LEMMA InsertStep ==
  ASSUME FollowerInv, NEW b \in Block, cache' = Inserted(cache, b),
         UNCHANGED <<nodeStore, nodeTree, tickStep, work, failures>>,
         wake' \in BOOLEAN, notifying' \in BOOLEAN
  PROVE  FollowerInv'
<1>1. /\ CacheOK(cache') /\ cache'.height = cache.height
      /\ cache.height + 1 \in DOMAIN cache.index => cache.height + 1 \in DOMAIN cache'.index
  BY InsertedOK, Zenon DEF FollowerInv
<1>2. Stored' = Stored
  BY SameStored, Zenon
<1>3. \A x : Fits(x)' <=> Fits(x)
  BY Zenon DEF Fits, Applied
<1>4. StateOK'
  BY Zenon DEF FollowerInv, StateOK
<1>5. TickOK'
  BY <1>1, <1>3, Zenon DEF FollowerInv, TickOK
<1>6. HeightsOK'
  BY <1>1, <1>2, Zenon DEF FollowerInv, HeightsOK, HolesAreEmptyBlocks, NodeUp
<1>7. TreeOK'
  BY <1>2, Zenon DEF FollowerInv, TreeOK
<1>8. NoFailureOK'
  BY <1>1, <1>2, Zenon DEF FollowerInv, NoFailureOK, NodeUp
<1> QED BY <1>1, <1>4, <1>5, <1>6, <1>7, <1>8, Zenon DEF FollowerInv

(* A refused block is removed.                                             *)
LEMMA RemoveStep ==
  ASSUME FollowerInv, RemoveBlock
  PROVE  FollowerInv'
<1>1. /\ tickStep = "removing" /\ tickStep' = "looking" /\ cache' = Removed(cache, work)
      /\ UNCHANGED <<nodeStore, nodeTree, work, wake, notifying, failures>>
  BY Zenon DEF RemoveBlock
<1>2. work \in Block /\ HeightOf[work] = cache.height + 1 /\ cache.height \in Nat
  BY <1>1, FollowerAssumption, Zenon DEF FollowerInv, StateOK, TickOK, CacheOK, Indexed, Chain
<1>3. CacheOK(cache') /\ cache'.height = cache.height
  <2>1. HeightOf[work] # cache.height
    BY <1>2
  <2>2. CacheOK(cache) /\ Indexed(cache)
    BY Zenon DEF FollowerInv, CacheOK
  <2> QED BY <1>1, <1>2, <2>1, <2>2, RemovedOK, RemovedIs
<1>4. Stored' = Stored
  BY <1>1, SameStored, Zenon
<1>5. StateOK' /\ TickOK'
  BY <1>1, Zenon DEF FollowerInv, StateOK, TickOK, FollowerSteps
<1>6. HeightsOK'
  BY <1>1, <1>3, <1>4, Zenon DEF FollowerInv, HeightsOK, HolesAreEmptyBlocks, NodeUp
<1>7. TreeOK'
  BY <1>1, <1>4, Zenon DEF FollowerInv, TreeOK
<1>8. NoFailureOK'
  BY <1>1, <1>3, <1>4, Zenon DEF FollowerInv, NoFailureOK, NodeUp
<1> QED BY <1>3, <1>5, <1>6, <1>7, <1>8, Zenon DEF FollowerInv

(* On a tree that fits the next block, the confirmed one is empty if it    *)
(* is not stored.                                                          *)
LEMMA ConfirmStep ==
  ASSUME FollowerInv, FollowerConfirms
  PROVE  FollowerInv'
<1>1. /\ tickStep = "confirming" /\ tickStep' = "storing" /\ cache' = Confirmed(cache, work)
      /\ UNCHANGED <<nodeStore, nodeTree, work, wake, notifying, failures>>
  BY Zenon DEF FollowerConfirms
<1>2. /\ Fits(work) /\ HeightOf[work] = cache.height + 1
      /\ cache.height + 1 \in DOMAIN cache.index
      /\ cache.height \in Chain
  BY <1>1, Zenon DEF FollowerInv, TickOK, CacheOK, Indexed
<1>3. /\ ChainHeight \in Nat /\ cache.height \in Nat /\ work \in Chain
      /\ work = cache.height + 1 /\ work \in 1 .. ChainHeight
  BY <1>2, FollowerAssumption DEF Fits, Chain
<1>4. CacheOK(cache') /\ cache'.height = work
  BY <1>1, <1>2, <1>3, ConfirmedOK DEF FollowerInv
<1>5. Stored' = Stored /\ Stored \in Nat /\ Stored \in Chain
  BY <1>1, SameStored, StoredIs, Zenon DEF FollowerInv, HeightsOK
<1>6. nodeTree = NotesAfter[cache.height]
  <2>1. nodeTree = NotesAfter[work - 1]
    BY <1>2, <1>3, OnlyPredecessor, Zenon DEF Fits, Applied
  <2> QED BY <2>1, <1>3
<1>7. nodeTree = NotesAfter[Stored] /\ NodeUp
  BY <1>1, Zenon DEF FollowerInv, TreeOK, NodeUp
<1>8. Stored <= cache.height /\ \A h \in Stored + 1 .. cache.height - 1 : EmptyBlock(h)
  BY <1>7, Zenon DEF FollowerInv, HeightsOK
<1>9. ASSUME Stored < cache.height PROVE EmptyBlock(cache.height)
  <2>1. cache.height - 1 \in Chain /\ cache.height \in 1 .. ChainHeight /\ Stored <= cache.height - 1
    BY <1>2, <1>3, <1>5, <1>9 DEF Chain
  <2>2. NotesAfter[cache.height - 1] = NotesAfter[Stored]
    BY <1>5, <1>8, <2>1, EmptyBlocks, Zenon
  <2> QED BY <1>6, <1>7, <2>1, <2>2, SameNotes, Zenon
<1>10. ASSUME NEW h \in Stored + 1 .. work - 1 PROVE EmptyBlock(h)
  <2>1. h \in Stored + 1 .. cache.height - 1 \/ (h = cache.height /\ Stored < cache.height)
    BY <1>3, <1>5, <1>10
  <2> QED BY <1>8, <1>9, <2>1, Zenon
<1>11. StateOK'
  BY <1>1, Zenon DEF FollowerInv, StateOK, FollowerSteps
<1>12. TickOK'
  <2>1. Fits(work)'
    BY <1>1, <1>2, Zenon DEF Fits, Applied
  <2> QED BY <1>1, <1>4, <2>1, Zenon DEF TickOK
<1>13. HeightsOK'
  <2>1. nodeStore' \subseteq 1 .. ChainHeight /\ HolesAreEmptyBlocks'
    BY <1>1, <1>5, Zenon DEF FollowerInv, HeightsOK, HolesAreEmptyBlocks
  <2>2. Stored' < cache'.height /\ Stored' <= cache'.height
    BY <1>3, <1>4, <1>5, <1>8
  <2>3. \A h \in Stored' + 1 .. cache'.height - 1 : EmptyBlock(h)
    BY <1>4, <1>5, <1>10, Zenon
  <2> QED BY <1>1, <2>1, <2>2, <2>3, Zenon DEF HeightsOK
<1>14. TreeOK'
  BY <1>1, <1>5, <1>7, Zenon DEF TreeOK
<1>15. NoFailureOK'
  BY <1>1, <1>3, <1>4, <1>5, <1>7, Zenon DEF FollowerInv, NoFailureOK, NodeUp
<1> QED BY <1>4, <1>11, <1>12, <1>13, <1>14, <1>15, Zenon DEF FollowerInv

(* The block store is written.                                             *)
LEMMA StoreStep ==
  ASSUME FollowerInv, FollowerStores
  PROVE  FollowerInv'
<1>1. /\ tickStep = "storing" /\ tickStep' = "applying" /\ nodeStore' = nodeStore \cup {work}
      /\ UNCHANGED <<cache, nodeTree, work, wake, notifying, failures>>
  BY Zenon DEF FollowerStores
<1>2. Fits(work) /\ work = cache.height /\ work \in 1 .. ChainHeight
  BY <1>1, Zenon DEF FollowerInv, TickOK, Fits
<1>3. /\ Stored \in Nat /\ Stored \in Chain /\ Stored < work
      /\ \A g \in nodeStore : g <= Stored
      /\ nodeStore \subseteq 1 .. ChainHeight
      /\ \A h \in Stored + 1 .. work - 1 : EmptyBlock(h)
      /\ HolesAreEmptyBlocks
  BY <1>1, <1>2, StoredIs, Zenon DEF FollowerInv, HeightsOK, NodeUp
<1>4. /\ ChainHeight \in Nat /\ work \in Nat /\ work \in Chain /\ work - 1 \in Chain
      /\ Stored <= work - 1
  BY <1>2, <1>3, FollowerAssumption DEF Chain
<1>5. nodeStore' \subseteq 1 .. ChainHeight /\ nodeStore' # {} /\ work \in nodeStore'
      /\ \A g \in nodeStore' : g <= work
  <2>1. \A g \in nodeStore : g \in Nat /\ g <= work
    BY <1>3, <1>4
  <2>2. work <= work
    BY <1>4
  <2> QED BY <1>1, <1>2, <1>3, <2>1, <2>2, Zenon
<1>6. Stored' = work
  <2>1. /\ MaxStored' \in nodeStore' /\ MaxStored' \in 1 .. ChainHeight
        /\ \A g \in nodeStore' : g <= MaxStored'
    BY <1>5, TopOf, Zenon DEF MaxStored
  <2>2. Stored' = MaxStored'
    BY <1>5, Zenon DEF Stored
  <2> QED BY <2>1, <2>2, <1>4, <1>5
<1>7. nodeTree = NotesAfter[work - 1]
  BY <1>2, OnlyPredecessor, Zenon DEF Fits, Applied
<1>8. StateOK'
  BY <1>1, Zenon DEF FollowerInv, StateOK, FollowerSteps
<1>9. TickOK'
  <2>1. Fits(work)'
    BY <1>1, <1>2, Zenon DEF Fits, Applied
  <2> QED BY <1>1, <1>2, <2>1, Zenon DEF TickOK
<1>10. HeightsOK'
  <2>1. ASSUME NEW h \in (1 .. work) \ nodeStore' PROVE EmptyBlock(h)
    <3>1. h \in (1 .. Stored) \ nodeStore \/ h \in Stored + 1 .. work - 1
      BY <1>1, <1>3, <1>4, <2>1
    <3> QED BY <3>1, <1>3, Zenon DEF HolesAreEmptyBlocks, EmptyBlock
  <2>2. HolesAreEmptyBlocks'
    BY <1>6, <2>1, Zenon DEF HolesAreEmptyBlocks, EmptyBlock
  <2>3. Stored' <= cache'.height /\ Stored' = cache'.height
    BY <1>1, <1>2, <1>4, <1>6
  <2>4. \A h \in Stored' + 1 .. cache'.height - 1 : FALSE
    BY <1>1, <1>2, <1>4, <1>6
  <2> QED BY <1>1, <1>5, <2>2, <2>3, <2>4, Zenon DEF HeightsOK
<1>11. TreeOK'
  BY <1>1, <1>5, <1>6, <1>7, Zenon DEF TreeOK
<1>12. NoFailureOK'
  <2>1. ASSUME failures = 0 PROVE nodeStore' = 1 .. work
    <3>1. nodeStore = 1 .. Stored /\ work = Stored + 1
      BY <1>1, <1>2, <2>1, Zenon DEF FollowerInv, NoFailureOK, NodeUp
    <3> QED BY <1>1, <1>3, <3>1
  <2> QED BY <1>1, <1>2, <1>6, <2>1, Zenon DEF NoFailureOK
<1> QED BY <1>1, <1>8, <1>9, <1>10, <1>11, <1>12, Zenon DEF FollowerInv

(* A refused write keeps the invariant.                                    *)
LEMMA StoreFailsStep ==
  ASSUME FollowerInv, FollowerStoreFails
  PROVE  FollowerInv'
<1>1. /\ tickStep = "storing" /\ tickStep' = "paused" /\ failures' = failures + 1
      /\ failures < MaxFailures
      /\ UNCHANGED <<cache, nodeStore, nodeTree, work, wake, notifying>>
  BY Zenon DEF FollowerStoreFails
<1>2. Stored' = Stored
  BY <1>1, SameStored, Zenon
<1>3. StateOK'
  <2>1. failures' \in 0 .. MaxFailures /\ failures' # 0
    BY <1>1, FollowerAssumption DEF FollowerInv, StateOK
  <2> QED BY <1>1, <2>1, Zenon DEF FollowerInv, StateOK, FollowerSteps
<1>4. failures' # 0
  BY <1>1, FollowerAssumption DEF FollowerInv, StateOK
<1>5. TickOK' /\ NoFailureOK'
  BY <1>1, <1>4, Zenon DEF TickOK, NoFailureOK
<1>6. HeightsOK'
  BY <1>1, <1>2, Zenon DEF FollowerInv, HeightsOK, HolesAreEmptyBlocks, NodeUp
<1>7. TreeOK'
  BY <1>1, <1>2, Zenon DEF FollowerInv, TreeOK
<1> QED BY <1>1, <1>3, <1>5, <1>6, <1>7, Zenon DEF FollowerInv

(* The notes tree is written.                                              *)
LEMMA ApplyStep ==
  ASSUME FollowerInv, FollowerApplies
  PROVE  FollowerInv'
<1>1. /\ tickStep = "applying" /\ tickStep' = "looking" /\ nodeTree' = Applied(work)
      /\ UNCHANGED <<cache, nodeStore, work, wake, notifying, failures>>
  BY Zenon DEF FollowerApplies
<1>2. Stored' = Stored
  BY <1>1, SameStored, Zenon
<1>3. nodeTree' = NotesAfter[Stored] /\ Stored = cache.height
  BY <1>1, Zenon DEF FollowerInv, TickOK, Fits, HeightsOK, NodeUp
<1>4. StateOK' /\ TickOK'
  BY <1>1, Zenon DEF FollowerInv, StateOK, TickOK, FollowerSteps
<1>5. HeightsOK'
  BY <1>1, <1>2, Zenon DEF FollowerInv, HeightsOK, HolesAreEmptyBlocks, NodeUp
<1>6. TreeOK'
  BY <1>2, <1>3, Zenon DEF TreeOK
<1>7. NoFailureOK'
  BY <1>1, <1>2, Zenon DEF FollowerInv, NoFailureOK, NodeUp
<1> QED BY <1>1, <1>4, <1>5, <1>6, <1>7, Zenon DEF FollowerInv

(* So does a crash, wherever it comes.                                     *)
LEMMA CrashStep ==
  ASSUME FollowerInv, FollowerCrash
  PROVE  FollowerInv'
<1>1. /\ tickStep' = "down" /\ cache' = NewCache(0) /\ work' = 0
      /\ wake' = FALSE /\ notifying' = FALSE
      /\ UNCHANGED <<nodeStore, nodeTree, failures>>
      /\ tickStep \notin {"down", "panicked"}
  BY Zenon DEF FollowerCrash, NodeUp
<1>2. 0 \in Chain /\ 0 \in Block
  BY FollowerAssumption DEF Chain
<1>3. CacheOK(cache')
  BY <1>1, <1>2, NewCacheOK, Zenon
<1>4. Stored' = Stored
  BY <1>1, SameStored, Zenon
<1>5. StateOK' /\ TickOK'
  BY <1>1, <1>2, Zenon DEF FollowerInv, StateOK, TickOK, FollowerSteps
<1>6. HeightsOK'
  BY <1>1, <1>4, Zenon DEF FollowerInv, HeightsOK, HolesAreEmptyBlocks, NodeUp
<1>7. TreeOK'
  BY <1>1, <1>4, Zenon DEF FollowerInv, TreeOK
<1>8. NoFailureOK'
  BY <1>1, <1>4, Zenon DEF FollowerInv, NoFailureOK, NodeUp
<1> QED BY <1>3, <1>5, <1>6, <1>7, <1>8, Zenon DEF FollowerInv

(* load_db_and_smirk.                                                      *)
LEMMA RestartStep ==
  ASSUME FollowerInv, Restart
  PROVE  FollowerInv' /\ tickStep' \in {"looking", "panicked"}
<1>1. tickStep = "down" /\ UNCHANGED <<nodeStore, failures, work, wake, notifying>>
  BY Zenon DEF Restart, RestartEmpty, RestartInSync, RestartPanics, StartFrom
<1>2. Stored' = Stored
  BY <1>1, SameStored, Zenon
<1>3. Stored \in Chain /\ Stored \in Nat /\ (nodeStore # {} => Stored = MaxStored)
  BY StoredIs, Zenon DEF FollowerInv, HeightsOK, Stored
<1>4. CASE RestartEmpty \/ RestartInSync
  <2>1. tickStep' = "looking" /\ cache' = NewCache(Stored) /\ nodeTree' = NotesAfter[Stored]
    BY <1>3, <1>4, Zenon DEF RestartEmpty, RestartInSync, StartFrom, Stored
  <2>2. CacheOK(cache') /\ cache'.height = Stored
    BY <1>3, <2>1, NewCacheOK, Zenon
  <2>3. StateOK' /\ TickOK'
    BY <1>1, <2>1, Zenon DEF FollowerInv, StateOK, TickOK, FollowerSteps
  <2>4. HeightsOK'
    <3>1. nodeStore' \subseteq 1 .. ChainHeight /\ HolesAreEmptyBlocks'
      BY <1>1, <1>2, Zenon DEF FollowerInv, HeightsOK, HolesAreEmptyBlocks
    <3>2. Stored' <= cache'.height
      BY <1>2, <1>3, <2>2
    <3>3. \A h \in Stored' + 1 .. cache'.height - 1 : FALSE
      BY <1>2, <1>3, <2>2
    <3> QED BY <2>1, <3>1, <3>2, <3>3, Zenon DEF HeightsOK
  <2>5. TreeOK'
    BY <1>2, <2>1, Zenon DEF TreeOK
  <2>6. NoFailureOK'
    BY <1>1, <1>2, <2>1, <2>2, Zenon DEF FollowerInv, NoFailureOK
  <2> QED BY <2>1, <2>2, <2>3, <2>4, <2>5, <2>6, Zenon DEF FollowerInv
<1>5. CASE RestartPanics
  <2>1. tickStep' = "panicked" /\ cache' = cache /\ nodeTree' = nodeTree
    BY <1>5, Zenon DEF RestartPanics
  <2>2. StateOK' /\ TickOK'
    BY <1>1, <2>1, Zenon DEF FollowerInv, StateOK, TickOK, FollowerSteps
  <2>3. HeightsOK' /\ NoFailureOK'
    BY <1>1, <1>2, <2>1, Zenon DEF FollowerInv, HeightsOK, HolesAreEmptyBlocks, NoFailureOK, NodeUp
  <2>4. TreeOK'
    BY <1>1, <1>2, <2>1, Zenon DEF FollowerInv, TreeOK
  <2> QED BY <2>1, <2>2, <2>3, <2>4, Zenon DEF FollowerInv
<1> QED BY <1>4, <1>5, Zenon DEF Restart

(* So does a notification, and the signal to the sync worker.              *)
LEMMA TickStep ==
  ASSUME FollowerInv, Tick \/ SignalOutOfSync
  PROVE  FollowerInv'
BY IdleStep, RemoveStep, ConfirmStep, StoreStep, StoreFailsStep, ApplyStep, Zenon DEF Tick

(* So does every step of a follower.                                       *)
LEMMA FollowerStepInv == FollowerInv /\ [FollowerNext]_nodeVars => FollowerInv'
<1> SUFFICES ASSUME FollowerInv, [FollowerNext]_nodeVars PROVE FollowerInv'
  BY Zenon
<1>1. ASSUME NEW b \in Block, ReceiveBlock(b) PROVE FollowerInv'
  <2>1. /\ cache' = Inserted(cache, b) /\ wake' \in BOOLEAN /\ notifying' \in BOOLEAN
        /\ UNCHANGED <<nodeStore, nodeTree, tickStep, work, failures>>
    BY <1>1, Zenon DEF ReceiveBlock, FollowerInv, StateOK
  <2> QED BY <2>1, InsertStep, Zenon
<1>2. CASE UNCHANGED nodeVars
  <2>1. Stored' = Stored
    BY <1>2, SameStored, Zenon DEF nodeVars
  <2> QED
    BY <1>2, <2>1 DEF nodeVars, FollowerInv, StateOK, TickOK, HeightsOK, HolesAreEmptyBlocks,
                      TreeOK, NoFailureOK, Fits, Applied, NodeUp
<1> QED BY <1>1, <1>2, IdleStep, TickStep, CrashStep, RestartStep, Zenon DEF FollowerNext

(* The invariant gives what the runs check.                                *)
LEMMA InvInOrder == FollowerInv => NodesInOrder
<1> SUFFICES ASSUME FollowerInv PROVE NodesInOrder
  BY Zenon
<1>1. /\ Stored \in Chain /\ Stored \in Nat
      /\ nodeStore # {} => Stored \in nodeStore /\ Stored \in 1 .. ChainHeight
  BY StoredIs, Zenon DEF FollowerInv, HeightsOK
<1>2. FollowerTypeOK
  <2>1. /\ cache.height \in Chain /\ cache.maxHeight \in Nat /\ cache.blocks \subseteq Block
        /\ DOMAIN cache.index \subseteq {HeightOf[b] : b \in Block}
        /\ \A h \in DOMAIN cache.index : cache.index[h] \in Block /\ HeightOf[cache.index[h]] = h
    BY Zenon DEF FollowerInv, CacheOK, Indexed
  <2>2. nodeStore \subseteq Chain
    BY FollowerAssumption DEF FollowerInv, HeightsOK, Chain
  <2>3. nodeTree \subseteq Note
    <3>1. nodeStore # {} => Stored - 1 \in Chain
      BY <1>1, FollowerAssumption DEF Chain
    <3> QED BY <1>1, <3>1, NotesTyped, Zenon DEF FollowerInv, TreeOK
  <2> QED BY <2>1, <2>2, <2>3, Zenon DEF FollowerInv, StateOK, FollowerTypeOK
<1>3. FollowsChain
  BY Zenon DEF FollowerInv, NoFailureOK, TreeOK, FollowsChain
<1>4. HolesAreEmptyBlocks
  BY Zenon DEF FollowerInv, HeightsOK
<1>5. AtMostOneBehind
  BY Zenon DEF FollowerInv, TreeOK, AtMostOneBehind
<1>6. ConfirmedBlockCached /\ CapacityRespected
  BY Zenon DEF FollowerInv, CacheOK, ConfirmedBlockCached, CapacityRespected
<1> QED BY <1>2, <1>3, <1>4, <1>5, <1>6, Zenon DEF NodesInOrder

(* Whatever arrives in which order, whichever writes fail and wherever the *)
(* process dies: blocks are committed one height after the other, holes in *)
(* the store are empty blocks, the tree is never more than one block       *)
(* behind, the confirmed block stays in the cache, and the cache keeps to  *)
(* its size.                                                               *)
THEOREM FollowerInOrder == FollowerSpec => []NodesInOrder
<1>1. FollowerInit => FollowerInv
  BY FollowerInitInv, Zenon
<1>2. FollowerInv /\ [FollowerNext]_nodeVars => FollowerInv'
  BY FollowerStepInv, Zenon
<1>3. FollowerInv => NodesInOrder
  BY InvInOrder, Zenon
<1> QED BY <1>1, <1>2, <1>3, PTL DEF FollowerSpec

(* No step of the node itself loses a wake-up.                             *)
LEMMA WakeStep ==
  ASSUME FollowerInv, WakeInv,
         (\E b \in Block : ReceiveBlock(b)) \/ Notify \/ Tick \/ SignalOutOfSync
           \/ FollowerCrash \/ Restart
  PROVE  WakeInv'
<1>1. CASE (\E b \in Block : ReceiveBlock(b)) \/ Notify
  BY <1>1, Zenon DEF ReceiveBlock, Notify, WakeInv
<1>2. CASE NoNext
  BY <1>2, Zenon DEF NoNext, WakeInv
<1>3. CASE Pause
  <2>1. /\ tickStep = "checking" /\ ~ IsOutOfSync(cache)
        /\ cache' = cache /\ wake' = wake /\ notifying' = notifying /\ failures' = failures
    BY <1>3, Zenon DEF Pause
  <2>2. NextCommit(cache) = {} => cache.maxHeight = cache.height
    BY <2>1, CaughtUp, Zenon DEF FollowerInv
  <2> QED BY <2>1, <2>2, Zenon DEF WakeInv
<1>4. CASE FollowerStoreFails
  <2>1. failures' # 0
    BY <1>4, FollowerAssumption DEF FollowerStoreFails, FollowerInv, StateOK
  <2> QED BY <2>1, Zenon DEF WakeInv
<1>5. CASE TakeNext \/ Validate \/ RemoveBlock \/ FollowerConfirms \/ FollowerStores
             \/ FollowerApplies \/ SignalOutOfSync \/ Wake \/ Retry
  <2>1. tickStep' \notin {"checking", "paused"}
    BY <1>5, Zenon DEF TakeNext, Validate, RemoveBlock, FollowerConfirms, FollowerStores,
                FollowerApplies, SignalOutOfSync, Wake, Retry
  <2> QED BY <2>1, Zenon DEF WakeInv
<1>6. CASE FollowerCrash
  BY <1>6, Zenon DEF FollowerCrash, WakeInv
<1>7. CASE Restart
  <2>1. tickStep' \in {"looking", "panicked"}
    BY <1>7, RestartStep, Zenon
  <2> QED BY <2>1, Zenon DEF WakeInv
<1> QED BY <1>1, <1>2, <1>3, <1>4, <1>5, <1>6, <1>7, Zenon DEF Tick

(* Between the insert in the cache and ticker.tick(), and while tick runs, *)
(* no wake-up is lost: the worker waits without a timer only when there is *)
(* nothing to commit and no height missing.                                *)
THEOREM FollowerLeavesNothing == FollowerSpec => []NothingLeftUndone
<1>1. FollowerInit => FollowerInv /\ WakeInv
  BY FollowerInitInv, Zenon
<1>2. FollowerInv /\ WakeInv /\ [FollowerNext]_nodeVars => FollowerInv' /\ WakeInv'
  <2>1. SUFFICES ASSUME FollowerInv, WakeInv, [FollowerNext]_nodeVars PROVE WakeInv'
    BY FollowerStepInv, Zenon
  <2>2. CASE UNCHANGED nodeVars
    BY <2>1, <2>2, Zenon DEF nodeVars, WakeInv
  <2> QED BY <2>1, <2>2, WakeStep, Zenon DEF FollowerNext
<1>3. WakeInv => NothingLeftUndone
  BY Zenon DEF WakeInv, NothingLeftUndone
<1> QED BY <1>1, <1>2, <1>3, PTL DEF FollowerSpec
===============================================================================

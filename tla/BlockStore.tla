----------------------------- MODULE BlockStore -----------------------------
(***************************************************************************)
(* The block store (pkg/block-store): one ordered key-value database with  *)
(* the blocks and the indexes over them, and the lists read from it.       *)
(*                                                                         *)
(* A database is a function from serialized keys, sequences of bytes, to   *)
(* values; a write batch is applied at once and a list walks the keys in   *)
(* their lexicographic order, as RocksDB does.  A block is a record with a *)
(* height, a sequence of transactions and the time it was committed, None  *)
(* in blocks of format V1; its hash and the hashes of transactions are     *)
(* numbers.                                                                *)
(***************************************************************************)
EXTENDS Naturals, SequencesExt

CONSTANTS
  Radix,        \* 256 in the code
  Width,        \* bytes of a height or a hash: 8 and 32 in the code
  None

MaxNumber == Radix ^ Width - 1

-----------------------------------------------------------------------------
(* Keys.                                                                   *)

KeyKind == [Block |-> 0, MaxHeight |-> 1, BlockHashToHeight |-> 2,
            PendingBlock |-> 3, TxnByHash |-> 4, StoreVersion |-> 5,
            NonEmptyBlock |-> 6, LockedElement |-> 7, ElementHistory |-> 8,
            MintHash |-> 9]

HistoryKind == [Input |-> 0, Output |-> 1]

BeBytes(n) == [i \in 1 .. Width |-> (n \div Radix ^ (Width - i)) % Radix]

NumberKey(kind, n) == <<KeyKind[kind]>> \o BeBytes(n)
PlainKey(kind) == <<KeyKind[kind]>>
HistoryKey(e, kind) == NumberKey("ElementHistory", e) \o <<HistoryKind[kind]>>

ImmediateSuccessor(key) == Append(key, 0)

KeyLess(a, b) ==
  \/ IsStrictPrefix(a, b)
  \/ \E i \in DOMAIN a \cap DOMAIN b :
       a[i] < b[i] /\ \A j \in 1 .. i - 1 : a[j] = b[j]

-----------------------------------------------------------------------------
(* Reads of single keys, and BlockStore::set.                              *)

Lookup(db, key) == IF key \in DOMAIN db THEN db[key] ELSE None

GetBlock(db, h) == Lookup(db, NumberKey("Block", h))
GetMaxHeight(db) == Lookup(db, PlainKey("MaxHeight"))
GetBlockHeightByHash(db, hash) == Lookup(db, NumberKey("BlockHashToHeight", hash))
GetTxnByHash(db, id) == Lookup(db, NumberKey("TxnByHash", id))
GetElementHistory(db, e) ==
  [input |-> Lookup(db, HistoryKey(e, "Input")),
   output |-> Lookup(db, HistoryKey(e, "Output"))]

NoEntries == [key \in {} |-> None]

(* Function from the keys k(x) to v(x), x \in S.                           *)
Entries(S, k(_), v(_)) ==
  [key \in {k(x) : x \in S} |-> v(CHOOSE x \in S : k(x) = key)]

(* Block::txns: the transactions with their metadata.                      *)
BlockTxns(b) ==
  [i \in DOMAIN b.txns |->
     [txn |-> b.txns[i], height |-> b.height, time |-> b.time, index |-> i - 1]]

TxnEntries(b) ==
  Entries(ToSet(BlockTxns(b)), LAMBDA t : NumberKey("TxnByHash", t.txn.id),
          LAMBDA t : t)

NonEmptyEntry(b) ==
  IF b.txns = <<>> THEN NoEntries ELSE NumberKey("NonEmptyBlock", b.height) :> b

HistoryEntries(b, kind, side) ==
  Entries(UNION {t[side] : t \in ToSet(b.txns)},
          LAMBDA e : HistoryKey(e, kind),
          LAMBDA e : [hash |-> b.hash, height |-> b.height])

MintEntries(b) ==
  Entries({t.mint : t \in ToSet(b.txns)} \ {None},
          LAMBDA m : NumberKey("MintHash", m),
          LAMBDA m : [hash |-> b.hash, height |-> b.height])

SetBlock(db, b) ==
  LET max == GetMaxHeight(db)
  IN  (NumberKey("Block", b.height) :> b)
        @@ (IF max = None \/ (max # None /\ b.height > max)
              THEN PlainKey("MaxHeight") :> b.height ELSE NoEntries)
        @@ (NumberKey("BlockHashToHeight", b.hash) :> b.height)
        @@ TxnEntries(b) @@ NonEmptyEntry(b)
        @@ HistoryEntries(b, "Input", "ins")
        @@ HistoryEntries(b, "Output", "outs")
        @@ MintEntries(b) @@ db

(* create_or_load on an empty directory.                                   *)
LatestVersion == 1
NewStore == PlainKey("StoreVersion") :> LatestVersion

StoreVersion(db) ==
  LET v == Lookup(db, PlainKey("StoreVersion")) IN IF v = None THEN 0 ELSE v

-----------------------------------------------------------------------------
(* Lists.                                                                  *)

InDirection(s, startToEnd) == IF startToEnd THEN s ELSE Reverse(s)

(* The iterator over lower <= key < upper.                                 *)
Iterate(db, lower, upper, startToEnd) ==
  InDirection(SetToSortSeq({k \in DOMAIN db : ~ KeyLess(k, lower) /\ KeyLess(k, upper)},
                           KeyLess),
              startToEnd)

ValuesOf(db, keys) == [i \in DOMAIN keys |-> db[keys[i]]]

Unbounded == [key |-> None, included |-> TRUE]

(* ListableKey::list over the keys of a kind: the values.                  *)
List(db, kind, start, end, startToEnd) ==
  LET first == IF start = Unbounded THEN NumberKey(kind, 0) ELSE start.key
      last == IF end = Unbounded THEN NumberKey(kind, MaxNumber) ELSE end.key
      lower == IF start.included THEN first ELSE ImmediateSuccessor(first)
      upper == IF end.included THEN ImmediateSuccessor(last) ELSE last
  IN  ValuesOf(db, Iterate(db, lower, upper, startToEnd))

(* migrate_to_v1: one batch per block, then the version.                   *)
MigrateBlock(db, b) == TxnEntries(b) @@ NonEmptyEntry(b) @@ db

MigrateToV1(db) ==
  (PlainKey("StoreVersion") :> LatestVersion)
    @@ FoldLeft(MigrateBlock, db, List(db, "Block", Unbounded, Unbounded, TRUE))

(* migrate, run on every start.                                            *)
Migrate(db) == IF StoreVersion(db) = 0 THEN MigrateToV1(db) ELSE db

(* Cursors: a side (None, "after" or "before"), whether the position       *)
(* itself is included, and the position.                                   *)
NoCursor == [side |-> None, included |-> FALSE, pos |-> None]
After(pos) == [side |-> "after", included |-> FALSE, pos |-> pos]
Before(pos) == [side |-> "before", included |-> FALSE, pos |-> pos]
Inclusive(c) == IF c = NoCursor THEN c ELSE [c EXCEPT !.included = TRUE]

Take(s, n) == SubSeq(s, 1, IF Len(s) < n THEN Len(s) ELSE n)

(* In descending order the two bounds are swapped; the page before a       *)
(* position is read against the order and turned around.                   *)
ListPaginated(db, kind, cursor, ascending, limit) ==
  LET edge == IF cursor = NoCursor THEN Unbounded
              ELSE [key |-> NumberKey(kind, cursor.pos), included |-> cursor.included]
      start == IF cursor.side = "after" THEN edge ELSE Unbounded
      end == IF cursor.side = "before" THEN edge ELSE Unbounded
      startToEnd == (cursor.side = "before") # ascending
      values == List(db, kind, IF ascending THEN start ELSE end,
                     IF ascending THEN end ELSE start, startToEnd)
  IN  InDirection(Take(values, limit), cursor.side # "before")

(* Paginator: the cursors around a page whose items have these positions.  *)
PageCursors(positions) ==
  IF positions = <<>> THEN [before |-> NoCursor, after |-> NoCursor]
  ELSE [before |-> Before(Head(positions)), after |-> After(Last(positions))]
=============================================================================

------------------------------ MODULE NodeRpc -------------------------------
(***************************************************************************)
(* What the node's HTTP interface reads (pkg/node/src/rpc): lists of       *)
(* transactions and blocks page by page, with or without waiting for new   *)
(* ones, single elements, and the statistics of the last days; while       *)
(* commit_proposal writes blocks to the store, to the notes tree, and to   *)
(* the listeners of commit_stream, in three steps.                         *)
(*                                                                         *)
(* The readers share no state, so a behaviour has one of them.             *)
(***************************************************************************)
EXTENDS BlockStore

CONSTANTS
  Clients,      \* the readers: see Pagers, ElementReaders, StatsWorkers
  Limit,        \* limit of a request for a page
  Window,       \* days of statistics: 7 in the code
  BlockSize,    \* bound: transactions in a block
  MaxBlocks,    \* bound: blocks
  MaxDay        \* bound: days

VARIABLES
  db,           \* the block store
  tree,         \* the notes tree: the height each element was inserted at
  step,         \* where commit_proposal is
  chain,        \* history: the blocks it has stored
  day,          \* the date
  client,       \* the reader: what it is
  pc,           \* ... where it is
  seen,         \* ... pager: the items it was given, in the order of the list
  cursor,       \* ... pager: the cursor of its next request
  queue,        \* ... pager: heights in the channel of its commit stream
  answer,       \* ... element reader: what it asked and was answered
  stats,        \* TxnStats: last_7_days
  ready         \* TxnStats: ready

nodeVars == <<db, tree, step, chain, day>>
pagerVars == <<seen, cursor, queue>>
statsVars == <<stats, ready>>
vars == <<nodeVars, client, pc, pagerVars, answer, statsVars>>

Pagers ==
  [kind : {"pager"}, list : {"txns"}, ascending : BOOLEAN, side : {"after", "before"},
   poll : BOOLEAN]
  \cup
  [kind : {"pager"}, list : {"blocks", "nonEmpty"}, ascending : BOOLEAN,
   side : {"after", "before"}, poll : {FALSE}]
ElementReaders == [kind : {"element"}, includeSpent : BOOLEAN]
StatsWorkers == [kind : {"stats"}]

NoAnswer == [element |-> None, is |-> "none"]
NoStats == [day |-> 0, counts |-> <<>>]

-----------------------------------------------------------------------------
(* Blocks.  The n-th transaction creates element n; it is a mint or it     *)
(* consumes an element of the tree.                                        *)

TxnCount == FoldLeft(LAMBDA n, b : n + Len(b.txns), 0, chain)

NewTxn(n, e) ==
  [id |-> n, outs |-> {n},
   ins |-> IF e = None THEN {} ELSE {e},
   mint |-> IF e = None THEN n ELSE None]

NewBlocks ==
  {[height |-> Len(chain) + 1, hash |-> Len(chain) + 1, time |-> day,
    txns |-> [i \in DOMAIN es |-> NewTxn(TxnCount + i, es[i])]] :
     es \in {s \in BoundedSeq(DOMAIN tree \cup {None}, BlockSize) :
               \A i, j \in DOMAIN s : i # j /\ s[i] = s[j] => s[i] = None}}

BlockIns(b) == UNION {t.ins : t \in ToSet(b.txns)}
BlockOuts(b) == UNION {t.outs : t \in ToSet(b.txns)}

(* A store of the version before transactions and blocks that are not      *)
(* empty were indexed, with one block.                                     *)
OldBlock == [height |-> 1, hash |-> 1, time |-> None,
             txns |-> <<NewTxn(1, None), NewTxn(2, None)>>]
OldStore ==
  LET written == SetBlock(NoEntries, OldBlock)
      newer == {KeyKind["TxnByHash"], KeyKind["NonEmptyBlock"]}
  IN  [key \in {k \in DOMAIN written : k[1] \notin newer} |-> written[key]]

(* The node starts on an empty store or, for a pager, on an old one.       *)
Init ==
  /\ client \in Clients
  /\ \/ /\ db = NewStore
        /\ chain = <<>>
        /\ tree = NoEntries
     \/ /\ client.kind = "pager"
        /\ db = Migrate(OldStore)
        /\ chain = <<OldBlock>>
        /\ tree = [e \in BlockOuts(OldBlock) |-> 1]
  /\ step = "idle"
  /\ day = 1
  /\ pc = "ready"
  /\ seen = <<>>
  /\ cursor = NoCursor
  /\ queue = <<>>
  /\ answer = NoAnswer
  /\ stats = NoStats
  /\ ready = FALSE

(* commit_proposal: the block store first ...                              *)
StoreBlock ==
  /\ step = "idle"
  /\ Len(chain) < MaxBlocks
  /\ \E b \in NewBlocks : db' = SetBlock(db, b) /\ chain' = Append(chain, b)
  /\ step' = "stored"
  /\ UNCHANGED <<tree, day, client, pc, pagerVars, answer, statsVars>>

(* ... then the tree, unless a reader holds its lock ...                   *)
ApplyToTree ==
  /\ step = "stored"
  /\ pc # "locked"
  /\ LET b == Last(chain)
     IN  tree' = [e \in (DOMAIN tree \cup BlockOuts(b)) \ BlockIns(b) |->
                    IF e \in BlockOuts(b) THEN b.height ELSE tree[e]]
  /\ step' = "applied"
  /\ UNCHANGED <<db, chain, day, client, pc, pagerVars, answer, statsVars>>

(* ... then the listeners.                                                 *)
NotifyListeners ==
  /\ step = "applied"
  /\ queue' = IF pc \in {"registered", "streaming"}
                THEN Append(queue, Len(chain)) ELSE queue
  /\ step' = "idle"
  /\ UNCHANGED <<db, tree, chain, day, client, pc, seen, cursor, answer, statsVars>>

(* The statistics are refreshed a second after midnight, which a commit    *)
(* that took its time before does not outlast.  The others do not read the *)
(* time.                                                                   *)
Midnight ==
  /\ client.kind = "stats"
  /\ step = "idle"
  /\ day < MaxDay
  /\ day' = day + 1
  /\ pc' = IF pc = "asleep" THEN "ready" ELSE pc
  /\ UNCHANGED <<db, tree, step, chain, client, pagerVars, answer, statsVars>>

-----------------------------------------------------------------------------
(* list_txns_inner and list_blocks.                                        *)

BlockCursor(c) == IF c = NoCursor THEN c ELSE [c EXCEPT !.pos = @.block]

(* Mutant: only the transaction at the cursor is skipped.                  *)
SkippedAtCursorOnly(t, c) == c # NoCursor /\ t.block = c.pos.block /\ t.index = c.pos.index

Skipped(t, c) ==
  /\ c # NoCursor
  /\ t.block = c.pos.block
  /\ t.index \in 0 .. c.pos.index

(* The transactions of a sequence of blocks, one after the other.          *)
TxnsOfBlocks(blocks) ==
  FlattenSeq([i \in DOMAIN blocks |->
    [j \in DOMAIN blocks[i].txns |->
       [block |-> blocks[i].height, index |-> j - 1, id |-> blocks[i].txns[j].id]]])

(* A page and the cursors around it.                                       *)
TxnPage(page) ==
  LET around == PageCursors([i \in DOMAIN page |->
                               [block |-> page[i].block, index |-> page[i].index]])
  IN  [items |-> page, before |-> Inclusive(around.before), after |-> Inclusive(around.after)]

ListTxnsInner(store, c, ascending, limit) ==
  LET blocks == ListPaginated(store, "NonEmptyBlock", BlockCursor(c), ascending, limit + 1)
  IN  TxnPage(Take(SelectSeq(TxnsOfBlocks(blocks), LAMBDA t : ~ Skipped(t, c)), limit))

BlockPage(heights) ==
  LET around == PageCursors(heights)
  IN  [items |-> heights, before |-> around.before, after |-> around.after]

HeightsOf(blocks) == [i \in DOMAIN blocks |-> blocks[i].height]

ListBlocks(store, c, ascending, limit, skipEmpty) ==
  BlockPage(HeightsOf(ListPaginated(store, IF skipEmpty THEN "NonEmptyBlock" ELSE "Block",
                                    c, ascending, limit)))

Page ==
  IF client.list = "txns" THEN ListTxnsInner(db, cursor, client.ascending, Limit)
  ELSE ListBlocks(db, cursor, client.ascending, Limit, client.list = "nonEmpty")

(* The reader puts a page next to those it has and goes on from there.     *)
Answered(page) ==
  /\ pc' = "ready"
  /\ queue' = <<>>
  /\ seen' = IF client.side = "after" THEN seen \o page.items ELSE page.items \o seen
  /\ cursor' = IF page.items = <<>> THEN cursor
               ELSE IF client.side = "after" THEN page.after ELSE page.before

(* The height from which a poll waits for a block that is not empty; None  *)
(* when its cursor does not point to newer blocks.                         *)
TowardsNewer ==
  IF cursor # NoCursor /\ client.ascending = (cursor.side = "after")
    THEN cursor.pos.block + 1 ELSE None

(* An empty page is not returned to a poll: it waits.                      *)
AnsweredOrWaits(page) ==
  IF page.items # <<>> \/ ~ client.poll
    THEN Answered(page)
    ELSE /\ pc' = IF TowardsNewer = None THEN "sleeping" ELSE "registered"
         /\ UNCHANGED pagerVars

RequestPage ==
  /\ client.kind = "pager"
  /\ pc = "ready"
  /\ AnsweredOrWaits(Page)
  /\ UNCHANGED <<nodeVars, client, answer, statsVars>>

(* After 25 seconds the empty page is returned.                            *)
SleepOver ==
  /\ pc = "sleeping"
  /\ pc' = "ready"
  /\ UNCHANGED <<nodeVars, client, pagerVars, answer, statsVars>>

(* Mutant: the first commit is read from the store too.                    *)
FirstCommitIncluded ==
  /\ pc = "registered"
  /\ queue # <<>>
  /\ LET missed == List(db, "Block",
                        [key |-> NumberKey("Block", TowardsNewer), included |-> TRUE],
                        [key |-> NumberKey("Block", Head(queue)), included |-> TRUE], TRUE)
     IN  queue' = HeightsOf(missed) \o queue
  /\ pc' = "streaming"
  /\ UNCHANGED <<nodeVars, client, seen, cursor, answer, statsVars>>

(* commit_stream waits for the first commit, then reads the blocks before  *)
(* it from the store.                                                      *)
FirstCommit ==
  /\ pc = "registered"
  /\ queue # <<>>
  /\ LET first == Head(queue)
         missed == List(db, "Block",
                        [key |-> NumberKey("Block", TowardsNewer), included |-> TRUE],
                        [key |-> NumberKey("Block", first), included |-> FALSE], TRUE)
     IN  queue' = HeightsOf(missed) \o queue
  /\ pc' = "streaming"
  /\ UNCHANGED <<nodeVars, client, seen, cursor, answer, statsVars>>

(* A block of the stream: skipped if it is too old or empty, else the page *)
(* is read again.                                                          *)
NextCommit ==
  /\ pc = "streaming"
  /\ queue # <<>>
  /\ IF Head(queue) >= TowardsNewer /\ chain[Head(queue)].txns # <<>>
       THEN Answered(Page)
       ELSE queue' = Tail(queue) /\ UNCHANGED <<pc, seen, cursor>>
  /\ UNCHANGED <<nodeVars, client, answer, statsVars>>

(* After 50 seconds of streaming the empty page is returned.               *)
PollTimeout ==
  /\ pc = "streaming"
  /\ pc' = "ready"
  /\ queue' = <<>>
  /\ UNCHANGED <<nodeVars, client, seen, cursor, answer, statsVars>>

-----------------------------------------------------------------------------
(* get_element and list_elements, for one element.                         *)

Elements == 1 .. BlockSize * MaxBlocks

Spent(e) == \E h \in DOMAIN chain : e \in BlockIns(chain[h])
Applied(b) == b.height < Len(chain) \/ step # "stored"

(* The request begins; the answer records what was true of the element.    *)
GetElement(e) ==
  /\ client.kind = "element"
  /\ pc = "ready"
  /\ LET before == [element |-> e, is |-> "pending", at |-> None,
                    created |-> \E b \in ToSet(chain) : Applied(b) /\ e \in BlockOuts(b),
                    spent |-> \E b \in ToSet(chain) : Applied(b) /\ e \in BlockIns(b)]
     IN  IF e \in DOMAIN tree
           THEN pc' = "locked" /\ answer' = [before EXCEPT !.at = tree[e]]
           ELSE IF client.includeSpent
             THEN pc' = "history" /\ answer' = before
             ELSE pc' = "ready" /\ answer' = [before EXCEPT !.is = "notFound"]
  /\ UNCHANGED <<nodeVars, client, pagerVars, statsVars>>

(* The first transaction of the block with the element on either side.     *)
TxnOfElement(b, e) ==
  LET hits == {t \in ToSet(b.txns) : e \in t.ins \cup t.outs}
  IN  IF hits = {} THEN None ELSE Min({t.id : t \in hits})

ElementResponse(b, spent) ==
  IF b = None THEN [answer EXCEPT !.is = "blockNotFound"]
  ELSE IF TxnOfElement(b, answer.element) = None
    THEN [answer EXCEPT !.is = "notInTxn"]
    ELSE [element |-> answer.element, is |-> "found", at |-> b.height, spentNow |-> spent,
          txn |-> TxnOfElement(b, answer.element),
          created |-> answer.created, spent |-> answer.spent]

(* The tree is locked until the block has been read.                       *)
ReadElementBlock ==
  /\ pc = "locked"
  /\ answer' = ElementResponse(GetBlock(db, answer.at), FALSE)
  /\ pc' = "ready"
  /\ UNCHANGED <<nodeVars, client, pagerVars, statsVars>>

(* get_element_history reads the two kinds one after the other.            *)
ReadInputHistory ==
  /\ pc = "history"
  /\ answer' = [answer EXCEPT !.at = GetElementHistory(db, answer.element).input]
  /\ pc' = "outputHistory"
  /\ UNCHANGED <<nodeVars, client, pagerVars, statsVars>>

ReadOutputHistory ==
  /\ pc = "outputHistory"
  /\ LET output == GetElementHistory(db, answer.element).output
     IN  answer' = IF output = None THEN [answer EXCEPT !.is = "notFound"]
                   ELSE ElementResponse(GetBlock(db, GetBlockHeightByHash(db, output.hash)),
                                        answer.at # None)
  /\ pc' = "ready"
  /\ UNCHANGED <<nodeVars, client, pagerVars, statsVars>>

-----------------------------------------------------------------------------
(* TxnStats::worker.                                                       *)

(* The days up to the last one, oldest first.                              *)
LastDays(last) == [i \in 1 .. Window |-> last + i - Window]

(* Blocks newest first until one is older than the window.                 *)
CountTxns(last) ==
  LET blocks == List(db, "NonEmptyBlock", Unbounded, Unbounded, FALSE)
      old == {i \in DOMAIN blocks : blocks[i].time + Window < last}
      read == IF old = {} THEN blocks ELSE SubSeq(blocks, 1, Min(old) - 1)
      On(d) == SelectSeq(read, LAMBDA b : b.time = d)
  IN  [i \in 1 .. Window |->
        FoldLeft(LAMBDA n, b : n + Len(b.txns), 0, On(LastDays(last)[i]))]

RefreshStats ==
  /\ client.kind = "stats"
  /\ pc = "ready"
  /\ stats' = [day |-> day - 1, counts |-> CountTxns(day - 1)]
  /\ ready' = TRUE
  /\ pc' = "asleep"
  /\ UNCHANGED <<nodeVars, client, pagerVars, answer>>

(* The store cannot be read: what was there stays.                         *)
RefreshFails ==
  /\ client.kind = "stats"
  /\ pc = "ready"
  /\ ready' = TRUE
  /\ pc' = "asleep"
  /\ UNCHANGED <<nodeVars, client, pagerVars, answer, stats>>

-----------------------------------------------------------------------------

Next ==
  \/ StoreBlock \/ ApplyToTree \/ NotifyListeners
  \/ Midnight
  \/ RequestPage \/ SleepOver \/ FirstCommit \/ NextCommit \/ PollTimeout
  \/ \E e \in Elements : GetElement(e)
  \/ ReadElementBlock \/ ReadInputHistory \/ ReadOutputHistory
  \/ RefreshStats \/ RefreshFails

Spec == Init /\ [][Next]_vars

-----------------------------------------------------------------------------

(* All transactions of the chain, or the heights of its blocks, oldest     *)
(* block first or last.                                                    *)
Listing ==
  LET blocks == IF client.ascending THEN chain ELSE Reverse(chain)
      Of(b) == IF client.list = "txns"
                 THEN [j \in DOMAIN b.txns |->
                         [block |-> b.height, index |-> j - 1, id |-> b.txns[j].id]]
               ELSE IF client.list = "nonEmpty" /\ b.txns = <<>> THEN <<>>
               ELSE <<b.height>>
  IN  FlattenSeq([i \in DOMAIN blocks |-> Of(blocks[i])])

(* A reader that follows the cursors of its pages has, after any number of *)
(* them and whatever blocks are committed meanwhile, a contiguous part of  *)
(* the list: nothing is left out, nothing comes twice (the skipping, the   *)
(* extra block and the inclusive cursors of list_txns_inner, the bounds    *)
(* and the order of list_paginated).  Reading oldest first, it starts at   *)
(* the first item.                                                         *)
PagesContiguous ==
  client.kind = "pager" =>
    \E i \in 1 .. Len(Listing) - Len(seen) + 1 :
      /\ seen = SubSeq(Listing, i, i + Len(seen) - 1)
      /\ client.ascending /\ client.side = "after" => i = 1

(* A poll that waited and was woken by a block returns some transaction:   *)
(* one that was committed while it registered is read from the store, and  *)
(* a listener hears of a block only when the store has it.                 *)
WokenPollHasTxns == [][NextCommit => queue' = Tail(queue) \/ seen' # seen]_vars

(* The stream of commit_stream has every block from the wanted height on,  *)
(* each once and in order: those committed before its listener was         *)
(* registered, the one it waited for, and those committed while it read    *)
(* the store.                                                              *)
StreamComplete ==
  [][FirstCommit =>
       SelectSeq(queue', LAMBDA h : h >= TowardsNewer)
         = [i \in 1 .. Last(queue) - TowardsNewer + 1 |-> TowardsNewer + i - 1]]_vars

(* An element created before the request is found, in the block and the    *)
(* transaction that created it, and that transaction can be fetched; one   *)
(* that was spent before the request is not reported unspent, nor one      *)
(* spent that never was; and no request meets a tree and a store that do   *)
(* not go together (BlockNotFound, ElementNotInTxn).                       *)
ElementAnswersTrue ==
  /\ answer.is \notin {"blockNotFound", "notInTxn"}
  /\ answer.is = "notFound" /\ client.includeSpent => ~ answer.created
  /\ answer.is = "found" =>
       /\ \E i \in DOMAIN chain[answer.at].txns :
            /\ chain[answer.at].txns[i].id = answer.txn
            /\ answer.element \in chain[answer.at].txns[i].outs
            /\ GetTxnByHash(db, answer.txn).height = answer.at
            /\ GetTxnByHash(db, answer.txn).index = i - 1
       /\ answer.spent => answer.spentNow
       /\ answer.spentNow => Spent(answer.element)

(* Each day of the statistics has the number of transactions committed on  *)
(* that day, though reading stops at the first block that is too old and   *)
(* blocks are committed after it: today is not one of the days.            *)
StatsExact ==
  \A i \in DOMAIN stats.counts :
    stats.counts[i] =
      FoldLeft(LAMBDA n, b : n + IF b.time = LastDays(stats.day)[i] THEN Len(b.txns) ELSE 0,
               0, chain)
=============================================================================

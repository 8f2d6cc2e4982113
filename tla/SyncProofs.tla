------------------------------ MODULE SyncProofs ------------------------------
(***************************************************************************)
(* A follower that catches up stays in order: with snapshots of blocks     *)
(* (NodeSync), whatever is lost, late or repeated, and what snapshots of   *)
(* notes leave in its tree (FastSync).                                     *)
(***************************************************************************)
EXTENDS NodeSync, FastSync, FollowerProofs

-----------------------------------------------------------------------------
(* Snapshots of blocks.                                                    *)

(* The messages, whose ranges are of numbers and whose blocks are of the   *)
(* chain.                                                                  *)
Ids == SnapshotId \cup {"none"}
Message ==
  [type : {"out_of_sync", "offer"}, id : Ids] \cup [type : {"request"}, id : Ids, from : Nat]
    \cup [type : {"accept"}, id : Ids, from : Nat, to : Nat]
    \cup [type : {"chunk"}, id : Ids, blocks : SUBSET Chain]

SyncInv ==
  /\ chain \in Chain /\ peerHeight \in Nat /\ peerHeight <= chain
  /\ blockNet \subseteq Chain
  /\ chunk \subseteq Chain
  /\ request \in [id : Ids, to : Nat]
  /\ net \subseteq Message
  /\ inbox \in Seq(Message)

(* The fields of a message.                                                *)
LEMMA MessageIs ==
  ASSUME NEW m \in Message
  PROVE  /\ m.id \in Ids
         /\ m.type = "accept" => m.from \in Nat /\ m.to \in Nat
         /\ m.type = "chunk" => m.blocks \subseteq Chain
BY DEF Message

(* The messages the two sides make.                                        *)
LEMMA MessagesAre ==
  ASSUME NEW i \in Ids
  PROVE  /\ [type |-> "out_of_sync", id |-> i] \in Message
         /\ [type |-> "offer", id |-> i] \in Message
         /\ \A n \in Nat : [type |-> "request", id |-> i, from |-> n] \in Message
         /\ \A n, k \in Nat : [type |-> "accept", id |-> i, from |-> n, to |-> k] \in Message
         /\ \A bs \in SUBSET Chain : [type |-> "chunk", id |-> i, blocks |-> bs] \in Message
BY Zenon DEF Message

(* Steps of the peer and of the network leave the node alone.              *)
LEMMA PeerStep ==
  ASSUME SyncInv, NEW m \in net, OfferSnapshot(m) \/ IgnoreRequest(m) \/ SendChunk(m)
           \/ ChunkRangePanics(m) \/ LoseMessage(m) \/ DeliverToWorker(m)
  PROVE  SyncInv' /\ UNCHANGED <<nodeVars, worker, chunk, blockNet>>
<1>1. m \in Message /\ net \subseteq Message
  BY Zenon DEF SyncInv
<1>2. UNCHANGED <<nodeVars, chain, peerHeight, blockNet, worker, chunk, request>>
  BY Zenon DEF OfferSnapshot, IgnoreRequest, SendChunk, ChunkRangePanics, LoseMessage, DeliverToWorker,
         peerVars, workerVars
<1>3. net' \subseteq Message
  <2>1. CASE OfferSnapshot(m)
    BY <1>1, <2>1, MessageIs, MessagesAre, Zenon DEF OfferSnapshot
  <2>2. CASE SendChunk(m)
    <3> DEFINE bs == m.from .. ChunkEnd(m) - 1
    <3>1. m.from \in Nat /\ m.to \in Nat /\ m.id \in Ids
      BY <1>1, <2>2, MessageIs, Zenon DEF SendChunk
    <3>2. bs \subseteq Chain
      BY <3>1, FollowerAssumption DEF ChunkEnd, SyncInv, Chain
    <3> HIDE DEF bs
    <3>3. [type |-> "chunk", id |-> m.id, blocks |-> bs] \in Message
      BY <3>1, <3>2, MessagesAre, Zenon
    <3> QED BY <1>1, <2>2, <3>3, Zenon DEF SendChunk, bs
  <2>3. CASE IgnoreRequest(m) \/ ChunkRangePanics(m) \/ LoseMessage(m) \/ DeliverToWorker(m)
    BY <1>1, <2>3, Zenon DEF IgnoreRequest, ChunkRangePanics, LoseMessage, DeliverToWorker
  <2> QED BY <2>1, <2>2, <2>3, Zenon
<1>4. inbox' \in Seq(Message)
  <2>1. CASE DeliverToWorker(m)
    BY <1>1, <2>1 DEF DeliverToWorker, SyncInv
  <2>2. CASE ~ DeliverToWorker(m)
    BY <2>2, Zenon DEF OfferSnapshot, IgnoreRequest, SendChunk, ChunkRangePanics, LoseMessage, SyncInv
  <2> QED BY <2>1, <2>2, Zenon
<1> QED BY <1>2, <1>3, <1>4, Zenon DEF SyncInv

(* The channel of the sync worker stays one of messages.                   *)
LEMMA WithOutOfSyncTyped ==
  ASSUME SyncInv
  PROVE  WithOutOfSync \in Seq(Message)
<1>1. OutOfSync \in Message
  BY MessagesAre, Zenon DEF OutOfSync, Ids
<1>2. Append(inbox, OutOfSync) \in Seq(Message)
  BY <1>1 DEF SyncInv
<1> QED BY <1>2, Zenon DEF WithOutOfSync, SyncInv

(* The steps of the sync worker that leave the cache alone.                *)
LEMMA WorkerStep ==
  ASSUME FollowerInv, SyncInv,
         TakeOutOfSync \/ (\E id \in SnapshotId : RequestSnapshot(id)) \/ AcceptOffer \/ TakeChunk
           \/ DropMessage \/ TimeOut \/ FinishChunk
  PROVE  SyncInv' /\ UNCHANGED nodeVars /\ worker # "ticking"
<1>1. UNCHANGED <<nodeVars, chain, peerHeight, blockNet>> /\ worker # "ticking"
  BY Zenon DEF TakeOutOfSync, RequestSnapshot, AcceptOffer, TakeChunk, DropMessage, TimeOut, FinishChunk,
         peerVars
<1>2. inbox' \in Seq(Message)
  <2>1. CASE TakeOutOfSync \/ AcceptOffer \/ TakeChunk \/ DropMessage
    BY <2>1, SMTT(30) DEF TakeOutOfSync, AcceptOffer, TakeChunk, DropMessage, SyncInv
  <2>2. CASE (\E id \in SnapshotId : RequestSnapshot(id)) \/ TimeOut
    BY <2>2, Zenon DEF RequestSnapshot, TimeOut, SyncInv
  <2>3. CASE FinishChunk
    BY <2>3, WithOutOfSyncTyped, Zenon DEF FinishChunk, SyncInv
  <2> QED BY <2>1, <2>2, <2>3, Zenon
<1>3. request' \in [id : Ids, to : Nat] /\ net' \subseteq Message
  <2>1. cache.height \in Nat
    BY FollowerAssumption, Zenon DEF FollowerInv, CacheOK, Indexed, Chain
  <2>2. ASSUME NEW id \in SnapshotId, RequestSnapshot(id)
        PROVE  request' \in [id : Ids, to : Nat] /\ net' \subseteq Message
    <3>1. cache.height + 1 \in Nat /\ cache.height + 1 + ChunkSize \in Nat /\ id \in Ids
      BY <2>1, SyncAssumption DEF Ids
    <3>2. request' \in [id : Ids, to : Nat]
      BY <2>2, <3>1, Zenon DEF RequestSnapshot
    <3>3. [type |-> "request", id |-> id, from |-> cache.height + 1] \in Message
      BY <3>1, MessagesAre, Zenon
    <3> QED BY <2>2, <3>2, <3>3, Zenon DEF RequestSnapshot, SyncInv
  <2>3. CASE AcceptOffer
    <3>1. cache.height + 1 \in Nat /\ request.to \in Nat /\ request.id \in Ids
      BY <2>1 DEF SyncInv
    <3>2. [type |-> "accept", id |-> request.id, from |-> cache.height + 1, to |-> request.to]
            \in Message
      BY <3>1, MessagesAre, Zenon
    <3> QED BY <2>3, <3>2, Zenon DEF AcceptOffer, SyncInv
  <2>4. CASE TakeOutOfSync \/ TakeChunk \/ DropMessage \/ TimeOut \/ FinishChunk
    BY <2>4, Zenon DEF TakeOutOfSync, TakeChunk, DropMessage, TimeOut, FinishChunk, SyncInv, workerVars
  <2> QED BY <2>2, <2>3, <2>4, Zenon
<1>4. chunk' \subseteq Chain
  <2>1. CASE TakeChunk
    <3>1. Head(inbox) \in Message
      BY <2>1 DEF TakeChunk, SyncInv
    <3>2. Head(inbox).type = "chunk" /\ chunk' = Head(inbox).blocks
      BY <2>1, Zenon DEF TakeChunk, Awaited
    <3> QED BY <3>1, <3>2, MessageIs, Zenon
  <2>2. CASE ~ TakeChunk
    BY <2>2, Zenon DEF TakeOutOfSync, RequestSnapshot, AcceptOffer, DropMessage, TimeOut, FinishChunk,
                workerVars, SyncInv
  <2> QED BY <2>1, <2>2, Zenon
<1> QED BY <1>1, <1>2, <1>3, <1>4, Zenon DEF SyncInv

(* The wake-up for a block of a chunk is on its way while the worker is    *)
(* between its insert and its ticker.tick().                               *)
SyncWake == worker # "ticking" => WakeInv

(* Every step keeps the follower in order, the messages typed and the      *)
(* wake-ups.                                                               *)
LEMMA SyncStepInv ==
  FollowerInv /\ SyncInv /\ SyncWake /\ [SyncNext]_allVars => FollowerInv' /\ SyncInv' /\ SyncWake'
<1> SUFFICES ASSUME FollowerInv, SyncInv, SyncWake, [SyncNext]_allVars
             PROVE  FollowerInv' /\ SyncInv' /\ SyncWake'
  BY Zenon
<1>0. Chain \subseteq Block /\ ChainHeight \in Nat
  BY FollowerAssumption, Zenon
<1>1. ASSUME UNCHANGED nodeVars PROVE FollowerInv' /\ (WakeInv => WakeInv')
  BY <1>1, FollowerStepInv, Zenon DEF nodeVars, WakeInv
<1>2. CASE ProduceBlock \/ PeerCommits \/ (\E b \in blockNet : LoseBlock(b))
  <2>1. UNCHANGED <<nodeVars, worker, chunk, request, net, inbox>>
    BY <1>2, Zenon DEF ProduceBlock, PeerCommits, LoseBlock, workerVars
  <2>2. chain' \in Chain /\ peerHeight' \in Nat /\ peerHeight' <= chain' /\ blockNet' \subseteq Chain
    <3>1. CASE ProduceBlock
      <4>1. chain \in Nat /\ chain' = chain + 1 /\ chain' \in Chain /\ peerHeight' = peerHeight
        BY <1>0, <3>1 DEF ProduceBlock, SyncInv, Chain
      <4>2. blockNet' \subseteq Chain
        BY <3>1, <4>1, Zenon DEF ProduceBlock, SyncInv
      <4> QED BY <4>1, <4>2 DEF SyncInv
    <3>2. CASE PeerCommits
      BY <1>0, <3>2 DEF PeerCommits, SyncInv, Chain
    <3>3. CASE \E b \in blockNet : LoseBlock(b)
      BY <3>3, Zenon DEF LoseBlock, SyncInv
    <3> QED BY <1>2, <3>1, <3>2, <3>3, Zenon
  <2>3. SyncInv'
    BY <2>1, <2>2, Zenon DEF SyncInv
  <2> QED BY <1>1, <2>1, <2>3, Zenon DEF SyncWake
<1>3. ASSUME NEW b \in blockNet, DeliverBlock(b) PROVE FollowerInv' /\ SyncInv' /\ SyncWake'
  <2>1. b \in Block /\ ReceiveBlock(b)
    BY <1>0, <1>3, Zenon DEF DeliverBlock, SyncInv
  <2>2. FollowerInv'
    BY <2>1, FollowerStepInv, Zenon DEF FollowerNext
  <2>3. SyncInv' /\ worker' = worker
    BY <1>3, Zenon DEF DeliverBlock, SyncInv, workerVars
  <2> QED BY <2>1, <2>2, <2>3, WakeStep, Zenon DEF SyncWake
<1>4. CASE (\E m \in net : LoseMessage(m)) \/ PeerHandles \/ WorkerDelivery
  BY <1>1, <1>4, PeerStep, Zenon DEF PeerHandles, WorkerDelivery, SyncWake
<1>5. CASE NodeTicks \/ NodeNotifies
  <2>1. Tick \/ SignalOutOfSync \/ Notify
    BY <1>5, Zenon DEF NodeTicks, TickSignals, NodeNotifies
  <2>2. FollowerInv' /\ (WakeInv => WakeInv')
    BY <2>1, TickStep, IdleStep, WakeStep, Zenon
  <2>3. SyncInv' /\ worker' = worker
    BY <1>5, WithOutOfSyncTyped, Zenon DEF NodeTicks, TickSignals, NodeNotifies, syncVars, peerVars,
                                    workerVars, SyncInv
  <2> QED BY <2>2, <2>3, Zenon DEF SyncWake
<1>6. CASE InsertFromChunk
  <2>1. PICK b \in chunk : cache' = Inserted(cache, b) /\ chunk' = chunk \ {b}
    BY <1>6, Zenon DEF InsertFromChunk
  <2>2. b \in Block /\ wake' \in BOOLEAN /\ notifying' \in BOOLEAN
    BY <1>0, <1>6, <2>1, Zenon DEF InsertFromChunk, SyncInv, FollowerInv, StateOK
  <2>3. UNCHANGED <<nodeStore, nodeTree, tickStep, work, failures>>
    BY <1>6, Zenon DEF InsertFromChunk
  <2>4. FollowerInv'
    BY <2>1, <2>2, <2>3, InsertStep, Zenon
  <2>5. SyncInv' /\ worker' = "ticking"
    BY <1>6, <2>1, Zenon DEF InsertFromChunk, SyncInv, peerVars
  <2> QED BY <2>4, <2>5, Zenon DEF SyncWake
<1>7. CASE TickAfterInsert
  <2>1. FollowerInv'
    <3>1. /\ wake' = TRUE
          /\ UNCHANGED <<cache, nodeStore, nodeTree, tickStep, work, notifying, failures>>
      BY <1>7, Zenon DEF TickAfterInsert
    <3>2. Stored' = Stored
      BY <3>1, SameStored, Zenon
    <3> QED BY <3>1, <3>2 DEF FollowerInv, StateOK, TickOK, HeightsOK, HolesAreEmptyBlocks,
                              TreeOK, NoFailureOK, Fits, Applied, NodeUp
  <2>2. SyncInv' /\ WakeInv'
    BY <1>7, Zenon DEF TickAfterInsert, SyncInv, peerVars, WakeInv
  <2> QED BY <2>1, <2>2, Zenon DEF SyncWake
<1>8. CASE WorkerSteps /\ ~ InsertFromChunk /\ ~ TickAfterInsert
  BY <1>1, <1>8, WorkerStep, Zenon DEF WorkerSteps, SyncWake
<1>9. CASE UNCHANGED allVars
  BY <1>1, <1>9, Zenon DEF allVars, syncVars, peerVars, workerVars, SyncInv, SyncWake
<1> QED BY <1>2, <1>3, <1>4, <1>5, <1>6, <1>7, <1>8, <1>9, Zenon DEF SyncNext, WorkerSteps

(* The first state is in order.                                            *)
LEMMA SyncInitInv == SyncInit => FollowerInv /\ SyncInv /\ SyncWake
<1> SUFFICES ASSUME SyncInit PROVE FollowerInv /\ SyncInv /\ SyncWake
  BY Zenon
<1>1. FollowerInv /\ WakeInv
  BY FollowerInitInv, Zenon DEF SyncInit
<1>2. 0 \in Chain /\ NoRequest \in [id : Ids, to : Nat]
  BY FollowerAssumption DEF Chain, NoRequest, Ids
<1> QED BY <1>1, <1>2 DEF SyncInit, SyncInv, SyncWake

(* The cache, the store and the tree of a node also stay in step while it  *)
(* catches up with snapshots of blocks, whatever messages are lost, late   *)
(* or answers to earlier requests.                                         *)
THEOREM SyncingNodeInOrder == SyncSpec => []NodesInOrder
<1>1. SyncInit => FollowerInv /\ SyncInv /\ SyncWake
  BY SyncInitInv, Zenon
<1>2. FollowerInv /\ SyncInv /\ SyncWake /\ [SyncNext]_allVars
        => FollowerInv' /\ SyncInv' /\ SyncWake'
  BY SyncStepInv, Zenon
<1>3. FollowerInv => NodesInOrder
  BY InvInOrder, Zenon
<1> QED BY <1>1, <1>2, <1>3, PTL DEF SyncSpec

(* No call of ticker.tick() is lost, the sync worker's between its inserts *)
(* included.                                                               *)
THEOREM SyncingNodeWakes == SyncSpec => []NoWakeLost
<1>1. SyncInit => FollowerInv /\ SyncInv /\ SyncWake
  BY SyncInitInv, Zenon
<1>2. FollowerInv /\ SyncInv /\ SyncWake /\ [SyncNext]_allVars
        => FollowerInv' /\ SyncInv' /\ SyncWake'
  BY SyncStepInv, Zenon
<1>3. SyncWake => NoWakeLost
  BY Zenon DEF SyncWake, WakeInv, NoWakeLost, NothingLeftUndone
<1> QED BY <1>1, <1>2, <1>3, PTL DEF SyncSpec

-----------------------------------------------------------------------------
(* Snapshots of notes.                                                     *)

(* A snapshot moves the height of the cache and the tree under the tick    *)
(* worker, so little of FollowerInv is left.                               *)
FastInv ==
  /\ Indexed(cache)
  /\ nodeStore \subseteq 1 .. ChainHeight
  /\ tickStep = "validating" => work \in Block /\ HeightOf[work] >= 1
  /\ tickStep \in {"confirming", "storing", "applying"} => work \in 1 .. ChainHeight
  /\ fast \in [phase : {"idle", "asking", "inserting"}, to : Chain]
  /\ fast.phase # "idle" => fast.to \in 1 .. ChainHeight

(* So it is where snapshots of notes are used.                             *)
LEMMA FastInitInv == FastInit => FastInv
<1> SUFFICES ASSUME FastInit PROVE FastInv
  BY Zenon
<1>1. FollowerInv /\ 0 \in Chain
  BY FollowerInitInv, FollowerAssumption DEF FastInit, Chain
<1>2. Indexed(cache) /\ nodeStore \subseteq 1 .. ChainHeight
  BY <1>1, Zenon DEF FollowerInv, CacheOK, HeightsOK
<1>3. tickStep = "looking"
  BY Zenon DEF FastInit, FollowerInit
<1>4. fast = [phase |-> "idle", to |-> 0]
  BY Zenon DEF FastInit, Idle
<1>5. fast \in [phase : {"idle", "asking", "inserting"}, to : Chain] /\ fast.phase = "idle"
  BY <1>1, <1>4, Zenon
<1> QED BY <1>2, <1>3, <1>5, Zenon DEF FastInv

(* The steps of the node, whatever tree and height they find.              *)
LEMMA FastNodeStep ==
  ASSUME FastInv, UNCHANGED fast,
         (\E b \in Block : ReceiveBlock(b)) \/ Notify \/ Tick \/ TickAfterSnapshot
           \/ SignalOutOfSync \/ Restart \/ RestartReset
  PROVE  FastInv'
<1>0. Chain \subseteq Block /\ ChainHeight \in Nat /\ 1 .. ChainHeight \subseteq Chain /\ 0 \in Chain
  BY FollowerAssumption DEF Chain
<1>1. Indexed(cache')
  <2>1. ASSUME NEW b \in Block, ReceiveBlock(b) PROVE Indexed(cache')
    BY <2>1, InsertedIndexed, Zenon DEF ReceiveBlock, FastInv
  <2>2. CASE RemoveBlock
    BY <2>2, RemovedIs, Zenon DEF RemoveBlock, FastInv
  <2>3. CASE FollowerConfirms
    BY <1>0, <2>3, ConfirmedIs, Zenon DEF FollowerConfirms, FastInv
  <2>4. CASE (Restart /\ ~ RestartPanics) \/ RestartReset
    <3>1. PICK h \in Chain : cache' = NewCache(h)
      BY <1>0, <2>4, TopOf, Zenon DEF Restart, RestartEmpty, RestartInSync, RestartReset, StartFrom,
                               FastInv, MaxStored
    <3> QED BY <3>1, NewCacheOK, Zenon DEF CacheOK
  <2>5. CASE Notify \/ TickAfterSnapshot \/ SignalOutOfSync \/ RestartPanics
    BY <2>5, Zenon DEF Notify, TickAfterSnapshot, CommitPanics, ApplyRefused, CheckPanics, SignalOutOfSync,
                RestartPanics, FastInv
  <2>6. CASE Tick /\ ~ RemoveBlock /\ ~ FollowerConfirms
    <3>1. cache' = cache
      BY <2>6, Zenon DEF Tick, TakeNext, NoNext, Validate, FollowerStores, FollowerStoreFails,
                  FollowerApplies, Pause, Wake, Retry
    <3> QED BY <3>1, Zenon DEF FastInv
  <2> QED BY <2>1, <2>2, <2>3, <2>4, <2>5, <2>6, Zenon
<1>2. nodeStore' \subseteq 1 .. ChainHeight
  <2>1. CASE FollowerStores
    BY <2>1, Zenon DEF FollowerStores, FastInv
  <2>2. CASE RestartReset
    BY <2>2, Zenon DEF RestartReset
  <2>3. CASE ~ FollowerStores /\ ~ RestartReset
    <3>1. nodeStore' = nodeStore
      BY <2>3, Zenon DEF ReceiveBlock, Notify, TickAfterSnapshot, CommitPanics, ApplyRefused, CheckPanics,
                  SignalOutOfSync, Restart, RestartEmpty, RestartInSync, RestartPanics, Tick,
                  TakeNext, NoNext, Validate, RemoveBlock, FollowerConfirms, FollowerStoreFails,
                  FollowerApplies, Pause, Wake, Retry
    <3> QED BY <3>1, Zenon DEF FastInv
  <2> QED BY <2>1, <2>2, <2>3, Zenon
<1>3. /\ tickStep' = "validating" => work' \in Block /\ HeightOf[work'] >= 1
      /\ tickStep' \in {"confirming", "storing", "applying"} => work' \in 1 .. ChainHeight
  <2>1. CASE TakeNext
    <3>1. PICK h \in DOMAIN cache.index : h = cache.height + 1 /\ work' = cache.index[h]
      BY <2>1, Zenon DEF TakeNext, NextCommit
    <3>2. work' \in Block /\ HeightOf[work'] = cache.height + 1 /\ cache.height \in Nat
      BY <1>0, <3>1 DEF FastInv, Indexed, Chain
    <3>3. tickStep' = "validating" /\ HeightOf[work'] >= 1
      BY <2>1, <3>2 DEF TakeNext
    <3> QED BY <3>2, <3>3, Zenon
  <2>2. CASE Validate
    <3>1. ASSUME ValidBlock(work) PROVE work \in 1 .. ChainHeight
      BY <1>0, <2>2, <3>1, FollowerAssumption DEF Validate, ValidBlock, FastInv, Chain
    <3>2. work' = work /\ (tickStep' = "confirming" => ValidBlock(work))
          /\ tickStep' \in {"confirming", "removing"}
      BY <2>2, Zenon DEF Validate
    <3> QED BY <3>1, <3>2, Zenon
  <2>3. CASE ~ TakeNext /\ ~ Validate
    <3>1. \/ work' = work /\ (tickStep' = tickStep \/ tickStep' \notin {"validating", "confirming",
                                                                     "storing", "applying"})
          \/ work' = work /\ tickStep \in {"confirming", "storing"}
                          /\ tickStep' \in {"storing", "applying"}
      BY <2>3, Zenon DEF ReceiveBlock, Notify, TickAfterSnapshot, CommitPanics, ApplyRefused, CheckPanics,
                  SignalOutOfSync, Restart, RestartEmpty, RestartInSync, RestartPanics, RestartReset,
                  StartFrom, Tick, NoNext, RemoveBlock, FollowerConfirms, FollowerStores,
                  FollowerStoreFails, FollowerApplies, Pause, Wake, Retry
    <3> QED BY <3>1, Zenon DEF FastInv
  <2> QED BY <2>1, <2>2, <2>3, Zenon
<1> QED BY <1>1, <1>2, <1>3, Zenon DEF FastInv

(* The steps of the sync worker.                                           *)
LEMMA FastStepInv == FastInv /\ [FastNext]_fastVars => FastInv'
<1> SUFFICES ASSUME FastInv, [FastNext]_fastVars PROVE FastInv'
  BY Zenon
<1>0. ChainHeight \in Nat /\ 1 .. ChainHeight \subseteq Chain /\ 0 \in Chain /\ Chain \subseteq Block
  BY FollowerAssumption DEF Chain
<1>1. CASE \/ \E b \in Block : ReceiveBlock(b) /\ UNCHANGED <<maxSeen, fast>>
           \/ (Notify \/ Tick \/ TickAfterSnapshot) /\ UNCHANGED <<maxSeen, fast>>
           \/ (Restart \/ RestartReset) /\ UNCHANGED <<maxSeen, fast>>
           \/ SignalFast
  BY <1>1, FastNodeStep, Zenon DEF SignalFast
<1>2. ASSUME NEW h \in Chain, RequestFast(h) PROVE FastInv'
  <2>1. UNCHANGED nodeVars /\ fast' = [phase |-> "asking", to |-> h]
        /\ h > cache.height + 1 + FastChunkSize
    BY <1>2, Zenon DEF RequestFast
  <2>2. h \in 1 .. ChainHeight
    BY <1>0, <2>1, FastAssumption DEF FastInv, Indexed, Chain
  <2>3. fast' \in [phase : {"idle", "asking", "inserting"}, to : Chain] /\ fast'.to = h
    BY <2>1, Zenon
  <2> QED BY <2>1, <2>2, <2>3, Zenon DEF FastInv, nodeVars
<1>3. CASE SkipFast \/ GiveUpFast \/ UNCHANGED fastVars
  <2>1. UNCHANGED nodeVars /\ (fast' = fast \/ fast' = [phase |-> "idle", to |-> 0])
    BY <1>3, Zenon DEF SkipFast, GiveUpFast, Idle, fastVars
  <2>2. /\ fast' \in [phase : {"idle", "asking", "inserting"}, to : Chain]
        /\ fast'.phase # "idle" => fast'.to \in 1 .. ChainHeight
    BY <1>0, <2>1 DEF FastInv
  <2> QED BY <2>1, <2>2, Zenon DEF FastInv, nodeVars
<1>4. ASSUME NEW elements, ApplyFastChunk(elements) PROVE FastInv'
  <2>1. /\ cache' = Confirmed(cache, fast.to - 1) /\ fast' = [fast EXCEPT !.phase = "inserting"]
        /\ UNCHANGED <<nodeStore, tickStep, work>> /\ fast.phase = "asking"
    BY <1>4, Zenon DEF ApplyFastChunk
  <2>2. fast.to \in 1 .. ChainHeight /\ fast.to - 1 \in Chain
    BY <1>0, <2>1 DEF FastInv, Chain
  <2>3. Indexed(cache')
    BY <2>1, <2>2, ConfirmedIs, Zenon DEF FastInv
  <2>4. /\ fast' \in [phase : {"idle", "asking", "inserting"}, to : Chain]
        /\ fast'.to \in 1 .. ChainHeight
    BY <2>1, <2>2, Zenon DEF FastInv
  <2> QED BY <2>1, <2>3, <2>4, Zenon DEF FastInv
<1>5. CASE InsertFastBlock
  <2>1. /\ cache' = Inserted(cache, fast.to) /\ fast' = [phase |-> "idle", to |-> 0]
        /\ UNCHANGED <<nodeStore, tickStep, work>> /\ fast.to \in Block
    BY <1>0, <1>5, Zenon DEF InsertFastBlock, ReceiveBlock, Idle, FastInv
  <2>2. Indexed(cache')
    BY <2>1, InsertedIndexed, Zenon DEF FastInv
  <2>3. fast' \in [phase : {"idle", "asking", "inserting"}, to : Chain] /\ fast'.phase = "idle"
    BY <1>0, <2>1, Zenon
  <2> QED BY <2>1, <2>2, <2>3, Zenon DEF FastInv
<1>6. CASE CrashFast
  <2>1. /\ cache' = NewCache(0) /\ fast' = [phase |-> "idle", to |-> 0]
        /\ nodeStore' = nodeStore /\ tickStep' = "down"
    BY <1>6, Zenon DEF CrashFast, FollowerCrash, Idle
  <2>2. Indexed(cache')
    BY <1>0, <2>1, NewCacheOK, Zenon DEF CacheOK
  <2>3. fast' \in [phase : {"idle", "asking", "inserting"}, to : Chain] /\ fast'.phase = "idle"
    BY <1>0, <2>1, Zenon
  <2> QED BY <2>1, <2>2, <2>3, Zenon DEF FastInv
<1> QED BY <1>1, <1>2, <1>3, <1>4, <1>5, <1>6, Zenon DEF FastNext

(* apply_fast_snapshot_chunk leaves the tree before the block.             *)
LEMMA BeforeBlockIs ==
  ASSUME NEW b \in 1 .. ChainHeight, NEW elements, Usable(b, elements)
  PROVE  BeforeBlock(b, elements) = NotesAfter[b - 1]
<1> DEFINE made == Creates[b]
           spent == Consumes[b]
           old == NotesAfter[b - 1]
<1>1. made \cap old = {} /\ spent \subseteq old /\ elements = (old \ spent) \cup made
  BY BlockFits, Zenon DEF Usable
<1>2. made \cup spent \subseteq ((elements \ nodeTree) \cap made) \cup ((nodeTree \ elements) \cap spent)
  BY Zenon DEF Usable, LastBlockElements, FoundInChunk
<1>3. BeforeBlock(b, elements) =
        (nodeTree \cup ((elements \ nodeTree) \ made)) \ ((nodeTree \ elements) \ spent)
  BY Zenon DEF BeforeBlock
<1> HIDE DEF made, spent, old
<1>4. made \cap nodeTree = {} /\ spent \subseteq nodeTree
  BY <1>1, <1>2, Zenon
<1>5. BeforeBlock(b, elements) = old
  BY <1>1, <1>3, <1>4, Zenon
<1> QED BY <1>5, Zenon DEF old

(* The three promises of a step.                                           *)
LEMMA FastStepExact ==
  ASSUME FastInv, [FastNext]_fastVars
  PROVE  /\ fast.phase = "asking" /\ fast'.phase = "inserting" /\ nodeTree' # nodeTree =>
              nodeTree' = NotesAfter[fast.to - 1]
         /\ tickStep = "validating" /\ tickStep' = "confirming" => nodeTree = NotesAfter[work - 1]
         /\ tickStep = "down" /\ tickStep' = "looking" => nodeTree' = NotesAfter[cache'.height]
<1>1. ASSUME fast.phase = "asking", fast'.phase = "inserting", nodeTree' # nodeTree
      PROVE  nodeTree' = NotesAfter[fast.to - 1]
  <2>1. PICK elements : ApplyFastChunk(elements)
    BY <1>1 DEF FastNext, SignalFast, RequestFast, SkipFast, GiveUpFast, InsertFastBlock, CrashFast,
                fastVars, Idle
  <2>2. Usable(fast.to, elements) /\ nodeTree' = BeforeBlock(fast.to, elements)
    BY <1>1, <2>1, Zenon DEF ApplyFastChunk
  <2>3. fast.to \in 1 .. ChainHeight
    BY <1>1, Zenon DEF FastInv
  <2> QED BY <2>2, <2>3, BeforeBlockIs, Zenon
<1>2. ASSUME tickStep = "validating", tickStep' = "confirming"
      PROVE  nodeTree = NotesAfter[work - 1]
  <2>1. ValidBlock(work)
    BY <1>2, Zenon DEF FastNext, SignalFast, RequestFast, SkipFast, GiveUpFast, InsertFastBlock, CrashFast,
                fastVars, nodeVars, ApplyFastChunk, ReceiveBlock, Notify, TickAfterSnapshot,
                CommitPanics, ApplyRefused, CheckPanics, SignalOutOfSync, Restart, RestartEmpty,
                RestartInSync, RestartPanics, RestartReset, StartFrom, FollowerCrash, Tick, TakeNext,
                NoNext, Validate, RemoveBlock, FollowerConfirms, FollowerStores,
                FollowerStoreFails, FollowerApplies, Pause, Wake, Retry
  <2>2. work \in 1 .. ChainHeight
    BY <1>2, <2>1, FollowerAssumption DEF ValidBlock, FastInv, Chain
  <2>3. /\ Consumes[work] \subseteq nodeTree /\ Creates[work] \cap nodeTree = {}
        /\ (nodeTree \ Consumes[work]) \cup Creates[work] = NotesAfter[work]
    BY <2>1, Zenon DEF ValidBlock, Applied
  <2> QED BY <2>2, <2>3, OnlyPredecessor, Zenon
<1>3. ASSUME tickStep = "down", tickStep' = "looking"
      PROVE  nodeTree' = NotesAfter[cache'.height]
  <2>1. RestartEmpty \/ RestartInSync \/ RestartReset
    BY <1>3, Zenon DEF FastNext, SignalFast, RequestFast, SkipFast, GiveUpFast, InsertFastBlock, CrashFast,
                fastVars, nodeVars, ApplyFastChunk, ReceiveBlock, Notify, TickAfterSnapshot,
                CommitPanics, ApplyRefused, CheckPanics, SignalOutOfSync, Restart,
                RestartPanics, FollowerCrash, NodeUp, Tick, TakeNext,
                NoNext, Validate, RemoveBlock, FollowerConfirms, FollowerStores,
                FollowerStoreFails, FollowerApplies, Pause, Wake, Retry
  <2>2. PICK h \in Chain : cache' = NewCache(h) /\ nodeTree' = NotesAfter[h]
    <3>1. nodeStore # {} => MaxStored \in Chain
      <4>1. nodeStore # {} => MaxStored \in 1 .. ChainHeight
        BY TopOf, Zenon DEF FastInv, MaxStored
      <4> QED BY <4>1, FollowerAssumption DEF Chain
    <3>2. 0 \in Chain
      BY FollowerAssumption DEF Chain
    <3> QED BY <2>1, <3>1, <3>2, Zenon DEF RestartEmpty, RestartInSync, RestartReset, StartFrom
  <2> QED BY <2>2, NewCacheOK, Zenon
<1> QED BY <1>1, <1>2, <1>3, Zenon

(* A snapshot of notes leaves exactly the tree before its block, blocks    *)
(* are validated only on the tree of their predecessor, and a node starts  *)
(* with the tree of its last block, whatever snapshots, commits and        *)
(* crashes came before, for every chain and every number of notes.         *)
THEOREM FastSyncIsExact == FastSpec => FastSyncExact
<1>1. FastSpec => []FastInv
  BY FastInitInv, FastStepInv, PTL DEF FastSpec
<1>2. FastInv /\ [FastNext]_fastVars =>
        /\ [fast.phase = "asking" /\ fast'.phase = "inserting" /\ nodeTree' # nodeTree =>
              nodeTree' = NotesAfter[fast.to - 1]]_fastVars
        /\ [tickStep = "validating" /\ tickStep' = "confirming" =>
              nodeTree = NotesAfter[work - 1]]_fastVars
        /\ [tickStep = "down" /\ tickStep' = "looking" =>
              nodeTree' = NotesAfter[cache'.height]]_fastVars
  BY FastStepExact, Zenon
<1> QED
  BY <1>1, <1>2, PTL DEF FastSpec, FastSyncExact, FastTreeExact, ValidOnlyOnPredecessor,
                         StartsConsistent
===============================================================================

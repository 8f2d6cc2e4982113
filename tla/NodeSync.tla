------------------------------ MODULE NodeSync ------------------------------
(***************************************************************************)
(* How a follower that missed blocks catches up: the sync worker           *)
(* (pkg/node/src/sync.rs) asks its peers for a snapshot, accepts an offer, *)
(* and inserts the blocks of the chunk it is sent, while the tick worker   *)
(* of module Follower commits what the cache has and new blocks arrive.    *)
(* Here the snapshots are of the slow kind, made of blocks, and one peer   *)
(* answers.  The peer is a node that commits the chain at its own pace.    *)
(*                                                                         *)
(* Each message travels on a stream of its own (pkg/p2p2): messages may    *)
(* overtake each other or be lost, and are not duplicated.                 *)
(***************************************************************************)
EXTENDS Follower, Sequences

CONSTANTS
  ChunkSize,    \* sync_chunk_size
  SnapshotId,   \* random 64-bit numbers; a fresh one is not in use
  MaxLate       \* bound: messages lost, and timeouts while the answer is under way

ASSUME SyncAssumption ==
  /\ ChunkSize \in Nat \ {0}
  /\ MaxLate \in Nat

VARIABLES
  chain,      \* the height of the validator
  blockNet,   \* blocks on their way from the validator
  net,        \* messages between the node and the peer
  peerHeight, \* the peer's height
  peerUp,     \* the peer's network handler task is running
  worker,     \* where the sync worker is
  request,    \* its snapshot id and to_height
  chunk,      \* the blocks of the chunk it has not inserted yet
  inbox,      \* the sync worker's channel
  late        \* losses and early timeouts so far

peerVars == <<chain, blockNet, peerHeight, peerUp>>
workerVars == <<worker, request, chunk>>
syncVars == <<peerVars, net, workerVars, inbox, late>>
allVars == <<nodeVars, syncVars>>

NoRequest == [id |-> "none", to |-> 0]
OutOfSync == [type |-> "out_of_sync", id |-> "none"]

SyncInit ==
  /\ FollowerInit
  /\ chain = 0
  /\ blockNet = {}
  /\ net = {}
  /\ peerHeight = 0
  /\ peerUp = TRUE
  /\ worker = "idle"
  /\ request = NoRequest
  /\ chunk = {}
  /\ inbox = <<>>
  /\ late = 0

-----------------------------------------------------------------------------

(* The validator sends a block to its peers (module Proposer).             *)
ProduceBlock ==
  /\ chain < ChainHeight
  /\ chain' = chain + 1
  /\ blockNet' = blockNet \cup {chain + 1}
  /\ UNCHANGED <<nodeVars, net, peerHeight, peerUp, workerVars, inbox, late>>

DeliverBlock(b) ==
  /\ b \in blockNet
  /\ ReceiveBlock(b)
  /\ blockNet' = blockNet \ {b}
  /\ UNCHANGED <<chain, net, peerHeight, peerUp, workerVars, inbox, late>>

LoseBlock(b) ==
  /\ b \in blockNet
  /\ blockNet' = blockNet \ {b}
  /\ UNCHANGED <<nodeVars, chain, net, peerHeight, peerUp, workerVars, inbox, late>>

LoseMessage(m) ==
  /\ m \in net
  /\ late < MaxLate
  /\ net' = net \ {m}
  /\ late' = late + 1
  /\ UNCHANGED <<nodeVars, peerVars, workerVars, inbox>>

-----------------------------------------------------------------------------

(* The peer.                                                               *)
PeerCommits ==
  /\ peerUp
  /\ peerHeight < chain
  /\ peerHeight' = peerHeight + 1
  /\ UNCHANGED <<nodeVars, chain, blockNet, net, peerUp, workerVars, inbox, late>>

(* handle_snapshot_request: a peer that is too far behind ignores it.      *)
OfferSnapshot(m) ==
  /\ peerUp
  /\ m \in net /\ m.type = "request"
  /\ m.from <= peerHeight
  /\ net' = (net \ {m}) \cup {[type |-> "offer", id |-> m.id]}
  /\ UNCHANGED <<nodeVars, peerVars, workerVars, inbox, late>>

IgnoreRequest(m) ==
  /\ peerUp
  /\ m \in net /\ m.type = "request"
  /\ m.from > peerHeight \/ peerHeight < chain
  /\ net' = net \ {m}
  /\ UNCHANGED <<nodeVars, peerVars, workerVars, inbox, late>>

(* send_snapshot_chunk_slow: up to, and without, the lesser of to_height   *)
(* and the peer's own next height.                                         *)
ChunkEnd(m) == IF m.to < peerHeight + 1 THEN m.to ELSE peerHeight + 1

(* A chunk holds the blocks of the range that the cache or the store has.  *)
SendChunk(m) ==
  /\ peerUp
  /\ m \in net /\ m.type = "accept"
  /\ m.from <= ChunkEnd(m)
  /\ net' = (net \ {m}) \cup
              {[type |-> "chunk", id |-> m.id, blocks |-> m.from .. ChunkEnd(m) - 1]}
  /\ UNCHANGED <<nodeVars, peerVars, workerVars, inbox, late>>

(* BTreeMap::range panics when its start is greater than its end, and with *)
(* it the task that handles all network events.                            *)
ChunkRangePanics(m) ==
  /\ peerUp
  /\ m \in net /\ m.type = "accept"
  /\ m.from > ChunkEnd(m)
  /\ net' = net \ {m}
  /\ peerUp' = FALSE
  /\ UNCHANGED <<nodeVars, chain, blockNet, peerHeight, workerVars, inbox, late>>

-----------------------------------------------------------------------------

(* The node's network handler passes offers and chunks to the worker.      *)
DeliverToWorker(m) ==
  /\ m \in net /\ m.type \in {"offer", "chunk"}
  /\ net' = net \ {m}
  /\ inbox' = Append(inbox, m)
  /\ UNCHANGED <<nodeVars, peerVars, workerVars, late>>

(* SyncWorkerChannel::out_of_sync.  Bound: the message is not queued twice *)
(* at a time (tick repeats it every 5 seconds while the worker is busy).   *)
WithOutOfSync ==
  IF \E i \in DOMAIN inbox : inbox[i] = OutOfSync THEN inbox ELSE Append(inbox, OutOfSync)

(* handle_out_of_sync of NodeShared, called by tick.                       *)
TickSignals ==
  /\ SignalOutOfSync
  /\ inbox' = WithOutOfSync
  /\ UNCHANGED <<peerVars, net, workerVars, late>>

-----------------------------------------------------------------------------

InUse == {m.id : m \in net} \cup {inbox[i].id : i \in DOMAIN inbox}

(* wait_for_out_of_sync drops all other messages; handle_out_of_sync does  *)
(* nothing when the node has caught up.                                    *)
TakeOutOfSync ==
  /\ worker = "idle"
  /\ inbox # <<>>
  /\ inbox' = Tail(inbox)
  /\ worker' = IF Head(inbox) = OutOfSync /\ IsOutOfSync(cache) THEN "requesting" ELSE "idle"
  /\ UNCHANGED <<nodeVars, peerVars, net, request, chunk, late>>

RequestSnapshot(id) ==
  /\ worker = "requesting"
  /\ id \notin InUse
  /\ request' = [id |-> id, to |-> cache.height + 1 + ChunkSize]
  /\ net' = net \cup {[type |-> "request", id |-> id, from |-> cache.height + 1]}
  /\ worker' = "asking"
  /\ UNCHANGED <<nodeVars, peerVars, chunk, inbox, late>>

(* wait_for_snapshot_offer and wait_for_snapshot_chunk drop every message  *)
(* that is not the one they wait for.                                      *)
Awaited(m) ==
  /\ m.type = IF worker = "asking" THEN "offer" ELSE "chunk"
  /\ m.id = request.id

DropMessage ==
  /\ worker \in {"asking", "accepting"}
  /\ inbox # <<>>
  /\ ~ Awaited(Head(inbox))
  /\ inbox' = Tail(inbox)
  /\ UNCHANGED <<nodeVars, peerVars, net, workerVars, late>>

(* handle_snapshot_offer asks from the height the node has by now.         *)
AcceptOffer ==
  /\ worker = "asking"
  /\ inbox # <<>>
  /\ Awaited(Head(inbox))
  /\ net' = net \cup {[type |-> "accept", id |-> request.id,
                       from |-> cache.height + 1, to |-> request.to]}
  /\ worker' = "accepting"
  /\ inbox' = Tail(inbox)
  /\ UNCHANGED <<nodeVars, peerVars, request, chunk, late>>

TakeChunk ==
  /\ worker = "accepting"
  /\ inbox # <<>>
  /\ Awaited(Head(inbox))
  /\ chunk' = Head(inbox).blocks
  /\ worker' = "applying"
  /\ inbox' = Tail(inbox)
  /\ UNCHANGED <<nodeVars, peerVars, net, request, late>>

(* The select with a timer, 10 seconds for an offer and sync_timeout_ms    *)
(* for a chunk.                                                            *)
TimeOut ==
  /\ worker \in {"asking", "accepting"}
  /\ IF request.id \in InUse /\ peerUp
       THEN late < MaxLate /\ late' = late + 1
       ELSE UNCHANGED late
  /\ worker' = "idle"
  /\ UNCHANGED <<nodeVars, peerVars, net, request, chunk, inbox>>

(* handle_snapshot_chunk_slow: each block in the order of heights, and a   *)
(* tick after each.                                                        *)
InsertFromChunk ==
  /\ worker = "applying"
  /\ \E b \in chunk :
       /\ \A c \in chunk : b <= c
       /\ cache' = Inserted(cache, b)
       /\ chunk' = chunk \ {b}
  /\ worker' = "ticking"
  /\ UNCHANGED <<nodeStore, nodeTree, tickStep, work, wake, notifying, failures, peerVars, net,
                 request, inbox, late>>

TickAfterInsert ==
  /\ worker = "ticking"
  /\ wake' = TRUE
  /\ worker' = "applying"
  /\ UNCHANGED <<cache, nodeStore, nodeTree, tickStep, work, notifying, failures, peerVars, net,
                 request, chunk, inbox, late>>

(* Still out of sync: the worker sends itself the message, so that the     *)
(* next chunk follows.                                                     *)
FinishChunk ==
  /\ worker = "applying"
  /\ chunk = {}
  /\ IF IsOutOfSync(cache)
       THEN inbox' = WithOutOfSync
       ELSE UNCHANGED inbox
  /\ worker' = "idle"
  /\ UNCHANGED <<nodeVars, peerVars, net, request, chunk, late>>

-----------------------------------------------------------------------------

NodeTicks == (Tick /\ UNCHANGED syncVars) \/ TickSignals

NodeNotifies == Notify /\ UNCHANGED syncVars

PeerHandles ==
  \E m \in net : OfferSnapshot(m) \/ IgnoreRequest(m) \/ SendChunk(m) \/ ChunkRangePanics(m)

WorkerDelivery == \E m \in net : DeliverToWorker(m)

WorkerSteps ==
  \/ TakeOutOfSync \/ (\E id \in SnapshotId : RequestSnapshot(id))
  \/ AcceptOffer \/ TakeChunk \/ DropMessage \/ TimeOut
  \/ InsertFromChunk \/ TickAfterInsert \/ FinishChunk

SyncNext ==
  \/ ProduceBlock
  \/ \E b \in blockNet : DeliverBlock(b) \/ LoseBlock(b)
  \/ \E m \in net : LoseMessage(m)
  \/ PeerCommits
  \/ PeerHandles
  \/ WorkerDelivery
  \/ NodeTicks
  \/ NodeNotifies
  \/ WorkerSteps

SyncSpec == SyncInit /\ [][SyncNext]_allVars

(* Every task of the node and of the peer is scheduled again and again,    *)
(* and a message that is not lost arrives.                                 *)
FairSyncSpec ==
  /\ SyncSpec
  /\ WF_allVars(NodeTicks)
  /\ WF_allVars(NodeNotifies)
  /\ WF_allVars(PeerCommits)
  /\ WF_allVars(PeerHandles)
  /\ WF_allVars(WorkerDelivery)
  /\ WF_allVars(WorkerSteps)
  /\ WF_allVars(TimeOut)

-----------------------------------------------------------------------------

Lowest(hs) == CHOOSE h \in hs : \A g \in hs : h <= g

(* Unless writes failed, a chunk never leaves a gap above the node's       *)
(* confirmed block, although the node's height, the peer's height and the  *)
(* cache change between the request, the accept and the insert: no block   *)
(* of it has to be asked for a second time.                                *)
ChunksConnect ==
  /\ \A m \in net : m.type = "chunk" /\ m.blocks # {} => Lowest(m.blocks) <= cache.height + 1
  /\ failures = 0 /\ worker = "applying" /\ chunk # {} =>
       \A h \in cache.height + 1 .. Lowest(chunk) - 1 : h \in DOMAIN cache.index

(* NothingLeftUndone, while the sync worker inserts blocks and calls       *)
(* ticker.tick() after each: no call of it is lost.                        *)
NoWakeLost == worker # "ticking" => NothingLeftUndone

(* Nothing that arrives is missed: no wake-up of the tick worker           *)
(* (NoWakeLost), and no block of a chunk (ChunksConnect).                  *)
NothingMissed == NoWakeLost /\ ChunksConnect

(* A height the node has seen is eventually committed: blocks lost on the  *)
(* way, snapshot messages lost or late, and out-of-sync messages dropped   *)
(* while the worker waits for something else do not leave the node behind  *)
(* for good, as long as the peer's network handler lives.                  *)
CatchesUpTo(h) == cache.maxHeight >= h ~> cache.height >= h \/ ~ peerUp

(* "An out of sync node accepted our snapshot offer, we should send a      *)
(* snapshot chunk" (the comment on handle_snapshot_accept): the peer       *)
(* survives every accept it is sent.                                       *)
AcceptIsAnswered == peerUp
=============================================================================

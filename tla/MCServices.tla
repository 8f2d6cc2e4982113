---------------------------- MODULE MCServices -----------------------------
(* The services around the ledger, one per behaviour: the node's RPC       *)
(* handlers and its block store, the burn substitutor, the validator sets  *)
(* of the rollup contract and the node's copy of them, the peer-to-peer    *)
(* network, and the batching queue, the pool and the tick worker others    *)
(* are built on.                                                           *)
EXTENDS NodeRpc, BurnSubstitutor, ContractClient, Network, Batch, Pool, TickWorker,
  RollupAuth

VARIABLE part

(* Pages of one item, blocks of up to two transactions.  Readers of blocks *)
(* go either way, readers of transactions follow the "after" cursors.      *)
MCClients ==
  {p \in Pagers : p.list = "txns" => p.side = "after"}
    \cup ElementReaders \cup StatsWorkers

(* Three validators, some of which are replaced, and one account that is   *)
(* not a prover.                                                           *)
MCValidatorChoice == {{2, 3}, {1}}

(* Three nodes: 1 and 3 dial 2, which admits 1 only.                       *)
MCNodes == 1..3
MCPeers == <<{2}, {}, {2}>>
MCWhitelist == <<{}, {1}, {}>>

MCConfigs == {[delay |-> 1, interval |-> 2], [delay |-> 0, interval |-> 3]}

(* The parts that do not run are in one initial state.                     *)
MCInit ==
  /\ part \in {"rpc", "substitutor", "validators", "auth", "network", "batch", "pool", "tick"}
  /\ Init /\ SubInit /\ CacheInit /\ AuthInit
  /\ NetworkInit /\ BatchInit /\ PoolInit /\ TickInit
  /\ part = "rpc" \/ (client = (CHOOSE c \in Clients : TRUE) /\ chain = <<>>)
  /\ part = "batch" \/ config = CHOOSE c \in Configs : TRUE
  /\ part = "tick" \/ library = "node"

(* Four transactions in up to three blocks.                                *)
MCTxnBound == Len(chain') = 3 => TxnCount' <= 4

(* Three transactions make a full page and one of the next.                *)
MCBurnBound == Len(ledger') <= 3

MCNext ==
  \/ /\ part = "rpc" /\ Next /\ MCTxnBound
     /\ UNCHANGED <<subVars, cacheVars, authVars, netVars, batchVars, poolVars, tickVars, part>>
  \/ /\ part = "substitutor" /\ SubNext /\ MCBurnBound
     /\ UNCHANGED <<vars, cacheVars, authVars, netVars, batchVars, poolVars, tickVars, part>>
  \/ /\ part = "validators" /\ CacheNext
     /\ UNCHANGED <<vars, subVars, authVars, netVars, batchVars, poolVars, tickVars, part>>
  \/ /\ part = "auth" /\ AuthNext
     /\ UNCHANGED <<vars, subVars, cacheVars, netVars, batchVars, poolVars, tickVars, part>>
  \/ /\ part = "network" /\ NetworkNext
     /\ UNCHANGED <<vars, subVars, cacheVars, authVars, batchVars, poolVars, tickVars, part>>
  \/ /\ part = "batch" /\ BatchNext
     /\ UNCHANGED <<vars, subVars, cacheVars, authVars, netVars, poolVars, tickVars, part>>
  \/ /\ part = "pool" /\ PoolNext
     /\ UNCHANGED <<vars, subVars, cacheVars, authVars, netVars, batchVars, tickVars, part>>
  \/ /\ part = "tick" /\ TickNext
     /\ UNCHANGED <<vars, subVars, cacheVars, authVars, netVars, batchVars, poolVars, part>>

MCSpec ==
  MCInit /\ [][MCNext]_<<vars, subVars, cacheVars, authVars, netVars, batchVars, poolVars,
                         tickVars, part>>

(* What a client of the node is told is true, whatever blocks are          *)
(* committed between its requests: pages that follow each other leave      *)
(* nothing out, elements are where the answer says, and the statistics     *)
(* count every transaction of their days.                                  *)
RpcAnswersTrue == PagesContiguous /\ ElementAnswersTrue /\ StatsExact

(* A commit that races with the registration of its listener is neither    *)
(* missed nor repeated: by a poll (WokenPollHasTxns) and by the stream the *)
(* prover reads (StreamComplete).                                          *)
CommitsReported == WokenPollHasTxns /\ StreamComplete

(* The table of peers follows the connections, and an event is heard once, *)
(* and only by the peer it is for and from those that are admitted.        *)
PeersHeard == TableOfPeers /\ HeardOnce /\ AdmittedOnly
=============================================================================

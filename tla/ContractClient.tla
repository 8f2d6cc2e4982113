--------------------------- MODULE ContractClient ---------------------------
(***************************************************************************)
(* The node's copy of the rollup contract's validator sets (pkg/contracts, *)
(* rollup.rs): loaded when the node starts and extended by a worker that   *)
(* polls for ValidatorSetAdded events; with the restarts the node's main   *)
(* gives that worker.                                                      *)
(***************************************************************************)
EXTENDS Naturals, SequencesExt, FiniteSetsExt

CONSTANTS
  Validator,     \* validator addresses
  Signer,        \* the node's own address
  Height,        \* heights of rollup blocks
  MaxErrors,     \* MAX_CONSECUTIVE_TRANSPORT_ERRORS: 5 in the code
  MaxRestarts,   \* of the worker: 3 in the code
  MaxBlock       \* bound: blocks of the settlement chain

VARIABLES
  block,         \* number of the latest block of the settlement chain
  sets,          \* the contract's validator sets, with the block that added them
  cache,         \* validator_sets
  worker,        \* where the worker is
  from,          \* first block of the listener's next window
  events,        \* indexes in the logs that are still to be handled
  errors,        \* consecutive_transport_error_count
  attempts,      \* of run_contract_worker_with_retries
  loadedAt,      \* history: latest block when all the sets were last loaded
  first          \* history: first block of the worker's first window

chainVars == <<block, sets>>
workerVars == <<cache, worker, from, events, errors, attempts, loadedAt, first>>
cacheVars == <<chainVars, workerVars>>

CacheInit ==
  /\ block = 1
  /\ sets = <<[validators |-> {CHOOSE v \in Validator : TRUE}, validFrom |-> 0, block |-> 1]>>
  /\ cache = <<>>
  /\ worker = "loading"
  /\ from = 0
  /\ events = <<>>
  /\ errors = 0
  /\ attempts = 0
  /\ loadedAt = 0
  /\ first = 0

(* A block of the settlement chain, in which the owner may add a set that  *)
(* is valid from a later height than the last one.                         *)
SettlementBlock ==
  /\ block < MaxBlock
  /\ block' = block + 1
  /\ \/ UNCHANGED sets
     \/ \E v \in Validator, h \in Height :
          /\ h > sets[Len(sets)].validFrom
          /\ sets' = Append(sets, [validators |-> {v}, validFrom |-> h, block |-> block'])
  /\ UNCHANGED workerVars

GetValidatorSets(n) == SubSeq(sets, n, Len(sets))

(* load_all_validators, by RollupContract::load.                           *)
LoadAllValidators ==
  /\ worker = "loading"
  /\ cache' = GetValidatorSets(1)
  /\ loadedAt' = block
  /\ worker' = "start"
  /\ UNCHANGED <<chainVars, from, events, errors, attempts, first>>

(* listen_for_validator_set_added.                                         *)
ListenForValidatorSetAdded(next) == from' = block /\ worker' = next

StartWorker ==
  /\ worker = "start"
  /\ ListenForValidatorSetAdded("polling")
  /\ first' = block
  /\ errors' = 0
  /\ UNCHANGED <<chainVars, cache, events, attempts, loadedAt>>

(* One tick of the stream: the events of the blocks since the last one.    *)
PollWindow ==
  /\ worker = "polling"
  /\ from <= block
  /\ events' = SetToSortSeq({i \in DOMAIN sets : sets[i].block \in from .. block}, <)
  /\ from' = block + 1
  /\ worker' = IF events' = <<>> THEN "polling" ELSE "events"
  /\ UNCHANGED <<chainVars, cache, errors, attempts, loadedAt, first>>

(* An event of a set that is not in the copy: fetch all that are not.      *)
HandleSetAdded ==
  /\ worker = "events"
  /\ LET index == Head(events)
     IN  cache' = IF index > Len(cache) THEN cache \o GetValidatorSets(Len(cache) + 1)
                  ELSE cache
  /\ events' = Tail(events)
  /\ worker' = IF events' = <<>> THEN "polling" ELSE "events"
  /\ errors' = 0
  /\ UNCHANGED <<chainVars, from, attempts, loadedAt, first>>

(* The stream, or the attempt to open a new one, ends with a transport     *)
(* error.                                                                  *)
TransportError ==
  /\ worker \in {"polling", "relisten"}
  /\ errors < MaxErrors
  /\ errors' = errors + 1
  /\ worker' = "relisten"
  /\ UNCHANGED <<chainVars, cache, from, events, attempts, loadedAt, first>>

(* Mutant: go on with a new listener without loading the sets.             *)
RelistenOnly ==
  /\ worker = "relisten"
  /\ ListenForValidatorSetAdded("polling")
  /\ UNCHANGED <<chainVars, cache, events, errors, attempts, loadedAt, first>>

Relisten ==
  /\ worker = "relisten"
  /\ ListenForValidatorSetAdded("reload")
  /\ UNCHANGED <<chainVars, cache, events, errors, attempts, loadedAt, first>>

(* Sets whose events the old listener missed are loaded after the new one  *)
(* has begun to listen.                                                    *)
Reload ==
  /\ worker = "reload"
  /\ cache' = GetValidatorSets(1)
  /\ loadedAt' = block
  /\ worker' = "polling"
  /\ UNCHANGED <<chainVars, from, events, errors, attempts, first>>

(* One error too many, another error, or a failed read of the sets ends    *)
(* the worker; main starts it again, some times (more if it ran for half   *)
(* an hour), without loading the sets.                                     *)
WorkerFails ==
  /\ worker \in {"start", "polling", "relisten", "reload", "events"}
  /\ \E before \in {0, attempts} :
       /\ attempts' = before + 1
       /\ worker' = IF attempts' > MaxRestarts THEN "stopped" ELSE "start"
  /\ events' = <<>>
  /\ UNCHANGED <<chainVars, cache, from, errors, loadedAt, first>>

CacheNext ==
  \/ SettlementBlock
  \/ LoadAllValidators \/ StartWorker \/ PollWindow \/ HandleSetAdded
  \/ TransportError \/ Relisten \/ Reload
  \/ WorkerFails

-----------------------------------------------------------------------------

(* The last of the sets that are valid at the height; the node itself if   *)
(* there is none.                                                          *)
ValidatorsForHeight(list, h) ==
  LET valid == {i \in DOMAIN list : h >= list[i].validFrom}
  IN  IF valid = {} THEN {Signer} ELSE list[Max(valid)].validators

(* Blocks whose events the worker has not seen: those to come, and those   *)
(* between the last load and its start.                                    *)
Unseen(b) == b >= from \/ (b > loadedAt /\ b < first)

(* Whenever the worker waits for the next tick, the validators it knows    *)
(* for a height are those of the contract, unless they changed in a block  *)
(* whose events it could not see: whatever errors, reloads, repeated       *)
(* events and restarts came before, no set is skipped or taken twice.      *)
CacheServesContract ==
  worker = "polling" =>
    \A h \in Height :
      (\A i \in DOMAIN sets : sets[i].validFrom <= h => ~ Unseen(sets[i].block))
        => ValidatorsForHeight(cache, h) = ValidatorsForHeight(sets, h)
=============================================================================

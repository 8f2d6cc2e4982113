------------------------------- MODULE Batch -------------------------------
(* Batch (primitives/src/batch.rs): calls are collected and handed to a      *)
(* processor together, by a task that sleeps until the batch is due.         *)
EXTENDS Integers, Sequences, FiniteSets

CONSTANTS Callers,     \* each calls once
          Configs,     \* BatchConfig: [delay, interval]
          MaxTime      \* bound

ASSUME BatchAssumption == Configs \subseteq [delay : Nat, interval : Nat]

VARIABLES
  now,
  config,
  items,        \* queue.items: the callers, whose item and sender they stand for
  next,         \* queue.next_execution, or NoTime
  lastExecution, \* queue.last_execution, or NoTime
  processing,   \* queue.processing
  tasks,        \* the spawned tasks: [id, pc, until, batch]
  reply         \* reply[c]: what the call of c has come to

batchVars == <<now, config, items, next, lastExecution, processing, tasks, reply>>

NoTime == -1

MaxOf(a, b) == IF a > b THEN a ELSE b

BatchInit ==
  /\ now = 0
  /\ config \in Configs
  /\ items = << >>
  /\ next = NoTime
  /\ lastExecution = NoTime
  /\ processing = FALSE
  /\ tasks = {}
  /\ reply = [c \in Callers |-> "idle"]

Spawned == [id |-> Cardinality(tasks) + 1, pc |-> "spawned", until |-> 0, batch |-> << >>]

(* No execution is scheduled and none is being processed.                    *)
MayPlan == next = NoTime /\ ~processing

CallBatch(c) ==
  /\ reply[c] = "idle"
  /\ reply' = [reply EXCEPT ![c] = "waiting"]
  /\ items' = Append(items, c)
  /\ IF MayPlan
       THEN /\ next' = IF lastExecution = NoTime THEN now + config.delay
                       ELSE MaxOf(lastExecution + config.interval, now + config.delay)
            /\ tasks' = tasks \cup {Spawned}
       ELSE UNCHANGED <<next, tasks>>
  /\ UNCHANGED <<now, config, lastExecution, processing>>

(* The caller goes away; its item stays.                                     *)
Abandon(c) ==
  /\ reply[c] = "waiting"
  /\ reply' = [reply EXCEPT ![c] = "dropped"]
  /\ UNCHANGED <<now, config, items, next, lastExecution, processing, tasks>>

TaskBecomes(t, new) == tasks' = (tasks \ {t}) \cup {new}

(* schedule_next_batch reads how long to sleep ...                           *)
PlanSleep(t) ==
  /\ t.pc = "spawned"
  /\ IF next = NoTime
       THEN tasks' = tasks \ {t}
       ELSE TaskBecomes(t, [t EXCEPT !.pc = "sleeping", !.until = MaxOf(next, now)])
  /\ UNCHANGED <<now, config, items, next, lastExecution, processing, reply>>

(* ... takes the items when it is due ...                                    *)
TakeItems(t) ==
  /\ t.pc = "sleeping"
  /\ now >= t.until
  /\ next' = NoTime
  /\ processing' = TRUE
  /\ items' = << >>
  /\ TaskBecomes(t, [t EXCEPT !.pc = "processing", !.batch = items])
  /\ UNCHANGED <<now, config, lastExecution, reply>>

(* ... answers every caller of the batch with its result, or all of them     *)
(* with the processor's error, unless the caller has gone ...                *)
ProcessBatch(t, outcome) ==
  /\ t.pc = "processing"
  /\ reply' = [c \in Callers |->
                  IF reply[c] = "waiting" /\ \E i \in DOMAIN t.batch : t.batch[i] = c
                    THEN outcome ELSE reply[c]]
  /\ TaskBecomes(t, [t EXCEPT !.pc = "processed", !.batch = << >>])
  /\ UNCHANGED <<now, config, items, next, lastExecution, processing>>

(* Mutant: what arrived meanwhile is left for the next call.                 *)
FinishBatchOnly(t) ==
  /\ t.pc = "processed"
  /\ lastExecution' = now
  /\ processing' = FALSE
  /\ tasks' = tasks \ {t}
  /\ UNCHANGED <<now, config, items, next, reply>>

(* ... and goes on with what arrived meanwhile, at once: the interval it     *)
(* adds to last_execution is the time since then, not min_interval_ms.       *)
FinishBatch(t) ==
  /\ t.pc = "processed"
  /\ lastExecution' = now
  /\ processing' = FALSE
  /\ IF items # << >> /\ next = NoTime
       THEN next' = now /\ TaskBecomes(t, [t EXCEPT !.pc = "spawned"])
       ELSE tasks' = tasks \ {t} /\ UNCHANGED next
  /\ UNCHANGED <<now, config, items, reply>>

(* update_config, set_batch_delay, set_min_interval.                         *)
UpdateConfig ==
  /\ config' \in Configs \ {config}
  /\ UNCHANGED <<now, items, next, lastExecution, processing, tasks, reply>>

Elapse ==
  /\ now < MaxTime
  /\ now' = now + 1
  /\ UNCHANGED <<config, items, next, lastExecution, processing, tasks, reply>>

BatchNext ==
  \/ \E c \in Callers : CallBatch(c) \/ Abandon(c)
  \/ \E t \in tasks :
       \/ PlanSleep(t) \/ TakeItems(t) \/ FinishBatch(t)
       \/ \E outcome \in {"ok", "err"} : ProcessBatch(t, outcome)
  \/ UpdateConfig
  \/ Elapse

BatchSpec == BatchInit /\ [][BatchNext]_batchVars

-----------------------------------------------------------------------------
(* No call is forgotten: as long as one waits, its item is in the queue      *)
(* with an execution planned or under way, or in the batch of the task; and  *)
(* there is one task at most, so that batches are processed one at a time    *)
(* (next_execution and processing together).                                 *)
NobodyForgotten ==
  /\ Cardinality(tasks) <= 1
  /\ \A c \in Callers : reply[c] = "waiting" =>
       \/ /\ \E i \in DOMAIN items : items[i] = c
          /\ tasks # {}
       \/ \E t \in tasks : \E i \in DOMAIN t.batch : t.batch[i] = c
=============================================================================

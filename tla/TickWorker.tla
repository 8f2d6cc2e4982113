---------------------------- MODULE TickWorker ----------------------------
(* The worker that calls tick again and again, of the node                  *)
(* (primitives/src/tick_worker.rs) and of solid (solid/src/util): it sleeps *)
(* until the time tick returned or until it is notified. A Notify keeps at  *)
(* most one permit.                                                         *)
EXTENDS Naturals, FiniteSets

CONSTANT MaxCalls     \* bound: calls of run and tick

VARIABLES
  library,       \* which of the two copies
  is_running,    \* of the node's copy
  shutdown,
  permit,        \* background_worker: a notification nobody has taken
  workers,       \* the spawned workers: [id, pc]
  dropping,      \* where the drop of the TickWorker is
  calls,         \* number of calls so far
  asked          \* history: tick was called and no tick has begun since

tickVars == <<library, is_running, shutdown, permit, workers, dropping, calls, asked>>

TickInit ==
  /\ library \in {"node", "solid"}
  /\ is_running = FALSE
  /\ shutdown = FALSE
  /\ permit = FALSE
  /\ workers = {}
  /\ dropping = "no"
  /\ calls = 0
  /\ asked = FALSE

Worker == [id |-> Cardinality(workers) + 1, pc |-> "check"]

(* tick: notify_one.                                                        *)
Notify ==
  /\ permit' = TRUE
  /\ asked' = TRUE
  /\ UNCHANGED <<is_running, workers>>

Called == dropping = "no" /\ calls < MaxCalls /\ calls' = calls + 1

ForceTick ==
  /\ Called
  /\ Notify
  /\ UNCHANGED <<library, shutdown, dropping>>

(* run of the node: one worker, and a tick for every further call.          *)
Run ==
  /\ library = "node"
  /\ Called
  /\ IF ~is_running
       THEN /\ is_running' = TRUE
            /\ workers' = workers \cup {Worker}
            /\ UNCHANGED <<permit, asked>>
       ELSE Notify
  /\ UNCHANGED <<library, shutdown, dropping>>

(* run of solid, which Solid calls once.                                    *)
RunSolid ==
  /\ library = "solid"
  /\ Called
  /\ workers = {}
  /\ workers' = {Worker}
  /\ UNCHANGED <<is_running, permit, asked, library, shutdown, dropping>>

(* The TickWorker is dropped: the flags, then the notification.             *)
Shutdown ==
  /\ dropping = "no"
  /\ dropping' = "flagged"
  /\ shutdown' = TRUE
  /\ is_running' = FALSE
  /\ UNCHANGED <<library, permit, workers, calls, asked>>

ShutdownNotify ==
  /\ dropping = "flagged"
  /\ dropping' = "done"
  /\ permit' = TRUE
  /\ UNCHANGED <<library, is_running, shutdown, workers, calls, asked>>

WorkerBecomes(w, pc) == workers' = (workers \ {w}) \cup {[w EXCEPT !.pc = pc]}

(* background_worker: the loop ends at a shutdown ...                       *)
Check(w) ==
  /\ w.pc = "check"
  /\ WorkerBecomes(w, IF shutdown THEN "ended" ELSE "tick")
  /\ UNCHANGED <<library, is_running, shutdown, permit, dropping, calls, asked>>

(* ... calls tick ...                                                       *)
BeginTick(w) ==
  /\ w.pc = "tick"
  /\ WorkerBecomes(w, "ticking")
  /\ asked' = FALSE
  /\ UNCHANGED <<library, is_running, shutdown, permit, dropping, calls>>

(* ... which returns a time to come, one that has passed or None.           *)
TickReturns(w) ==
  /\ w.pc = "ticking"
  /\ \E pc \in {"sleep", "check", "wait"} : WorkerBecomes(w, pc)
  /\ UNCHANGED <<library, is_running, shutdown, permit, dropping, calls, asked>>

(* Mutant: a notification that is there already does not wake the worker.   *)
NotifiedLater(w) ==
  /\ w.pc \in {"sleep", "wait"}
  /\ permit
  /\ permit' = FALSE
  /\ UNCHANGED <<library, is_running, shutdown, workers, dropping, calls, asked>>

Notified(w) ==
  /\ w.pc \in {"sleep", "wait"}
  /\ permit
  /\ permit' = FALSE
  /\ WorkerBecomes(w, "check")
  /\ UNCHANGED <<library, is_running, shutdown, dropping, calls, asked>>

SleepEnds(w) ==
  /\ w.pc = "sleep"
  /\ WorkerBecomes(w, "check")
  /\ UNCHANGED <<library, is_running, shutdown, permit, dropping, calls, asked>>

TickNext ==
  \/ ForceTick \/ Run \/ RunSolid \/ Shutdown \/ ShutdownNotify
  \/ \E w \in workers : Check(w) \/ BeginTick(w) \/ TickReturns(w) \/ Notified(w) \/ SleepEnds(w)

TickSpec == TickInit /\ [][TickNext]_tickVars

-----------------------------------------------------------------------------
(* One worker at most (run: "You may safely call run multiple times, and    *)
(* only one worker will be spawned"); a tick that was asked for while       *)
(* another one ran, or before the first, is not lost: the worker is on its  *)
(* way to a tick or finds the permit; and a worker that waits when the      *)
(* TickWorker is gone finds the permit too, and ends.                       *)
TickNotLost ==
  /\ Cardinality(workers) <= 1
  /\ asked => permit \/ \E w \in workers : w.pc \in {"check", "tick", "ended"}
  /\ dropping = "done" => \A w \in workers : w.pc \in {"sleep", "wait"} => permit
=============================================================================

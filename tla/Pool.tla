-------------------------------- MODULE Pool --------------------------------
(* Pool (primitives/src/pool.rs): values are lent out as guards; a guard    *)
(* that is dropped hands its value to the first waiter, under the lock of   *)
(* the pool. A waiter may go away at any time, without the lock.            *)
EXTENDS Naturals, Sequences, FiniteSets, Functions

CONSTANTS Values, Threads,
          MaxGets      \* bound: calls of get

NoValue == 0
NoThread == 0

ASSUME PoolAssumption ==
  /\ IsFiniteSet(Values) /\ NoValue \notin Values
  /\ NoThread \notin Threads
  /\ MaxGets \in Nat

VARIABLES
  values,     \* state.values
  waiters,    \* state.waiters: the calls of get that wait or have waited
  chan,       \* chan[w]: the value in the channel of w, or NoValue
  open,       \* the waiters whose receiver exists
  lock,       \* the thread that has the pool's lock, or NoThread
  doing,         \* doing[t]
  hand,       \* hand[t]: the value of the guard or of the drop of t
  waits,      \* waits[t]: the call of get of t
  gets        \* number of calls so far

poolVars == <<values, waiters, chan, open, lock, doing, hand, waits, gets>>

PoolInit ==
  /\ values \in {s \in [1 .. Cardinality(Values) -> Values] : IsInjective(s)}
  /\ waiters = << >>
  /\ chan = [w \in 1..MaxGets |-> NoValue]
  /\ open = {}
  /\ lock = NoThread
  /\ doing = [t \in Threads |-> "idle"]
  /\ hand = [t \in Threads |-> NoValue]
  /\ waits = [t \in Threads |-> 0]
  /\ gets = 0

Get(t) ==
  /\ doing[t] = "idle"
  /\ lock = NoThread
  /\ gets < MaxGets
  /\ gets' = gets + 1
  /\ IF values # << >>
       THEN /\ hand' = [hand EXCEPT ![t] = Head(values)]
            /\ values' = Tail(values)
            /\ doing' = [doing EXCEPT ![t] = "holding"]
            /\ UNCHANGED <<waiters, open, waits>>
       ELSE /\ waiters' = Append(waiters, gets')
            /\ open' = open \cup {gets'}
            /\ waits' = [waits EXCEPT ![t] = gets']
            /\ doing' = [doing EXCEPT ![t] = "waiting"]
            /\ UNCHANGED <<values, hand>>
  /\ UNCHANGED <<chan, lock>>

(* recv: the receiver is dropped after it.                                  *)
Receive(t) ==
  /\ doing[t] = "waiting"
  /\ chan[waits[t]] # NoValue
  /\ hand' = [hand EXCEPT ![t] = chan[waits[t]]]
  /\ chan' = [chan EXCEPT ![waits[t]] = NoValue]
  /\ open' = open \ {waits[t]}
  /\ doing' = [doing EXCEPT ![t] = "holding"]
  /\ UNCHANGED <<values, waiters, lock, waits, gets>>

(* The future of get is dropped, and with it a guard in its channel.        *)
Cancel(t) ==
  /\ doing[t] = "waiting"
  /\ open' = open \ {waits[t]}
  /\ hand' = [hand EXCEPT ![t] = chan[waits[t]]]
  /\ chan' = [chan EXCEPT ![waits[t]] = NoValue]
  /\ doing' = [doing EXCEPT ![t] = IF chan[waits[t]] = NoValue THEN "idle" ELSE "holding"]
  /\ UNCHANGED <<values, waiters, lock, waits, gets>>

(* drop takes the lock ...                                                  *)
StartDrop(t) ==
  /\ doing[t] = "holding"
  /\ lock = NoThread
  /\ lock' = t
  /\ doing' = [doing EXCEPT ![t] = "dropping"]
  /\ UNCHANGED <<values, waiters, chan, open, hand, waits, gets>>

(* Mutant: the value of a guard goes back to the pool though someone waits. *)
NextWaiterReturns(t) ==
  /\ doing[t] = "dropping"
  /\ values' = Append(values, hand[t])
  /\ hand' = [hand EXCEPT ![t] = NoValue]
  /\ lock' = NoThread
  /\ doing' = [doing EXCEPT ![t] = "idle"]
  /\ UNCHANGED <<waiters, chan, open, waits, gets>>

(* ... looks at the first waiter: none, one that has gone, or one to send   *)
(* the value to ...                                                         *)
NextWaiter(t) ==
  /\ doing[t] = "dropping"
  /\ IF waiters = << >>
       THEN /\ values' = Append(values, hand[t])
            /\ hand' = [hand EXCEPT ![t] = NoValue]
            /\ lock' = NoThread
            /\ doing' = [doing EXCEPT ![t] = "idle"]
            /\ UNCHANGED <<waiters, waits>>
       ELSE /\ waiters' = Tail(waiters)
            /\ IF Head(waiters) \in open
                 THEN /\ waits' = [waits EXCEPT ![t] = Head(waiters)]
                      /\ doing' = [doing EXCEPT ![t] = "sending"]
                 ELSE UNCHANGED <<waits, doing>>
            /\ UNCHANGED <<values, hand, lock>>
  /\ UNCHANGED <<chan, open, gets>>

(* ... and sends it. If the waiter has gone since, the error has the guard  *)
(* that was to be sent: its value is taken out, and at the end of the arm   *)
(* it is dropped, which waits for the lock this thread has: parking_lot's   *)
(* Mutex is not reentrant.                                                  *)
SendValue(t) ==
  /\ doing[t] = "sending"
  /\ IF waits[t] \in open
       THEN /\ chan' = [chan EXCEPT ![waits[t]] = hand[t]]
            /\ hand' = [hand EXCEPT ![t] = NoValue]
            /\ lock' = NoThread
            /\ doing' = [doing EXCEPT ![t] = "idle"]
       ELSE /\ doing' = [doing EXCEPT ![t] = "relocking"]
            /\ UNCHANGED <<chan, hand, lock>>
  /\ UNCHANGED <<values, waiters, open, waits, gets>>

PoolNext ==
  \E t \in Threads :
    \/ Get(t) \/ Receive(t) \/ Cancel(t)
    \/ StartDrop(t) \/ NextWaiter(t) \/ SendValue(t)

PoolSpec == PoolInit /\ [][PoolNext]_poolVars

-----------------------------------------------------------------------------
(* The threads that have a value, a channel that has one, and the pool.     *)
PlacesOf(v) ==
  Cardinality({t \in Threads : hand[t] = v}) + Cardinality({w \in 1..MaxGets : chan[w] = v})
    + Cardinality({i \in DOMAIN values : values[i] = v})

(* A value is in the pool, in one guard or on its way to one waiter, also   *)
(* when the waiter goes away before or after it was sent; and while nobody  *)
(* has the lock, no value lies in the pool that a waiter waits for.         *)
PoolConserves ==
  /\ \A v \in Values : PlacesOf(v) = 1
  /\ lock = NoThread /\ values # << >> =>
       \A t \in Threads : doing[t] = "waiting" => chan[waits[t]] # NoValue
=============================================================================

---------------------------- MODULE ServiceProofs ----------------------------
(***************************************************************************)
(* Proofs about four services the node is built on: the tick worker and    *)
(* the batching queue, for every number of callers and every delay; the    *)
(* pool of values, for every set of values and threads; and the            *)
(* authorisation of the rollup contract, for every set of accounts.        *)
(***************************************************************************)
EXTENDS TickWorker, Batch, Pool, RollupAuth, FiniteSetTheorems, TLAPS

-----------------------------------------------------------------------------
(* The pool: where the values are, and who is still to be given one.       *)

Gets == 1 .. MaxGets

PoolTypeOK ==
  /\ values \in Seq(Values)
  /\ waiters \in Seq(Gets)
  /\ chan \in [Gets -> Values \cup {NoValue}]
  /\ open \subseteq Gets
  /\ lock \in Threads \cup {NoThread}
  /\ doing \in [Threads -> {"idle", "waiting", "holding", "dropping", "sending", "relocking"}]
  /\ hand \in [Threads -> Values \cup {NoValue}]
  /\ waits \in [Threads -> 0 .. MaxGets]
  /\ gets \in 0 .. MaxGets

(* Two places never have the same value.                                   *)
PlacesDiffer ==
  /\ \A t, u \in Threads : hand[t] \in Values /\ hand[t] = hand[u] => t = u
  /\ \A w, v \in Gets : chan[w] \in Values /\ chan[w] = chan[v] => w = v
  /\ \A i, j \in DOMAIN values : values[i] = values[j] => i = j
  /\ \A t \in Threads, w \in Gets : hand[t] \in Values => hand[t] # chan[w]
  /\ \A t \in Threads, i \in DOMAIN values : hand[t] # values[i]
  /\ \A w \in Gets, i \in DOMAIN values : chan[w] # values[i]

SomePlace(v) ==
  \/ \E t \in Threads : hand[t] = v
  \/ \E w \in Gets : chan[w] = v
  \/ \E i \in DOMAIN values : values[i] = v

(* Who has a value and who has the lock.                                   *)
ThreadsInStep ==
  \A t \in Threads :
    /\ hand[t] = NoValue <=> doing[t] \in {"idle", "waiting"}
    /\ lock = t <=> doing[t] \in {"dropping", "sending", "relocking"}

(* A channel is empty until the drop that took its waiter off the queue    *)
(* sends to it.                                                            *)
ChannelsFresh ==
  /\ \A i \in DOMAIN waiters : waiters[i] <= gets /\ chan[waiters[i]] = NoValue
  /\ \A i, j \in DOMAIN waiters : waiters[i] = waiters[j] => i = j
  /\ \A w \in Gets : w > gets => chan[w] = NoValue
  /\ \A t \in Threads : doing[t] = "sending" =>
       /\ waits[t] \in 1 .. gets
       /\ chan[waits[t]] = NoValue
       /\ \A i \in DOMAIN waiters : waiters[i] # waits[t]

(* Channel w is on the queue, or the drop that took it off is about to     *)
(* send to it, or has sent.                                                *)
Remembered(w) ==
  \/ chan[w] # NoValue
  \/ \E i \in DOMAIN waiters : waiters[i] = w
  \/ \E u \in Threads : doing[u] = "sending" /\ waits[u] = w

(* A call of get that waits has an open channel of its own that a drop     *)
(* still finds.                                                            *)
WaitersServed ==
  /\ values # << >> => waiters = << >>
  /\ \A t \in Threads : doing[t] = "waiting" =>
       /\ waits[t] \in 1 .. gets
       /\ waits[t] \in open
       /\ \A u \in Threads : doing[u] = "waiting" /\ waits[u] = waits[t] => u = t
       /\ Remembered(waits[t])

PoolInv ==
  /\ PoolTypeOK
  /\ PlacesDiffer /\ \A v \in Values : SomePlace(v)
  /\ ThreadsInStep /\ ChannelsFresh /\ WaitersServed

(* The invariant says what is checked of the pool.                         *)
LEMMA PoolInvImplies == PoolInv => PoolConserves
<1> SUFFICES ASSUME PoolInv PROVE PoolConserves
  BY Zenon
<1>1. ASSUME NEW v \in Values PROVE PlacesOf(v) = 1
  <2> DEFINE T == {t \in Threads : hand[t] = v}
             W == {w \in 1 .. MaxGets : chan[w] = v}
             I == {i \in DOMAIN values : values[i] = v}
  <2>1. \/ (\E t : T = {t}) /\ W = {} /\ I = {}
        \/ (\E w : W = {w}) /\ T = {} /\ I = {}
        \/ (\E i : I = {i}) /\ T = {} /\ W = {}
    <3>1. CASE \E t \in Threads : hand[t] = v
      BY <3>1 DEF PoolInv, PlacesDiffer, Gets
    <3>2. CASE \E w \in Gets : chan[w] = v
      BY <3>2, ZenonT(30) DEF PoolInv, PlacesDiffer, Gets
    <3>3. CASE \E i \in DOMAIN values : values[i] = v
      BY <3>3, SMTT(30) DEF PoolInv, PlacesDiffer, Gets
    <3> QED BY <3>1, <3>2, <3>3, Zenon DEF PoolInv, SomePlace
  <2> HIDE DEF T, W, I
  <2>2. \A S : S = {} => Cardinality(S) = 0
    BY FS_EmptySet, Zenon
  <2>3. \A S : (\E x : S = {x}) => Cardinality(S) = 1
    BY FS_Singleton, Zenon
  <2>4. Cardinality(T) + Cardinality(W) + Cardinality(I) = 1
    <3>1. \/ Cardinality(T) = 1 /\ Cardinality(W) = 0 /\ Cardinality(I) = 0
          \/ Cardinality(W) = 1 /\ Cardinality(T) = 0 /\ Cardinality(I) = 0
          \/ Cardinality(I) = 1 /\ Cardinality(T) = 0 /\ Cardinality(W) = 0
      BY <2>1, <2>2, <2>3, Zenon
    <3> QED BY <3>1
  <2> QED BY <2>4, Zenon DEF PlacesOf, T, W, I
<1>2. ASSUME lock = NoThread, values # << >>, NEW t \in Threads, doing[t] = "waiting"
      PROVE  chan[waits[t]] # NoValue
  <2>1. \A u \in Threads : doing[u] # "sending"
    BY <1>2, PoolAssumption, Zenon DEF PoolInv, ThreadsInStep
  <2>2. values # << >> => waiters = << >>
    BY Zenon DEF PoolInv, WaitersServed
  <2>3. Remembered(waits[t])
    BY <1>2, Zenon DEF PoolInv, WaitersServed
  <2> QED BY <1>2, <2>1, <2>2, <2>3 DEF Remembered
<1> QED BY <1>1, <1>2, Zenon DEF PoolConserves

(* The pool is given every value once.                                     *)
LEMMA ValuesListed ==
  ASSUME PoolInit
  PROVE  /\ values \in Seq(Values)
         /\ \A i, j \in DOMAIN values : values[i] = values[j] => i = j
         /\ \A v \in Values : \E i \in DOMAIN values : values[i] = v
<1> DEFINE n == Cardinality(Values)
<1>1. n \in Nat
  BY PoolAssumption, FS_CardinalityType, Zenon
<1>2. values \in [1 .. n -> Values] /\ IsInjective(values)
  BY Zenon DEF PoolInit
<1>3. values \in Injection(1 .. n, Values)
  BY <1>2, Zenon DEF Injection, IsInjective
<1>4. IsFiniteSet(1 .. n) /\ Cardinality(1 .. n) = n
  BY <1>1, FS_Interval
<1>5. values \in Surjection(1 .. n, Values)
  BY <1>3, <1>4, PoolAssumption, FS_Injection, Zenon
<1>6. values \in Seq(Values)
  BY <1>1, <1>2
<1> QED BY <1>2, <1>5, <1>6, Zenon DEF Surjection, IsInjective

(* A new pool satisfies it.                                                *)
LEMMA PoolInitInv == PoolInit => PoolInv
<1> SUFFICES ASSUME PoolInit PROVE PoolInv
  BY Zenon
<1>1. PoolTypeOK
  BY PoolAssumption, ValuesListed DEF PoolInit, PoolTypeOK, Gets
<1>2. PlacesDiffer
  BY PoolAssumption, ValuesListed DEF PoolInit, PlacesDiffer, Gets
<1>3. \A v \in Values : SomePlace(v)
  BY ValuesListed, Zenon DEF PoolInit, SomePlace
<1>4. ThreadsInStep
  BY PoolAssumption, Zenon DEF PoolInit, ThreadsInStep
<1>5. ChannelsFresh /\ WaitersServed
  BY DEF PoolInit, ChannelsFresh, WaitersServed, Remembered, Gets
<1> QED BY <1>1, <1>2, <1>3, <1>4, <1>5, Zenon DEF PoolInv

(* What the queue of waiters and the list of values become.                *)
LEMMA QueueFacts ==
  ASSUME NEW S, NEW q \in Seq(S)
  PROVE  /\ \A x \in S : /\ Append(q, x) \in Seq(S)
                         /\ DOMAIN Append(q, x) = 1 .. Len(q) + 1
                         /\ \A i \in DOMAIN q : Append(q, x)[i] = q[i]
                         /\ Append(q, x)[Len(q) + 1] = x
         /\ DOMAIN q = 1 .. Len(q) /\ Len(q) \in Nat
         /\ \A i \in DOMAIN q : q[i] \in S
         /\ q # << >> => /\ Head(q) = q[1] /\ 1 \in DOMAIN q
                         /\ Tail(q) \in Seq(S)
                         /\ DOMAIN Tail(q) = 1 .. Len(q) - 1
                         /\ \A i \in DOMAIN Tail(q) : Tail(q)[i] = q[i + 1] /\ i + 1 \in DOMAIN q
                         /\ \A i \in DOMAIN q : i # 1 => i - 1 \in DOMAIN Tail(q)
OBVIOUS

(* get keeps it, whether it finds a value or waits.                        *)
LEMMA GetStep ==
  ASSUME PoolInv, NEW t \in Threads, Get(t) PROVE PoolInv'
<1> USE DEF PoolInv
<1>1. hand[t] = NoValue /\ gets' \in Gets /\ gets' = gets + 1
  BY PoolAssumption DEF Get, ThreadsInStep, PoolTypeOK, Gets
<1>2. CASE values # << >>
  <2>1. /\ values[1] \in Values /\ hand' = [hand EXCEPT ![t] = values[1]]
        /\ values' = Tail(values) /\ doing' = [doing EXCEPT ![t] = "holding"]
        /\ waiters = << >>
        /\ UNCHANGED <<waiters, open, waits, chan, lock>>
    BY <1>2, QueueFacts DEF Get, PoolTypeOK, WaitersServed
  <2>2. /\ Tail(values) \in Seq(Values)
        /\ \A i \in DOMAIN Tail(values) : Tail(values)[i] = values[i + 1] /\ i + 1 \in DOMAIN values
        /\ \A i \in DOMAIN values : i # 1 => i - 1 \in DOMAIN Tail(values) /\ i \in Nat
        /\ 1 \in DOMAIN values /\ DOMAIN Tail(values) \subseteq Nat \ {0}
    BY <1>2, QueueFacts, SMTT(30) DEF PoolTypeOK
  <2>3. PoolTypeOK'
    BY <1>1, <2>1, <2>2 DEF PoolTypeOK, Gets
  <2>4. PlacesDiffer'
    BY <2>1, <2>2, <1>1, SMTT(30) DEF PlacesDiffer, PoolTypeOK
  <2>5. ASSUME NEW v \in Values PROVE SomePlace(v)'
    <3>1. CASE \E u \in Threads : hand[u] = v
      BY <2>1, <1>1, <3>1, PoolAssumption, Zenon DEF SomePlace, PoolTypeOK
    <3>2. CASE \E w \in Gets : chan[w] = v
      BY <2>1, <3>2, Zenon DEF SomePlace
    <3>3. ASSUME NEW i \in DOMAIN values, values[i] = v PROVE SomePlace(v)'
      <4>1. CASE i = 1
        BY <2>1, <3>3, <4>1, SMTT(30) DEF SomePlace, PoolTypeOK
      <4>2. CASE i # 1
        BY <2>1, <2>2, <3>3, <4>2 DEF SomePlace
      <4> QED BY <4>1, <4>2, Zenon
    <3> QED BY <3>1, <3>2, <3>3, Zenon DEF SomePlace
  <2>6. ThreadsInStep'
    BY <2>1, PoolAssumption, Zenon DEF Get, ThreadsInStep, PoolTypeOK
  <2>7. ChannelsFresh'
    BY <1>1, <2>1 DEF ChannelsFresh, PoolTypeOK, Gets
  <2>8. WaitersServed'
    <3>1. \A u \in Threads : /\ doing'[u] = "waiting" => doing[u] = "waiting"
                             /\ doing[u] = "sending" => doing'[u] = "sending"
      BY <2>1, Zenon DEF Get, PoolTypeOK
    <3>2. gets \in Nat
      BY PoolAssumption DEF PoolTypeOK
    <3>3. ASSUME NEW u \in Threads, doing'[u] = "waiting"
          PROVE  /\ waits[u] \in 1 .. gets' /\ waits[u] \in open
                 /\ Remembered(waits[u])
                 /\ \A v \in Threads : doing'[v] = "waiting" /\ waits[v] = waits[u] => v = u
      BY <1>1, <3>1, <3>2, <3>3 DEF WaitersServed
    <3>4. \A w : Remembered(w) => Remembered(w)'
      BY <2>1, <3>1, Zenon DEF Remembered
    <3> QED BY <2>1, <3>3, <3>4, Zenon DEF WaitersServed
  <2> QED BY <2>3, <2>4, <2>5, <2>6, <2>7, <2>8, Zenon
<1>3. CASE values = << >>
  <2>1. /\ waiters' = Append(waiters, gets')
        /\ open' = open \cup {gets'}
        /\ waits' = [waits EXCEPT ![t] = gets']
        /\ doing' = [doing EXCEPT ![t] = "waiting"]
        /\ UNCHANGED <<values, hand, chan, lock>>
    BY <1>3, Zenon DEF Get
  <2>2. /\ waiters' \in Seq(Gets) /\ DOMAIN waiters' = 1 .. Len(waiters) + 1
        /\ DOMAIN waiters = 1 .. Len(waiters) /\ Len(waiters) \in Nat
        /\ \A i \in DOMAIN waiters : waiters'[i] = waiters[i] /\ waiters[i] \in Gets
        /\ waiters'[Len(waiters) + 1] = gets'
    BY <1>1, <2>1, QueueFacts DEF PoolTypeOK
  <2>3. PoolTypeOK'
    BY <1>1, <2>1, <2>2, SMTT(30) DEF PoolTypeOK, Gets
  <2>4. PlacesDiffer' /\ \A v \in Values : SomePlace(v)'
    BY <2>1 DEF PlacesDiffer, SomePlace
  <2>6. ThreadsInStep'
    BY <1>1, <2>1, Zenon DEF Get, ThreadsInStep, PoolTypeOK
  <2>7. ChannelsFresh'
    BY <1>1, <2>1, <2>2, SMTT(30) DEF ChannelsFresh, PoolTypeOK, Gets
  <2>8. WaitersServed'
    <3>1. gets \in Nat
      BY PoolAssumption DEF PoolTypeOK
    <3>2. ASSUME NEW u \in Threads, u # t, doing'[u] = "waiting"
          PROVE  /\ doing[u] = "waiting" /\ waits'[u] = waits[u]
                 /\ waits[u] \in 1 .. gets /\ waits[u] \in open
      BY <2>1, <3>2, Zenon DEF WaitersServed, PoolTypeOK
    <3>3. waits'[t] = gets' /\ gets' \in open' /\ gets' \in 1 .. gets'
      BY <1>1, <2>1, <3>1 DEF PoolTypeOK
    <3>4. ASSUME NEW u \in Threads, doing'[u] = "waiting"
          PROVE  /\ waits'[u] \in 1 .. gets' /\ waits'[u] \in open'
                 /\ \A v \in Threads : doing'[v] = "waiting" /\ waits'[v] = waits'[u] => v = u
      <4>1. CASE u = t
        BY <1>1, <3>1, <3>2, <3>3, <4>1
      <4>2. CASE u # t
        BY <1>1, <2>1, <3>1, <3>2, <3>3, <3>4, <4>2, SMTT(30) DEF WaitersServed
      <4> QED BY <4>1, <4>2, Zenon
    <3>5. ASSUME NEW u \in Threads, doing'[u] = "waiting"
          PROVE  \/ chan'[waits'[u]] # NoValue
                 \/ \E i \in DOMAIN waiters' : waiters'[i] = waits'[u]
                 \/ \E v \in Threads : doing'[v] = "sending" /\ waits'[v] = waits'[u]
      <4>1. CASE u = t
        BY <2>2, <3>3, <4>1
      <4>2. CASE u # t
        <5>1. \A v \in Threads : doing[v] = "sending" => doing'[v] = "sending" /\ waits'[v] = waits[v]
          BY <2>1, Zenon DEF Get, PoolTypeOK
        <5>2. \A i \in DOMAIN waiters : i \in DOMAIN waiters' /\ waiters'[i] = waiters[i]
          BY <2>2
        <5>3. Remembered(waits[u])
          BY <3>2, <3>5, <4>2, Zenon DEF WaitersServed
        <5> QED BY <2>1, <3>2, <3>5, <4>2, <5>1, <5>2, <5>3 DEF Remembered
      <4> QED BY <4>1, <4>2, SMTT(30)
    <3>6. \A u \in Threads : doing'[u] = "waiting" => Remembered(waits[u])'
      BY <3>5, Zenon DEF Remembered
    <3>7. values' = << >>
      BY <1>3, <2>1, Zenon
    <3> QED BY <3>4, <3>6, <3>7, Zenon DEF WaitersServed
  <2> QED BY <2>3, <2>4, <2>6, <2>7, <2>8, Zenon
<1> QED BY <1>2, <1>3, Zenon

(* A step after which nobody new waits, and those who wait keep their      *)
(* channels, leaves them served.                                           *)
LEMMA StillServed ==
  ASSUME WaitersServed, gets' = gets, values' # << >> => waiters' = << >>,
         \A u \in Threads : doing'[u] = "waiting" =>
           /\ doing[u] = "waiting" /\ waits'[u] = waits[u]
           /\ waits[u] \in open' /\ Remembered(waits[u])'
  PROVE  WaitersServed'
BY Zenon DEF WaitersServed

(* A step that sends nothing and begins no sending leaves them fresh.      *)
LEMMA StillFresh ==
  ASSUME ChannelsFresh, PoolTypeOK, UNCHANGED <<waiters, gets>>,
         \A w \in Gets : chan[w] = NoValue => chan'[w] = NoValue,
         \A u \in Threads : doing'[u] = "sending" => doing[u] = "sending" /\ waits'[u] = waits[u]
  PROVE  ChannelsFresh'
<1>1. \A i \in DOMAIN waiters : waiters[i] \in Gets
  BY QueueFacts, Zenon DEF PoolTypeOK
<1>2. 1 .. gets \subseteq Gets
  BY PoolAssumption DEF PoolTypeOK, Gets
<1>3. \A i \in DOMAIN waiters' : waiters'[i] <= gets' /\ chan'[waiters'[i]] = NoValue
  BY <1>1, Zenon DEF ChannelsFresh
<1>4. \A i, j \in DOMAIN waiters' : waiters'[i] = waiters'[j] => i = j
  BY Zenon DEF ChannelsFresh
<1>5. \A w \in Gets : w > gets' => chan'[w] = NoValue
  BY Zenon DEF ChannelsFresh
<1>6. ASSUME NEW u \in Threads, doing'[u] = "sending"
      PROVE  /\ waits'[u] \in 1 .. gets' /\ chan'[waits'[u]] = NoValue
             /\ \A i \in DOMAIN waiters' : waiters'[i] # waits'[u]
  BY <1>2, <1>6 DEF ChannelsFresh
<1> QED BY <1>3, <1>4, <1>5, <1>6, Zenon DEF ChannelsFresh

(* A value moves out of a channel, and with it, if there is none, nothing. *)
LEMMA TakenFromChannel ==
  ASSUME PoolTypeOK, PlacesDiffer, \A v \in Values : SomePlace(v),
         NEW t \in Threads, NEW w \in Gets, hand[t] = NoValue, values' = values,
         hand' = [hand EXCEPT ![t] = chan[w]], chan' = [chan EXCEPT ![w] = NoValue]
  PROVE  PlacesDiffer' /\ \A v \in Values : SomePlace(v)'
<1>1. PlacesDiffer'
  BY PoolAssumption DEF PlacesDiffer, PoolTypeOK
<1>2. ASSUME NEW v \in Values PROVE SomePlace(v)'
  <2>1. v # NoValue
    BY PoolAssumption, Zenon
  <2>2. CASE \E u \in Threads : hand[u] = v
    BY <2>1, <2>2, Zenon DEF SomePlace, PoolTypeOK
  <2>3. CASE \E x \in Gets : chan[x] = v
    BY <2>3 DEF SomePlace, PoolTypeOK
  <2> QED BY <2>2, <2>3, Zenon DEF SomePlace
<1> QED BY <1>1, <1>2, SMTT(30)

(* ... into an empty one ...                                               *)
LEMMA SentToChannel ==
  ASSUME PoolTypeOK, PlacesDiffer, \A v \in Values : SomePlace(v),
         NEW t \in Threads, NEW w \in Gets, chan[w] = NoValue, values' = values,
         hand' = [hand EXCEPT ![t] = NoValue], chan' = [chan EXCEPT ![w] = hand[t]]
  PROVE  PlacesDiffer' /\ \A v \in Values : SomePlace(v)'
<1>1. PlacesDiffer'
  BY PoolAssumption DEF PlacesDiffer, PoolTypeOK
<1>2. ASSUME NEW v \in Values PROVE SomePlace(v)'
  <2>1. v # NoValue
    BY PoolAssumption, Zenon
  <2>2. CASE \E u \in Threads : hand[u] = v
    BY <2>1, <2>2 DEF SomePlace, PoolTypeOK
  <2>3. CASE \E x \in Gets : chan[x] = v
    BY <2>1, <2>3, Zenon DEF SomePlace, PoolTypeOK
  <2> QED BY <2>2, <2>3, Zenon DEF SomePlace
<1> QED BY <1>1, <1>2, SMTT(30)

(* ... or back to the pool.                                                *)
LEMMA ReturnedToPool ==
  ASSUME PoolTypeOK, PlacesDiffer, \A v \in Values : SomePlace(v),
         NEW t \in Threads, hand[t] # NoValue, values' = Append(values, hand[t]),
         hand' = [hand EXCEPT ![t] = NoValue], chan' = chan
  PROVE  PlacesDiffer' /\ (\A v \in Values : SomePlace(v)') /\ values' \in Seq(Values)
<1>1. /\ values' \in Seq(Values)
      /\ DOMAIN values' = 1 .. Len(values) + 1
      /\ DOMAIN values = 1 .. Len(values) /\ Len(values) \in Nat
      /\ \A i \in DOMAIN values : values'[i] = values[i]
      /\ values'[Len(values) + 1] = hand[t]
      /\ \A i \in DOMAIN values' : i \in DOMAIN values \/ i = Len(values) + 1
      /\ Len(values) + 1 \in DOMAIN values'
      /\ DOMAIN values \subseteq DOMAIN values'
  BY QueueFacts, SMTT(30) DEF PoolTypeOK
<1>2. PlacesDiffer'
  <2>1. /\ \A u \in Threads : hand'[u] \in Values => u # t /\ hand'[u] = hand[u]
        /\ hand[t] \in Values
    BY PoolAssumption, Zenon DEF PoolTypeOK
  <2>2. \A i, j \in DOMAIN values' : values'[i] = values'[j] => i = j
    BY <1>1, <2>1 DEF PlacesDiffer
  <2>3. \A u \in Threads, i \in DOMAIN values' : hand'[u] # values'[i]
    <3> SUFFICES ASSUME NEW u \in Threads, NEW i \in DOMAIN values' PROVE hand'[u] # values'[i]
      BY Zenon
    <3>1. CASE hand'[u] \notin Values
      BY <1>1, <2>1, <3>1, SMTT(30) DEF PoolTypeOK
    <3>2. CASE hand'[u] \in Values
      BY <1>1, <2>1, <3>2 DEF PlacesDiffer
    <3> QED BY <3>1, <3>2, Zenon
  <2>4. \A w \in Gets, i \in DOMAIN values' : chan[w] # values'[i]
    BY <1>1, <2>1 DEF PlacesDiffer
  <2> QED BY <2>1, <2>2, <2>3, <2>4 DEF PlacesDiffer
<1>3. ASSUME NEW v \in Values PROVE SomePlace(v)'
  <2>1. v # NoValue
    BY PoolAssumption, Zenon
  <2>2. CASE \E u \in Threads : hand[u] = v
    <3>1. CASE hand[t] = v
      BY <1>1, <3>1, SMTT(30) DEF SomePlace
    <3>2. CASE \E u \in Threads : u # t /\ hand[u] = v
      BY <3>2, Zenon DEF SomePlace, PoolTypeOK
    <3> QED BY <2>2, <3>1, <3>2, Zenon
  <2>3. CASE \E x \in Gets : chan[x] = v
    BY <2>3, SMTT(30) DEF SomePlace
  <2>4. CASE \E i \in DOMAIN values : values[i] = v
    BY <1>1, <2>4, Zenon DEF SomePlace
  <2> QED BY <2>2, <2>3, <2>4, Zenon DEF SomePlace
<1> QED BY <1>1, <1>2, <1>3, Zenon

(* Receive and Cancel: the call of get is over.                            *)
LEMMA WaitEnds ==
  ASSUME PoolInv, NEW t \in Threads, Receive(t) \/ Cancel(t) PROVE PoolInv'
<1> USE DEF PoolInv
<1> DEFINE w == waits[t]
<1>1. /\ doing[t] = "waiting" /\ hand[t] = NoValue /\ w \in Gets /\ w \in 1 .. gets
      /\ hand' = [hand EXCEPT ![t] = chan[w]] /\ chan' = [chan EXCEPT ![w] = NoValue]
      /\ open' = open \ {w}
      /\ UNCHANGED <<values, waiters, lock, waits, gets>>
      /\ gets \in Nat
  BY PoolAssumption, SMTT(30) DEF Receive, Cancel, ThreadsInStep, WaitersServed, PoolTypeOK, Gets
<1>2. \/ chan[w] # NoValue /\ doing' = [doing EXCEPT ![t] = "holding"]
      \/ chan[w] = NoValue /\ doing' = [doing EXCEPT ![t] = "idle"]
  BY Zenon DEF Receive, Cancel
<1> HIDE DEF w
<1>3. PoolTypeOK'
  BY <1>1, <1>2, SMTT(30) DEF PoolTypeOK
<1>4. PlacesDiffer' /\ \A v \in Values : SomePlace(v)'
  <2>1. PoolTypeOK /\ PlacesDiffer /\ \A v \in Values : SomePlace(v)
    BY Zenon
  <2>2. values' = values
    BY <1>1, Zenon
  <2> QED BY <1>1, <2>1, <2>2, TakenFromChannel, Zenon
<1>5. \A u \in Threads : /\ u # t => doing'[u] = doing[u] /\ hand'[u] = hand[u]
                         /\ doing'[t] \in {"idle", "holding"}
                         /\ doing'[t] = "idle" <=> hand'[t] = NoValue
  BY <1>1, <1>2, Zenon DEF PoolTypeOK
<1>6. ThreadsInStep'
  BY <1>1, <1>5, SMTT(30) DEF ThreadsInStep
<1>7. ChannelsFresh'
  <2>1. \A x \in Gets : chan[x] = NoValue => chan'[x] = NoValue
    BY <1>1, Zenon DEF PoolTypeOK
  <2>2. \A u \in Threads : doing'[u] = "sending" => doing[u] = "sending" /\ waits'[u] = waits[u]
    BY <1>1, <1>5, Zenon
  <2>3. ChannelsFresh /\ PoolTypeOK /\ UNCHANGED <<waiters, gets>>
    BY <1>1, Zenon
  <2> QED BY <2>1, <2>2, <2>3, StillFresh, Zenon
<1>8. WaitersServed'
  <2>1. ASSUME NEW u \in Threads, doing'[u] = "waiting"
        PROVE  /\ doing[u] = "waiting" /\ waits'[u] = waits[u]
               /\ waits[u] \in open' /\ Remembered(waits[u])'
    <3>1. u # t /\ doing[u] = "waiting" /\ waits'[u] = waits[u]
      BY <1>1, <1>5, <2>1, Zenon
    <3>2. waits[u] # w /\ waits[u] \in open /\ waits[u] \in Gets /\ Remembered(waits[u])
      <4>1. waits[u] \in 1 .. gets /\ waits[u] \in open /\ Remembered(waits[u])
        BY <3>1, Zenon DEF WaitersServed
      <4>2. \A v \in Threads : doing[v] = "waiting" /\ waits[v] = waits[u] => v = u
        BY <3>1, Zenon DEF WaitersServed
      <4> QED BY <1>1, <3>1, <4>1, <4>2, Zenon DEF PoolTypeOK, w
    <3>3. chan'[waits[u]] = chan[waits[u]]
      BY <1>1, <3>2, Zenon DEF PoolTypeOK
    <3>4. \A v \in Threads : doing[v] = "sending" => doing'[v] = "sending"
      BY <1>1, <1>5, Zenon
    <3>5. Remembered(waits[u])'
      BY <1>1, <3>2, <3>3, <3>4, Zenon DEF Remembered
    <3> QED BY <1>1, <3>1, <3>2, <3>5, Zenon
  <2>2. values' # << >> => waiters' = << >>
    BY <1>1, Zenon DEF WaitersServed
  <2> QED BY <1>1, <2>1, <2>2, StillServed, Zenon
<1> QED BY <1>3, <1>4, <1>6, <1>7, <1>8, Zenon

(* A drop that takes the lock keeps it.                                    *)
LEMMA StartDropStep ==
  ASSUME PoolInv, NEW t \in Threads, StartDrop(t) PROVE PoolInv'
<1> USE DEF PoolInv
<1>1. /\ doing[t] = "holding" /\ lock = NoThread
      /\ lock' = t /\ doing' = [doing EXCEPT ![t] = "dropping"]
      /\ UNCHANGED <<values, waiters, chan, open, hand, waits, gets>>
  BY Zenon DEF StartDrop
<1>2. \A u \in Threads : IF u = t THEN doing'[u] = "dropping" ELSE doing'[u] = doing[u]
  BY <1>1, Zenon DEF PoolTypeOK
<1>3. PoolTypeOK'
  BY <1>1, Zenon DEF PoolTypeOK
<1>4. PlacesDiffer' /\ \A v \in Values : SomePlace(v)'
  <2>1. UNCHANGED <<values, chan, hand>>
    BY <1>1, Zenon
  <2> QED BY <2>1 DEF PlacesDiffer, SomePlace
<1>5. ThreadsInStep'
  BY <1>1, <1>2, PoolAssumption, Zenon DEF ThreadsInStep
<1>6. ChannelsFresh'
  <2>1. \A u \in Threads : doing'[u] = "sending" => doing[u] = "sending" /\ waits'[u] = waits[u]
    BY <1>1, <1>2, Zenon
  <2>2. ChannelsFresh /\ PoolTypeOK /\ UNCHANGED <<waiters, gets, chan>>
    BY <1>1, Zenon
  <2> QED BY <2>1, <2>2, StillFresh, Zenon
<1>7. WaitersServed'
  <2>1. \A u \in Threads : /\ doing'[u] = "waiting" => doing[u] = "waiting"
                           /\ doing[u] = "sending" => doing'[u] = "sending"
    BY <1>1, <1>2, Zenon
  <2>2. \A x : Remembered(x) => Remembered(x)'
    BY <1>1, <2>1, Zenon DEF Remembered
  <2> QED BY <1>1, <2>1, <2>2, Zenon DEF WaitersServed
<1> QED BY <1>3, <1>4, <1>5, <1>6, <1>7, Zenon

(* A drop that takes the next waiter off the queue keeps it.               *)
LEMMA NextWaiterStep ==
  ASSUME PoolInv, NEW t \in Threads, NextWaiter(t) PROVE PoolInv'
<1> USE DEF PoolInv
<1>1. doing[t] = "dropping" /\ hand[t] # NoValue /\ lock = t /\ UNCHANGED <<chan, open, gets>>
  BY Zenon DEF NextWaiter, ThreadsInStep
<1>2. CASE waiters = << >>
  <2>1. /\ values' = Append(values, hand[t]) /\ hand' = [hand EXCEPT ![t] = NoValue]
        /\ lock' = NoThread /\ doing' = [doing EXCEPT ![t] = "idle"]
        /\ UNCHANGED <<waiters, waits>>
    BY <1>2, Zenon DEF NextWaiter
  <2>2. /\ \A u \in Threads : u # t => doing'[u] = doing[u] /\ hand'[u] = hand[u]
        /\ doing'[t] = "idle" /\ hand'[t] = NoValue
    BY <2>1, Zenon DEF PoolTypeOK
  <2>3. PlacesDiffer' /\ (\A v \in Values : SomePlace(v)') /\ values' \in Seq(Values)
    <3>1. PoolTypeOK /\ PlacesDiffer /\ \A v \in Values : SomePlace(v)
      BY Zenon
    <3>2. chan' = chan
      BY <1>1, Zenon
    <3> QED BY <1>1, <2>1, <3>1, <3>2, ReturnedToPool, Zenon
  <2>4. PoolTypeOK'
    BY <1>1, <2>1, <2>3, Zenon DEF PoolTypeOK
  <2>5. ThreadsInStep'
    BY <1>1, <2>1, <2>2, PoolAssumption, Zenon DEF ThreadsInStep
  <2>6. ChannelsFresh'
    <3>1. \A u \in Threads : doing'[u] = "sending" => doing[u] = "sending" /\ waits'[u] = waits[u]
      BY <2>1, <2>2, Zenon
    <3>2. ChannelsFresh /\ PoolTypeOK /\ UNCHANGED <<waiters, gets, chan>>
      BY <1>1, <2>1, Zenon
    <3> QED BY <3>1, <3>2, StillFresh, Zenon
  <2>7. WaitersServed'
    <3>1. \A u \in Threads : /\ doing'[u] = "waiting" => doing[u] = "waiting"
                             /\ doing[u] = "sending" => doing'[u] = "sending"
      BY <1>1, <2>2, Zenon
    <3>2. \A x : Remembered(x) => Remembered(x)'
      BY <1>1, <2>1, <3>1, Zenon DEF Remembered
    <3>3. waiters' = << >>
      BY <1>2, <2>1, Zenon
    <3> QED BY <1>1, <2>1, <3>1, <3>2, <3>3, Zenon DEF WaitersServed
  <2> QED BY <2>3, <2>4, <2>5, <2>6, <2>7, Zenon
<1>3. CASE waiters # << >>
  <2> DEFINE w == waiters[1]
  <2>1. /\ waiters' = Tail(waiters) /\ UNCHANGED <<values, hand, lock>>
        /\ \/ /\ w \in open
              /\ waits' = [waits EXCEPT ![t] = w]
              /\ doing' = [doing EXCEPT ![t] = "sending"]
           \/ w \notin open /\ UNCHANGED <<waits, doing>>
    BY <1>3, QueueFacts DEF NextWaiter, PoolTypeOK
  <2>2. /\ w \in Gets /\ 1 \in DOMAIN waiters
        /\ waiters' \in Seq(Gets)
        /\ \A i \in DOMAIN waiters' : /\ waiters'[i] = waiters[i + 1]
                                      /\ i + 1 \in DOMAIN waiters /\ i + 1 # 1 /\ i \in Nat
        /\ \A i \in DOMAIN waiters : i # 1 => /\ i - 1 \in DOMAIN waiters' /\ i \in Nat
                                              /\ waiters'[i - 1] = waiters[i]
    BY <1>3, <2>1, QueueFacts, SMTT(30) DEF PoolTypeOK
  <2> HIDE DEF w
  <2>3. \A u \in Threads : u # t => doing'[u] = doing[u] /\ waits'[u] = waits[u]
    BY <2>1, Zenon DEF PoolTypeOK
  <2>4. \/ w \in open /\ doing'[t] = "sending" /\ waits'[t] = w
        \/ w \notin open /\ doing'[t] = "dropping" /\ UNCHANGED <<waits, doing>>
    BY <1>1, <2>1, SMTT(30) DEF PoolTypeOK
  <2>5. PoolTypeOK'
    <3>1. Gets \subseteq 0 .. MaxGets
      BY PoolAssumption DEF Gets
    <3>2. waits' \in [Threads -> 0 .. MaxGets]
      BY <2>1, <2>2, <3>1, Zenon DEF PoolTypeOK
    <3>3. doing' \in [Threads -> {"idle", "waiting", "holding", "dropping", "sending",
                                  "relocking"}]
      <4>1. CASE w \in open
        BY <2>1, <4>1, SMTT(30) DEF PoolTypeOK
      <4>2. CASE w \notin open
        BY <2>1, <4>2, Zenon DEF PoolTypeOK
      <4> QED BY <4>1, <4>2, Zenon
    <3> QED BY <1>1, <2>1, <2>2, <3>2, <3>3, Zenon DEF PoolTypeOK
  <2>6. PlacesDiffer' /\ \A v \in Values : SomePlace(v)'
    <3>1. UNCHANGED <<values, chan, hand>>
      BY <1>1, <2>1, Zenon
    <3> QED BY <3>1, ZenonT(30) DEF PlacesDiffer, SomePlace
  <2>7. ThreadsInStep'
    BY <1>1, <2>1, <2>3, <2>4, SMTT(30) DEF ThreadsInStep
  <2>8. ChannelsFresh'
    <3>1. w \in 1 .. gets /\ chan[w] = NoValue /\ \A i \in DOMAIN waiters : i # 1 => waiters[i] # w
      BY <2>2, SMTT(30) DEF ChannelsFresh, Gets, w
    <3>2. \A i, j \in DOMAIN waiters' : waiters'[i] = waiters'[j] => i = j
      BY <2>2 DEF ChannelsFresh
    <3>3. \A i \in DOMAIN waiters' : waiters'[i] <= gets /\ chan[waiters'[i]] = NoValue /\ waiters'[i] # w
      BY <2>2, <3>1 DEF ChannelsFresh
    <3>4. ASSUME NEW u \in Threads, doing'[u] = "sending"
          PROVE  /\ waits'[u] \in 1 .. gets /\ chan[waits'[u]] = NoValue
                 /\ \A i \in DOMAIN waiters' : waiters'[i] # waits'[u]
      <4>1. CASE u = t
        BY <2>4, <3>1, <3>3, <3>4, <4>1, Zenon
      <4>2. CASE u # t
        BY <2>2, <2>3, <3>4, <4>2, SMTT(30) DEF ChannelsFresh
      <4> QED BY <4>1, <4>2, Zenon
    <3> QED BY <1>1, <3>2, <3>3, <3>4, Zenon DEF ChannelsFresh
  <2>9. WaitersServed'
    <3>1. values = << >>
      BY <1>3, SMTT(30) DEF WaitersServed
    <3>2. ASSUME NEW u \in Threads, doing'[u] = "waiting"
          PROVE  /\ u # t /\ doing[u] = "waiting" /\ waits'[u] = waits[u]
                 /\ \/ chan[waits[u]] # NoValue
                    \/ \E i \in DOMAIN waiters' : waiters'[i] = waits[u]
                    \/ \E v \in Threads : doing'[v] = "sending" /\ waits'[v] = waits[u]
      <4>1. u # t /\ doing[u] = "waiting" /\ waits'[u] = waits[u] /\ waits[u] \in open
        BY <2>3, <2>4, <3>2, Zenon DEF WaitersServed
      <4>2. CASE \E v \in Threads : doing[v] = "sending" /\ waits[v] = waits[u]
        BY <1>1, <2>3, <4>1, <4>2, Zenon
      <4>3. CASE \E i \in DOMAIN waiters : waiters[i] = waits[u]
        <5>1. PICK i \in DOMAIN waiters : waiters[i] = waits[u]
          BY <4>3, SMTT(30)
        <5>2. CASE i = 1
          BY <2>4, <4>1, <5>1, <5>2, Zenon DEF w
        <5>3. CASE i # 1
          BY <2>2, <4>1, <5>1, <5>3
        <5> QED BY <5>2, <5>3, Zenon
      <4>4. Remembered(waits[u])
        BY <4>1, Zenon DEF WaitersServed
      <4> QED BY <4>1, <4>2, <4>3, <4>4, Zenon DEF Remembered
    <3>3. ASSUME NEW u \in Threads, doing'[u] = "waiting"
          PROVE  /\ doing[u] = "waiting" /\ waits'[u] = waits[u]
                 /\ waits[u] \in open' /\ Remembered(waits[u])'
      <4>1. doing[u] = "waiting" /\ waits'[u] = waits[u] /\ waits[u] \in open'
        BY <1>1, <3>2, <3>3, Zenon DEF WaitersServed
      <4>2. UNCHANGED chan
        BY <1>1, Zenon
      <4> QED BY <3>2, <3>3, <4>1, <4>2 DEF Remembered
    <3>4. values' = << >>
      BY <2>1, <3>1, Zenon
    <3> QED BY <1>1, <3>3, <3>4, StillServed, Zenon
  <2> QED BY <2>5, <2>6, <2>7, <2>8, <2>9, Zenon
<1> QED BY <1>2, <1>3, Zenon

(* A drop that sends its value to the waiter keeps it.                     *)
LEMMA SendStep ==
  ASSUME PoolInv, NEW t \in Threads, SendValue(t) PROVE PoolInv'
<1> USE DEF PoolInv
<1> DEFINE w == waits[t]
<1>1. /\ doing[t] = "sending" /\ hand[t] # NoValue /\ lock = t
      /\ w \in 1 .. gets /\ chan[w] = NoValue /\ \A i \in DOMAIN waiters : waiters[i] # w
      /\ UNCHANGED <<values, waiters, open, waits, gets>>
  BY Zenon DEF SendValue, ThreadsInStep, ChannelsFresh
<1>2. w \in Gets
  BY <1>1, PoolAssumption DEF PoolTypeOK, Gets
<1>3. CASE w \in open
  <2>1. /\ chan' = [chan EXCEPT ![w] = hand[t]] /\ hand' = [hand EXCEPT ![t] = NoValue]
        /\ lock' = NoThread /\ doing' = [doing EXCEPT ![t] = "idle"]
    BY <1>3, Zenon DEF SendValue
  <2> HIDE DEF w
  <2>2. /\ \A u \in Threads : u # t => doing'[u] = doing[u] /\ hand'[u] = hand[u]
        /\ doing'[t] = "idle" /\ hand'[t] = NoValue
        /\ \A x \in Gets : x # w => chan'[x] = chan[x]
        /\ chan'[w] # NoValue
    BY <1>1, <1>2, <2>1, Zenon DEF PoolTypeOK
  <2>3. PlacesDiffer' /\ (\A v \in Values : SomePlace(v)')
    <3>1. PoolTypeOK /\ PlacesDiffer /\ \A v \in Values : SomePlace(v)
      BY Zenon
    <3>2. values' = values
      BY <1>1, Zenon
    <3> QED BY <1>1, <1>2, <2>1, <3>1, <3>2, SentToChannel, Zenon
  <2>4. PoolTypeOK'
    BY <1>1, <1>2, <2>1, Zenon DEF PoolTypeOK
  <2>5. ThreadsInStep'
    BY <1>1, <2>1, <2>2, PoolAssumption DEF ThreadsInStep
  <2>6. \A u \in Threads : doing'[u] # "sending"
    BY <1>1, <2>2, PoolAssumption, Zenon DEF ThreadsInStep
  <2>7. \A i \in DOMAIN waiters : waiters[i] \in Gets
    BY QueueFacts, Zenon DEF PoolTypeOK
  <2>8. ChannelsFresh'
    <3>1. \A i \in DOMAIN waiters : waiters[i] <= gets /\ chan'[waiters[i]] = NoValue
      BY <1>1, <2>2, <2>7 DEF ChannelsFresh
    <3>2. \A x \in Gets : x > gets => x # w
      BY <1>1, PoolAssumption DEF PoolTypeOK, Gets
    <3>3. \A x \in Gets : x > gets => chan'[x] = NoValue
      BY <2>2, <3>2, Zenon DEF ChannelsFresh
    <3>4. \A i, j \in DOMAIN waiters : waiters[i] = waiters[j] => i = j
      BY Zenon DEF ChannelsFresh
    <3> QED BY <1>1, <2>6, <3>1, <3>3, <3>4, Zenon DEF ChannelsFresh
  <2>9. WaitersServed'
    <3>1. ASSUME NEW u \in Threads, doing'[u] = "waiting"
          PROVE  /\ doing[u] = "waiting" /\ waits'[u] = waits[u]
                 /\ waits[u] \in open' /\ Remembered(waits[u])'
      <4>1. doing[u] = "waiting"
        BY <2>2, <3>1, Zenon
      <4>2. waits[u] \in 1 .. gets /\ waits[u] \in open /\ Remembered(waits[u])
        BY <4>1, Zenon DEF WaitersServed
      <4>3. waits[u] \in Gets
        BY <4>2, PoolAssumption, Zenon DEF PoolTypeOK, Gets
      <4>4. CASE waits[u] = w
        BY <1>1, <2>2, <4>1, <4>2, <4>4, Zenon DEF Remembered
      <4>5. CASE waits[u] # w
        <5>1. \A v \in Threads : doing[v] = "sending" => v = t
          BY <1>1, Zenon DEF ThreadsInStep
        <5>2. \A v \in Threads : ~ (doing[v] = "sending" /\ waits[v] = waits[u])
          BY <4>5, <5>1, Zenon DEF w
        <5>3. chan'[waits[u]] = chan[waits[u]]
          BY <2>2, <4>3, <4>5, Zenon
        <5> QED BY <1>1, <4>1, <4>2, <5>2, <5>3, Zenon DEF Remembered
      <4> QED BY <4>4, <4>5, Zenon
    <3>2. values' # << >> => waiters' = << >>
      BY <1>1, Zenon DEF WaitersServed
    <3> QED BY <1>1, <3>1, <3>2, StillServed, Zenon
  <2> QED BY <2>3, <2>4, <2>5, <2>8, <2>9, Zenon
<1>4. CASE w \notin open
  <2>1. doing' = [doing EXCEPT ![t] = "relocking"] /\ UNCHANGED <<chan, hand, lock>>
    BY <1>4, Zenon DEF SendValue
  <2> HIDE DEF w
  <2>2. \A u \in Threads : IF u = t THEN doing'[u] = "relocking" ELSE doing'[u] = doing[u]
    BY <2>1, Zenon DEF PoolTypeOK
  <2>3. PlacesDiffer' /\ (\A v \in Values : SomePlace(v)')
    <3>1. UNCHANGED <<values, chan, hand>>
      BY <1>1, <2>1, Zenon
    <3> QED BY <3>1, Zenon DEF PlacesDiffer, SomePlace
  <2>4. PoolTypeOK'
    BY <1>1, <2>1, Zenon DEF PoolTypeOK
  <2>5. ThreadsInStep'
    BY <1>1, <2>1, <2>2, Zenon DEF ThreadsInStep
  <2>6. ChannelsFresh'
    <3>1. \A u \in Threads : doing'[u] = "sending" => doing[u] = "sending" /\ waits'[u] = waits[u]
      BY <1>1, <2>2, Zenon
    <3>2. ChannelsFresh /\ PoolTypeOK /\ UNCHANGED <<waiters, gets, chan>>
      BY <1>1, <2>1, Zenon
    <3> QED BY <3>1, <3>2, StillFresh, Zenon
  <2>7. WaitersServed'
    <3>1. ASSUME NEW u \in Threads, doing'[u] = "waiting"
          PROVE  /\ doing[u] = "waiting" /\ waits'[u] = waits[u]
                 /\ waits[u] \in open' /\ Remembered(waits[u])'
      <4>1. doing[u] = "waiting"
        BY <2>2, <3>1, Zenon
      <4>2. waits[u] \in open /\ Remembered(waits[u])
        BY <4>1, Zenon DEF WaitersServed
      <4>3. waits[u] # w
        BY <1>4, <4>2, Zenon
      <4>4. \A v \in Threads : doing[v] = "sending" /\ waits[v] = waits[u] => doing'[v] = "sending"
        BY <2>2, <4>3, Zenon DEF w
      <4> QED BY <1>1, <2>1, <4>1, <4>2, <4>4, Zenon DEF Remembered
    <3>2. values' # << >> => waiters' = << >>
      BY <1>1, Zenon DEF WaitersServed
    <3> QED BY <1>1, <3>1, <3>2, StillServed, Zenon
  <2> QED BY <2>3, <2>4, <2>5, <2>6, <2>7, Zenon
<1> QED BY <1>3, <1>4, SMTT(30)

(* Every step of the pool keeps it.                                        *)
LEMMA PoolStepInv == PoolInv /\ [PoolNext]_poolVars => PoolInv'
<1> SUFFICES ASSUME PoolInv, [PoolNext]_poolVars PROVE PoolInv'
  BY Zenon
<1>1. CASE UNCHANGED poolVars
  <2>1. PoolTypeOK'
    BY <1>1, Zenon DEF poolVars, PoolInv, PoolTypeOK
  <2>2. PlacesDiffer' /\ \A v \in Values : SomePlace(v)'
    BY <1>1, ZenonT(30) DEF poolVars, PoolInv, PlacesDiffer, SomePlace
  <2>3. ThreadsInStep' /\ ChannelsFresh'
    BY <1>1, Zenon DEF poolVars, PoolInv, ThreadsInStep, ChannelsFresh
  <2>4. WaitersServed'
    BY <1>1, ZenonT(30) DEF poolVars, PoolInv, WaitersServed, Remembered
  <2> QED BY <2>1, <2>2, <2>3, <2>4, Zenon DEF PoolInv
<1> QED
  BY <1>1, GetStep, WaitEnds, StartDropStep, NextWaiterStep, SendStep, Zenon DEF PoolNext

(* PoolConserves, for any values and threads: a value is in one place at a *)
(* time and is never lost, and nobody waits while one lies in the pool.    *)
THEOREM PoolKeepsValues == PoolSpec => []PoolConserves
<1>1. PoolSpec => []PoolInv
  BY PoolInitInv, PoolStepInv, PTL DEF PoolSpec
<1> QED BY <1>1, PoolInvImplies, PTL

-----------------------------------------------------------------------------
(* The tick worker.                                                        *)

WorkerState == [id : {1}, pc : {"check", "tick", "ticking", "sleep", "wait", "ended"}]

TickTypeOK ==
  /\ library \in {"node", "solid"}
  /\ is_running \in BOOLEAN
  /\ shutdown \in BOOLEAN
  /\ permit \in BOOLEAN
  /\ asked \in BOOLEAN
  /\ dropping \in {"no", "flagged", "done"}
  /\ workers = {} \/ \E w \in WorkerState : workers = {w}

(* is_running says whether the node's worker exists; after the drop every  *)
(* worker that has not seen the flag has the notification to come.         *)
TickInv ==
  /\ TickTypeOK
  /\ shutdown <=> dropping # "no"
  /\ library = "node" /\ dropping = "no" => (is_running <=> workers # {})
  /\ asked => permit \/ \E w \in workers : w.pc \in {"check", "tick", "ended"}
  /\ dropping = "done" =>
       \A w \in workers : w.pc \in {"tick", "ticking", "sleep", "wait"} => permit

(* The invariant says what is checked of the tick worker.                  *)
LEMMA TickInvImplies == TickInv => TickNotLost
<1> SUFFICES ASSUME TickInv PROVE TickNotLost
  BY Zenon
<1>1. Cardinality(workers) <= 1
  BY FS_EmptySet, FS_Singleton DEF TickInv, TickTypeOK
<1> QED BY <1>1, Zenon DEF TickInv, TickNotLost

(* A worker that takes a step stays the only one.                          *)
LEMMA WorkerStays ==
  ASSUME TickTypeOK, NEW w \in workers,
         NEW pc \in {"check", "tick", "ticking", "sleep", "wait", "ended"},
         WorkerBecomes(w, pc)
  PROVE  workers = {w} /\ \E v \in WorkerState : v.pc = pc /\ workers' = {v}
<1>1. w \in WorkerState /\ workers = {w}
  BY Zenon DEF TickTypeOK
<1>2. [w EXCEPT !.pc = pc] \in WorkerState /\ [w EXCEPT !.pc = pc].pc = pc
  BY <1>1, Zenon DEF WorkerState
<1> QED BY <1>1, <1>2, Zenon DEF WorkerBecomes

(* A new tick worker satisfies the invariant.                              *)
LEMMA TickInitInv == TickInit => TickInv
BY Zenon DEF TickInit, TickInv, TickTypeOK

(* Every step of a tick worker keeps it.                                   *)
LEMMA TickStepInv == TickInv /\ [TickNext]_tickVars => TickInv'
<1> SUFFICES ASSUME TickInv, [TickNext]_tickVars PROVE TickInv'
  BY Zenon
<1>1. CASE ForceTick
  BY <1>1, Zenon DEF ForceTick, Notify, Called, TickInv, TickTypeOK
<1>2. ASSUME workers = {} PROVE Worker \in WorkerState /\ Worker.pc = "check"
  BY <1>2, FS_EmptySet DEF Worker, WorkerState
<1>3. CASE Run
  <2>1. CASE is_running
    BY <1>3, <2>1, Zenon DEF Run, Notify, Called, TickInv, TickTypeOK
  <2>2. CASE ~ is_running
    <3>1. workers = {} /\ workers' = {Worker}
      BY <1>3, <2>2, Zenon DEF Run, Called, TickInv
    <3> QED BY <1>2, <1>3, <2>2, <3>1, Zenon DEF Run, Called, TickInv, TickTypeOK
  <2> QED BY <2>1, <2>2, Zenon
<1>4. CASE RunSolid
  BY <1>2, <1>4, Zenon DEF RunSolid, Called, TickInv, TickTypeOK
<1>5. CASE Shutdown
  BY <1>5, Zenon DEF Shutdown, TickInv, TickTypeOK
<1>6. CASE ShutdownNotify
  BY <1>6, Zenon DEF ShutdownNotify, TickInv, TickTypeOK
<1>7. ASSUME NEW w \in workers,
             Check(w) \/ BeginTick(w) \/ TickReturns(w) \/ Notified(w) \/ SleepEnds(w)
      PROVE  TickInv'
  <2>0. TickTypeOK
    BY Zenon DEF TickInv
  <2>1. CASE Check(w)
    <3>1. PICK v \in WorkerState : /\ v.pc = IF shutdown THEN "ended" ELSE "tick"
                                   /\ workers = {w} /\ workers' = {v}
      BY <2>0, <2>1, WorkerStays, Zenon DEF Check
    <3> QED BY <2>1, <3>1, Zenon DEF Check, TickInv, TickTypeOK
  <2>2. CASE BeginTick(w)
    <3>1. PICK v \in WorkerState : v.pc = "ticking" /\ workers = {w} /\ workers' = {v}
      BY <2>0, <2>2, WorkerStays, Zenon DEF BeginTick
    <3> QED BY <2>2, <3>1, Zenon DEF BeginTick, TickInv, TickTypeOK
  <2>3. CASE TickReturns(w)
    <3>1. PICK v \in WorkerState : /\ v.pc \in {"sleep", "check", "wait"}
                                   /\ workers = {w} /\ workers' = {v}
      BY <2>0, <2>3, WorkerStays DEF TickReturns
    <3> QED BY <2>3, <3>1, Zenon DEF TickReturns, TickInv, TickTypeOK
  <2>4. CASE Notified(w)
    <3>1. PICK v \in WorkerState : v.pc = "check" /\ workers = {w} /\ workers' = {v}
      BY <2>0, <2>4, WorkerStays, Zenon DEF Notified
    <3> QED BY <2>4, <3>1, Zenon DEF Notified, TickInv, TickTypeOK
  <2>5. CASE SleepEnds(w)
    <3>1. PICK v \in WorkerState : v.pc = "check" /\ workers = {w} /\ workers' = {v}
      BY <2>0, <2>5, WorkerStays, Zenon DEF SleepEnds
    <3> QED BY <2>5, <3>1, Zenon DEF SleepEnds, TickInv, TickTypeOK
  <2> QED BY <1>7, <2>1, <2>2, <2>3, <2>4, <2>5, Zenon
<1>8. CASE UNCHANGED tickVars
  BY <1>8, Zenon DEF tickVars, TickInv, TickTypeOK
<1> QED BY <1>1, <1>3, <1>4, <1>5, <1>6, <1>7, <1>8, Zenon DEF TickNext

(* TickNotLost, for any number of calls: run never starts a second worker, *)
(* no tick that was asked for is lost, and a dropped TickWorker ends.      *)
THEOREM TickNeverLost == TickSpec => []TickNotLost
<1>1. TickSpec => []TickInv
  BY TickInitInv, TickStepInv, PTL DEF TickSpec
<1> QED BY <1>1, TickInvImplies, PTL

-----------------------------------------------------------------------------
(* The batching queue.                                                     *)

Time == Nat \cup {NoTime}

TaskState ==
  [id : {1}, pc : {"spawned", "sleeping", "processing", "processed"}, until : Nat,
   batch : Seq(Callers)]

BatchTypeOK ==
  /\ now \in Nat
  /\ config \in Configs
  /\ items \in Seq(Callers)
  /\ next \in Time
  /\ lastExecution \in Time
  /\ processing \in BOOLEAN
  /\ tasks = {} \/ \E t \in TaskState : tasks = {t}
  /\ reply \in [Callers -> {"idle", "waiting", "dropped", "ok", "err"}]

Queued(c) == \E i \in DOMAIN items : items[i] = c

InBatch(t, c) == t.pc = "processing" /\ \E i \in DOMAIN t.batch : t.batch[i] = c

(* next_execution and processing say where the one task is: without a task *)
(* both are unset and the queue is empty.                                  *)
BatchInv ==
  /\ BatchTypeOK
  /\ tasks = {} => next = NoTime /\ ~ processing /\ items = << >>
  /\ \A t \in tasks :
       /\ t.pc \in {"spawned", "sleeping"} => next # NoTime /\ ~ processing
       /\ t.pc \in {"processing", "processed"} => next = NoTime /\ processing
  /\ \A c \in Callers :
       reply[c] = "waiting" => Queued(c) \/ \E t \in tasks : InBatch(t, c)

(* The invariant says what is checked of the batching queue.               *)
LEMMA BatchInvImplies == BatchInv => NobodyForgotten
<1> SUFFICES ASSUME BatchInv PROVE NobodyForgotten
  BY Zenon
<1>1. Cardinality(tasks) <= 1
  <2>1. tasks = {} \/ \E t : tasks = {t}
    BY Zenon DEF BatchInv, BatchTypeOK
  <2>2. Cardinality(tasks) \in {0, 1}
    BY <2>1, FS_EmptySet, FS_Singleton, Zenon
  <2> QED BY <2>2
<1>2. ASSUME NEW c \in Callers, reply[c] = "waiting"
      PROVE  \/ Queued(c) /\ tasks # {}
             \/ \E t \in tasks : InBatch(t, c)
  <2>1. CASE Queued(c)
    BY <1>2, <2>1 DEF BatchInv, BatchTypeOK, Queued
  <2> QED BY <1>2, <2>1, Zenon DEF BatchInv
<1> QED BY <1>1, <1>2, Zenon DEF NobodyForgotten, Queued, InBatch

(* A task that takes a step stays the only one.                            *)
LEMMA TaskStays ==
  ASSUME BatchTypeOK, NEW t \in tasks
  PROVE  t \in TaskState /\ tasks = {t}
BY Zenon DEF BatchTypeOK

(* A new queue satisfies it.                                               *)
LEMMA BatchInitInv == BatchInit => BatchInv
<1> SUFFICES ASSUME BatchInit PROVE BatchInv
  BY Zenon
<1>1. items \in Seq(Callers) /\ tasks = {} /\ now \in Nat /\ config \in Configs
  BY DEF BatchInit
<1>2. next \in Time /\ lastExecution \in Time
  BY Zenon DEF BatchInit, Time
<1>3. reply \in [Callers -> {"idle", "waiting", "dropped", "ok", "err"}]
  BY Zenon DEF BatchInit
<1> QED BY <1>1, <1>2, <1>3, Zenon DEF BatchInit, BatchInv, BatchTypeOK

(* A call keeps it, whether it finds a task or spawns one.                 *)
LEMMA CallStep ==
  ASSUME BatchInv, NEW c \in Callers, CallBatch(c) PROVE BatchInv'
<1>1. items' \in Seq(Callers) /\ Queued(c)' /\ \A d \in Callers : Queued(d) => Queued(d)'
  BY DEF CallBatch, BatchInv, BatchTypeOK, Queued
<1>2. /\ reply' \in [Callers -> {"idle", "waiting", "dropped", "ok", "err"}]
      /\ \A d \in Callers : d # c => reply'[d] = reply[d]
  BY Zenon DEF CallBatch, BatchInv, BatchTypeOK
<1>3. CASE MayPlan
  <2>1. tasks = {}
    BY <1>3, Zenon DEF MayPlan, BatchInv, BatchTypeOK, TaskState
  <2>2. Spawned \in TaskState /\ Spawned.pc = "spawned"
    BY <2>1, FS_EmptySet DEF Spawned, TaskState
  <2>3. tasks' = {Spawned} /\ ~ processing
    BY <1>3, <2>1, Zenon DEF CallBatch, MayPlan
  <2>4. next' \in Nat
    BY <1>3, BatchAssumption DEF CallBatch, MaxOf, BatchInv, BatchTypeOK, Time, NoTime
  <2>5. next' \in Time /\ next' # NoTime
    BY <2>4 DEF Time, NoTime
  <2> QED BY <1>1, <1>2, <2>1, <2>2, <2>3, <2>5, Zenon DEF CallBatch, BatchInv, BatchTypeOK
<1>4. CASE ~ MayPlan
  <2>1. tasks # {} /\ UNCHANGED <<next, tasks>>
    BY <1>4, Zenon DEF MayPlan, CallBatch, BatchInv
  <2>2. \A d \in Callers : \A t \in tasks : InBatch(t, d) <=> InBatch(t, d)'
    BY <2>1, Zenon DEF InBatch
  <2> QED BY <1>1, <1>2, <2>1, <2>2, Zenon DEF CallBatch, BatchInv, BatchTypeOK
<1> QED BY <1>3, <1>4, Zenon

(* A caller that goes away keeps it.                                       *)
LEMMA AbandonStep ==
  ASSUME BatchInv, NEW c \in Callers, Abandon(c) PROVE BatchInv'
<1>1. /\ reply' \in [Callers -> {"idle", "waiting", "dropped", "ok", "err"}]
      /\ \A d \in Callers : reply'[d] = "waiting" => reply[d] = "waiting"
  BY Zenon DEF Abandon, BatchInv, BatchTypeOK
<1>2. \A d \in Callers : Queued(d) <=> Queued(d)'
  BY Zenon DEF Abandon, Queued
<1> QED BY <1>1, <1>2, Zenon DEF Abandon, BatchInv, BatchTypeOK

(* A task that reads when the batch is due keeps it.                       *)
LEMMA PlanSleepStep ==
  ASSUME BatchInv, NEW t \in tasks, PlanSleep(t) PROVE BatchInv'
<1>1. t \in TaskState /\ tasks = {t} /\ next # NoTime
  BY TaskStays, Zenon DEF PlanSleep, BatchInv
<1>2. PICK u \in TaskState : tasks' = {u} /\ u.pc = "sleeping"
  <2> DEFINE u == [t EXCEPT !.pc = "sleeping", !.until = MaxOf(next, now)]
  <2>1. MaxOf(next, now) \in Nat
    BY <1>1, Zenon DEF MaxOf, BatchInv, BatchTypeOK, Time
  <2>2. u \in TaskState /\ u.pc = "sleeping"
    BY <1>1, <2>1, Zenon DEF TaskState
  <2> QED BY <1>1, <2>2, Zenon DEF PlanSleep, TaskBecomes
<1>3. \A d \in Callers : (Queued(d) <=> Queued(d)') /\ ~ InBatch(t, d)
  BY Zenon DEF PlanSleep, Queued, InBatch
<1> QED BY <1>1, <1>2, <1>3, Zenon DEF PlanSleep, BatchInv, BatchTypeOK

(* A task that takes the items of the queue keeps it.                      *)
LEMMA TakeItemsStep ==
  ASSUME BatchInv, NEW t \in tasks, TakeItems(t) PROVE BatchInv'
<1>1. t \in TaskState /\ tasks = {t}
  BY TaskStays, Zenon DEF BatchInv
<1>2. PICK u \in TaskState : tasks' = {u} /\ u.pc = "processing" /\ u.batch = items
  <2> DEFINE u == [t EXCEPT !.pc = "processing", !.batch = items]
  <2>1. u \in TaskState /\ u.pc = "processing" /\ u.batch = items
    BY <1>1, Zenon DEF TaskState, BatchInv, BatchTypeOK
  <2> QED BY <1>1, <2>1, Zenon DEF TakeItems, TaskBecomes
<1>3. \A d \in Callers : reply[d] = "waiting" => InBatch(u, d)
  BY <1>1, <1>2, ZenonT(30) DEF TakeItems, BatchInv, Queued, InBatch
<1> QED BY <1>2, <1>3 DEF TakeItems, BatchInv, BatchTypeOK, InBatch, Time

(* A task that answers its batch keeps it, whatever the outcome.           *)
LEMMA ProcessStep ==
  ASSUME BatchInv, NEW t \in tasks, NEW outcome \in {"ok", "err"}, ProcessBatch(t, outcome)
  PROVE  BatchInv'
<1>1. t \in TaskState /\ tasks = {t} /\ next = NoTime /\ processing
  BY TaskStays, Zenon DEF ProcessBatch, BatchInv
<1>2. PICK u \in TaskState : tasks' = {u} /\ u.pc = "processed"
  <2> DEFINE u == [t EXCEPT !.pc = "processed", !.batch = << >>]
  <2>0. << >> \in Seq(Callers)
    OBVIOUS
  <2>1. u \in TaskState /\ u.pc = "processed"
    BY <1>1, <2>0, Zenon DEF TaskState
  <2> QED BY <1>1, <2>1, Zenon DEF ProcessBatch, TaskBecomes
<1>3. /\ reply' \in [Callers -> {"idle", "waiting", "dropped", "ok", "err"}]
      /\ \A d \in Callers : reply'[d] = "waiting" => reply[d] = "waiting" /\ ~ InBatch(t, d)
  BY Zenon DEF ProcessBatch, BatchInv, BatchTypeOK, InBatch
<1>4. \A d \in Callers : Queued(d) <=> Queued(d)'
  BY Zenon DEF ProcessBatch, Queued
<1> QED BY <1>1, <1>2, <1>3, <1>4 DEF ProcessBatch, BatchInv, BatchTypeOK

(* A task that ends or plans the next execution keeps it.                  *)
LEMMA FinishStep ==
  ASSUME BatchInv, NEW t \in tasks, FinishBatch(t) PROVE BatchInv'
<1>1. t \in TaskState /\ tasks = {t} /\ next = NoTime
  BY TaskStays, Zenon DEF FinishBatch, BatchInv
<1>2. \A d \in Callers : (Queued(d) <=> Queued(d)') /\ ~ InBatch(t, d)
  BY Zenon DEF FinishBatch, Queued, InBatch
<1>3. lastExecution' \in Time /\ now \in Time /\ now # NoTime
  BY DEF FinishBatch, BatchInv, BatchTypeOK, Time, NoTime
<1>4. CASE items # << >>
  <2>1. PICK u \in TaskState : tasks' = {u} /\ u.pc = "spawned"
    <3> DEFINE u == [t EXCEPT !.pc = "spawned"]
    <3>1. u \in TaskState /\ u.pc = "spawned"
      BY <1>1, Zenon DEF TaskState
    <3> QED BY <1>1, <1>4, <3>1, Zenon DEF FinishBatch, TaskBecomes
  <2>2. next' = now /\ processing' = FALSE /\ UNCHANGED <<now, config, items, reply>>
    BY <1>1, <1>4, Zenon DEF FinishBatch
  <2>3. BatchTypeOK'
    BY <1>3, <2>1, <2>2, Zenon DEF BatchInv, BatchTypeOK
  <2> QED BY <1>1, <1>2, <1>3, <2>1, <2>2, <2>3, Zenon DEF BatchInv
<1>5. CASE items = << >>
  <2>1. tasks' = {} /\ next' = next
    BY <1>1, <1>5, Zenon DEF FinishBatch
  <2> QED BY <1>1, <1>2, <1>3, <1>5, <2>1, Zenon DEF FinishBatch, BatchInv, BatchTypeOK
<1> QED BY <1>4, <1>5, Zenon

(* Every step of the queue keeps it.                                       *)
LEMMA BatchStepInv == BatchInv /\ [BatchNext]_batchVars => BatchInv'
<1> SUFFICES ASSUME BatchInv, [BatchNext]_batchVars PROVE BatchInv'
  BY Zenon
<1>1. CASE UpdateConfig
  <2>1. \A d \in Callers : Queued(d) <=> Queued(d)'
    BY <1>1, Zenon DEF UpdateConfig, Queued
  <2> QED BY <1>1, <2>1, Zenon DEF UpdateConfig, BatchInv, BatchTypeOK
<1>2. CASE Elapse
  <2>1. \A d \in Callers : Queued(d) <=> Queued(d)'
    BY <1>2, Zenon DEF Elapse, Queued
  <2> QED BY <1>2, <2>1 DEF Elapse, BatchInv, BatchTypeOK
<1>3. CASE UNCHANGED batchVars
  <2>1. \A d \in Callers : Queued(d) <=> Queued(d)'
    BY <1>3, Zenon DEF batchVars, Queued
  <2> QED BY <1>3, <2>1, Zenon DEF batchVars, BatchInv, BatchTypeOK
<1> QED
  BY <1>1, <1>2, <1>3, CallStep, AbandonStep, PlanSleepStep, TakeItemsStep, ProcessStep,
     FinishStep, Zenon DEF BatchNext

(* NobodyForgotten, for any callers, delays and intervals: as long as a    *)
(* call waits, a task is there that will process its item, and batches are *)
(* processed one at a time.                                                *)
THEOREM NobodyIsForgotten == BatchSpec => []NobodyForgotten
<1>1. BatchSpec => []BatchInv
  BY BatchInitInv, BatchStepInv, PTL DEF BatchSpec
<1> QED BY <1>1, BatchInvImplies, PTL


-----------------------------------------------------------------------------
(* Who may advance the rollup contract, for every set of accounts and      *)
(* validators, every delay and every number of owner calls.                *)

(* Later validator sets are for greater heights (_setValidators asks for   *)
(* it), and the one in use is for the contract's height.                   *)
SetsInOrder ==
  /\ \A i, j \in DOMAIN validatorSets :
       i < j => validatorSets[i].validFrom < validatorSets[j].validFrom
  /\ validatorSets[validatorSetIndex].validFrom <= blockHeight

AuthInv == AuthTypeOK /\ SetsInOrder

-----------------------------------------------------------------------------

(* The sequence of validator sets, entry by entry.                         *)
LEMMA SetsTyped ==
  ASSUME AuthTypeOK
  PROVE  /\ Len(validatorSets) \in Nat
         /\ DOMAIN validatorSets = 1 .. Len(validatorSets)
         /\ \A i \in DOMAIN validatorSets : /\ validatorSets[i].validFrom \in Nat
                                           /\ validatorSets[i].members \in SUBSET Address
<1> DEFINE R == [validFrom : Nat, members : SUBSET Address]
<1>1. validatorSets \in Seq(R)
  BY Zenon DEF AuthTypeOK
<1>2. \A r \in R : r.validFrom \in Nat /\ r.members \in SUBSET Address
  BY Zenon
<1> HIDE DEF R
<1>3. /\ Len(validatorSets) \in Nat
      /\ DOMAIN validatorSets = 1 .. Len(validatorSets)
      /\ \A i \in DOMAIN validatorSets : validatorSets[i] \in R
  BY <1>1
<1> QED BY <1>2, <1>3, Zenon

(* Sets of validators are finite.                                          *)
LEMMA ValidatorsFinite ==
  ASSUME NEW V \in SUBSET Address
  PROVE  IsFiniteSet(V) /\ Cardinality(V) \in Nat
BY RollupAuthAssumption, FS_Subset, FS_CardinalityType, Zenon

(* The threshold of verifyValidatorSignatures is more than two thirds.     *)
LEMMA Threshold ==
  ASSUME NEW n \in Nat
  PROVE  (n * 2) \div 3 + 1 \in Nat /\ 3 * ((n * 2) \div 3 + 1) > 2 * n
OBVIOUS

(* Signatures in strict order are of as many validators as there are       *)
(* signatures.                                                             *)
LEMMA SignersCounted ==
  ASSUME NEW n \in Nat, NEW sigs \in [1 .. n -> Address],
         \A j, k \in 1 .. n : j < k => sigs[j] < sigs[k]
  PROVE  IsFiniteSet(Range(sigs)) /\ Cardinality(Range(sigs)) = n
<1>1. \A j \in 1 .. n : sigs[j] \in Nat
  BY RollupAuthAssumption, Zenon
<1>2. \A j, k \in 1 .. n : sigs[j] = sigs[k] => j = k
  BY <1>1
<1>3. sigs \in Bijection(1 .. n, Range(sigs))
  BY <1>2, Zenon DEF Bijection, Injection, Surjection, IsInjective, Range
<1>4. ExistsBijection(1 .. n, Range(sigs))
  BY <1>3, Zenon DEF ExistsBijection
<1>5. Cardinality(Range(sigs)) = n
  BY <1>4, FS_CountingElements, Zenon
<1>6. IsFiniteSet(Range(sigs))
  BY <1>4, FS_NatBijection, Zenon
<1> QED BY <1>5, <1>6, Zenon

(* The signatures that verifyValidatorSignatures accepts are of more than  *)
(* two thirds of the validators.                                           *)
LEMMA EnoughSignersIsQuorum ==
  ASSUME NEW V \in SUBSET Address, NEW sigs \in Signatures, EnoughSigners(sigs, V)
  PROVE  /\ Range(sigs) \subseteq V
         /\ 3 * Cardinality(Range(sigs)) > 2 * Cardinality(V)
<1>1. PICK n \in Nat : sigs \in [1 .. n -> Address]
  BY ValidatorsFinite DEF Signatures
<1>2. DOMAIN sigs = 1 .. n /\ Len(sigs) = n
  BY <1>1
<1>3. Cardinality(Range(sigs)) = n
  BY <1>1, <1>2, SignersCounted, Zenon DEF EnoughSigners
<1>4. Cardinality(V) \in Nat
  BY ValidatorsFinite, Zenon
<1>5. n >= (Cardinality(V) * 2) \div 3 + 1
  BY <1>2, Zenon DEF EnoughSigners, MinValidators
<1>6. 3 * n > 2 * Cardinality(V)
  BY <1>4, <1>5, Threshold
<1>7. Range(sigs) \subseteq V
  BY <1>2, Zenon DEF EnoughSigners, Range
<1> QED BY <1>3, <1>6, <1>7, Zenon

(* Two rollups signed under the same validator set have a signer in        *)
(* common: more than two thirds signed each of them.                       *)
THEOREM QuorumsIntersect ==
  ASSUME NEW V \in SUBSET Address, NEW A \in Signatures, NEW B \in Signatures,
         EnoughSigners(A, V), EnoughSigners(B, V)
  PROVE  Range(A) \cap Range(B) # {}
<1>1. /\ Range(A) \subseteq V /\ 3 * Cardinality(Range(A)) > 2 * Cardinality(V)
      /\ Range(B) \subseteq V /\ 3 * Cardinality(Range(B)) > 2 * Cardinality(V)
  BY EnoughSignersIsQuorum, Zenon
<1>2. IsFiniteSet(V) /\ Cardinality(V) \in Nat
  BY ValidatorsFinite, Zenon
<1>3. Cardinality(Range(A)) \in Nat /\ Cardinality(Range(B)) \in Nat
  BY <1>1, <1>2, FS_Subset, FS_CardinalityType, Zenon
<1>4. Cardinality(Range(A)) + Cardinality(Range(B)) > Cardinality(V)
  BY <1>1, <1>2, <1>3
<1> QED BY <1>1, <1>2, <1>4, FS_MajoritiesIntersect, Zenon

-----------------------------------------------------------------------------

(* initialize establishes the invariant.                                   *)
LEMMA AuthInitInv == AuthInit => AuthInv
BY RollupAuthAssumption DEF AuthInit, AuthInv, AuthTypeOK, SetsInOrder

(* verifyRollup preserves it.                                              *)
LEMMA RollupStep ==
  ASSUME AuthInv, NEW a \in Account, NEW h \in 1 .. MaxHeight, VerifyRollup(a, h)
  PROVE  AuthInv'
<1> USE DEF AuthInv
<1>1. h \in Nat /\ h > blockHeight /\ blockHeight' = h /\ validatorSets' = validatorSets
  BY RollupAuthAssumption DEF VerifyRollup
<1>0. blockHeight \in Nat /\ clock \in Nat /\ validatorSetIndex \in DOMAIN validatorSets
  BY Zenon DEF AuthTypeOK
<1>2. CASE IsProvingOpen
  <2>1. validatorSetIndex' = validatorSetIndex /\ signers' = {}
    BY <1>2, Zenon DEF VerifyRollup, VerifyValidatorSignatures
  <2>2. AuthTypeOK'
    BY <1>1, <2>1, Zenon DEF VerifyRollup, AuthTypeOK
  <2>3. validatorSets[validatorSetIndex].validFrom <= h
    BY <1>0, <1>1, SetsTyped DEF SetsInOrder
  <2>4. SetsInOrder'
    BY <1>1, <2>1, <2>3, Zenon DEF SetsInOrder
  <2> QED BY <2>2, <2>4, Zenon
<1>3. CASE ~ IsProvingOpen
  <2>1. PICK i \in DOMAIN validatorSets, sigs \in Signatures :
          /\ IndexUpdated(h, i)
          /\ EnoughSigners(sigs, validatorSets[i].members)
          /\ validatorSetIndex' = i
          /\ signers' = Range(sigs)
    BY <1>3, Zenon DEF VerifyRollup, VerifyValidatorSignatures
  <2>2. validatorSets[i].members \in SUBSET Address
    BY SetsTyped, Zenon
  <2>3. signers' \subseteq Address
    BY <2>1, <2>2, EnoughSignersIsQuorum, Zenon
  <2>4. validatorSets[i].validFrom <= h
    BY <1>0, <1>1, <2>1, SetsTyped DEF IndexUpdated, SetsInOrder
  <2>5. AuthTypeOK'
    BY <1>1, <2>1, <2>3, Zenon DEF VerifyRollup, AuthTypeOK
  <2>6. SetsInOrder'
    BY <1>1, <2>1, <2>4, Zenon DEF SetsInOrder
  <2> QED BY <2>5, <2>6, Zenon
<1> QED BY <1>2, <1>3, Zenon

(* setValidators preserves it.                                             *)
LEMMA SetValidatorsStep ==
  ASSUME AuthInv, SetValidators
  PROVE  AuthInv'
<1> USE DEF AuthInv
<1>1. PICK V \in ValidatorChoice, from \in 0 .. MaxHeight :
        /\ validatorSets[Len(validatorSets)].validFrom < from
        /\ validatorSets' = Append(validatorSets, [validFrom |-> from, members |-> V])
  BY Zenon DEF SetValidators
<1> DEFINE new == [validFrom |-> from, members |-> V]
<1>2. new \in [validFrom : Nat, members : SUBSET Address]
  BY RollupAuthAssumption
<1>3. validatorSets \in Seq([validFrom : Nat, members : SUBSET Address])
  BY Zenon DEF AuthTypeOK
<1>4. /\ validatorSets' \in Seq([validFrom : Nat, members : SUBSET Address])
      /\ Len(validatorSets') = Len(validatorSets) + 1
      /\ \A i \in DOMAIN validatorSets : validatorSets'[i] = validatorSets[i]
      /\ validatorSets'[Len(validatorSets) + 1] = new
  BY <1>1, <1>2, <1>3
<1>5. validatorSetIndex' = validatorSetIndex /\ blockHeight' = blockHeight
  BY Zenon DEF SetValidators
<1>6. AuthTypeOK'
  BY <1>3, <1>4, SMTT(30) DEF SetValidators, OwnerCalls, AuthTypeOK
<1>7. SetsInOrder'
  <2> DEFINE L == Len(validatorSets)
  <2>0. /\ L \in Nat /\ L > 0 /\ DOMAIN validatorSets = 1 .. L
        /\ DOMAIN validatorSets' = 1 .. (L + 1)
        /\ from \in Nat
        /\ \A i \in 1 .. L : validatorSets[i].validFrom \in Nat
    <3>1. Len(validatorSets') \in Nat /\ DOMAIN validatorSets' = 1 .. Len(validatorSets')
      BY <1>6, SetsTyped
    <3>2. validatorSetIndex \in DOMAIN validatorSets
      BY Zenon DEF AuthTypeOK
    <3>3. from \in Nat
      BY RollupAuthAssumption
    <3> QED BY <1>4, <3>1, <3>2, <3>3, SetsTyped
  <2>1. ASSUME NEW i \in 1 .. L
        PROVE  validatorSets[i].validFrom < from
    <3>0. i = L \/ i < L
      <4>1. L \in Nat /\ i \in 1 .. L
        BY <2>0, Zenon
      <4> HIDE DEF L
      <4> QED BY <4>1
    <3>1. CASE i = L
      BY <1>1, <3>1, Zenon
    <3>2. CASE i < L
      <4>1. validatorSets[i].validFrom < validatorSets[L].validFrom
        BY <2>0, <3>2 DEF SetsInOrder
      <4> HIDE DEF L
      <4> QED BY <1>1, <2>0, <4>1 DEF L
    <3> QED BY <3>0, <3>1, <3>2, Zenon
  <2>2. ASSUME NEW i \in DOMAIN validatorSets', NEW j \in DOMAIN validatorSets', i < j
        PROVE  validatorSets'[i].validFrom < validatorSets'[j].validFrom
    <3>1. i \in 1 .. L /\ validatorSets'[i] = validatorSets[i]
      BY <1>4, <2>0, <2>2
    <3>2. CASE j = L + 1
      BY <1>4, <2>1, <3>1, <3>2
    <3>3. CASE j \in 1 .. L
      <4>1. validatorSets'[j] = validatorSets[j]
        BY <1>4, <2>0, <3>3, Zenon
      <4> QED BY <2>0, <2>2, <3>1, <3>3, <4>1, Zenon DEF SetsInOrder
    <3> QED BY <2>0, <3>2, <3>3
  <2>3. validatorSets'[validatorSetIndex].validFrom <= blockHeight
    BY <1>4, Zenon DEF SetsInOrder, AuthTypeOK
  <2> QED BY <1>5, <2>2, <2>3, Zenon DEF SetsInOrder
<1> QED BY <1>6, <1>7, Zenon

(* Every step preserves the invariant.                                     *)
LEMMA AuthStepInv == AuthInv /\ [AuthNext]_authVars => AuthInv'
<1> SUFFICES ASSUME AuthInv, [AuthNext]_authVars PROVE AuthInv'
  BY Zenon
<1>1. CASE \E a \in Account, h \in 1 .. MaxHeight : VerifyRollup(a, h)
  BY <1>1, RollupStep, Zenon
<1>2. CASE InitializeV2
  BY <1>2, RollupAuthAssumption, SMTT(30) DEF InitializeV2, OwnerCalls, AuthInv, AuthTypeOK, SetsInOrder
<1>3. CASE SetOpenProvingDelay
  BY <1>3, RollupAuthAssumption, SMTT(30)
  DEF SetOpenProvingDelay, OwnerCalls, AuthInv, AuthTypeOK, SetsInOrder
<1>4. CASE AddProver
  BY <1>4 DEF AddProver, OwnerCalls, AuthInv, AuthTypeOK, SetsInOrder
<1>5. CASE RemoveProver
  BY <1>5 DEF RemoveProver, OwnerCalls, AuthInv, AuthTypeOK, SetsInOrder
<1>6. CASE SetValidators
  BY <1>6, SetValidatorsStep, Zenon
<1>7. CASE TimePasses
  BY <1>7 DEF TimePasses, AuthInv, AuthTypeOK, SetsInOrder
<1>8. CASE UNCHANGED authVars
  BY <1>8, Zenon DEF authVars, AuthInv, AuthTypeOK, SetsInOrder
<1> QED BY <1>1, <1>2, <1>3, <1>4, <1>5, <1>6, <1>7, <1>8, Zenon DEF AuthNext, OwnerOrTime

(* The invariant holds in every state of the contract.                     *)
THEOREM AuthInvariance == AuthSpec => []AuthInv
BY AuthInitInv, AuthStepInv, PTL DEF AuthSpec

(* Type correctness of the contract's fields, with the floor of seven days *)
(* under a configured delay.                                               *)
THEOREM AuthTypeCorrect == AuthSpec => []AuthTypeOK
<1>1. AuthInv => AuthTypeOK
  BY Zenon DEF AuthInv
<1> QED BY <1>1, AuthInvariance, PTL

-----------------------------------------------------------------------------

(* updateValidatorSetIndex finds the set in force at a height above the    *)
(* contract's.                                                             *)
LEMMA IndexIsInForce ==
  ASSUME AuthInv, NEW h \in Nat, h > blockHeight,
         NEW n \in DOMAIN validatorSets, IndexUpdated(h, n),
         NEW i \in DOMAIN validatorSets,
         validatorSets[i].validFrom <= h,
         \A j \in DOMAIN validatorSets : validatorSets[j].validFrom <= h => j <= i
  PROVE  i = n
<1> DEFINE L == Len(validatorSets)
<1>1. /\ L \in Nat /\ DOMAIN validatorSets = 1 .. L
      /\ \A k \in 1 .. L : validatorSets[k].validFrom \in Nat
      /\ blockHeight \in Nat /\ validatorSetIndex \in 1 .. L
  <2>1. AuthTypeOK
    BY Zenon DEF AuthInv
  <2>2. blockHeight \in Nat /\ validatorSetIndex \in DOMAIN validatorSets
    BY <2>1, Zenon DEF AuthTypeOK
  <2> QED BY <2>1, <2>2, SetsTyped, Zenon
<1>2. validatorSets[n].validFrom <= h
  BY <1>1, SMTT(30) DEF IndexUpdated, AuthInv, SetsInOrder
<1>3. n <= i
  BY <1>2, Zenon
<1>4. ASSUME n < i PROVE FALSE
  <2>1. n + 1 \in 1 .. L /\ validatorSets[n + 1].validFrom > h
    BY <1>1, <1>4 DEF IndexUpdated
  <2>2. CASE i = n + 1
    BY <1>1, <2>1, <2>2
  <2>3. CASE n + 1 < i
    <3>1. validatorSets[n + 1].validFrom < validatorSets[i].validFrom
      BY <1>1, <2>1, <2>3, Zenon DEF AuthInv, SetsInOrder
    <3> QED BY <1>1, <2>1, <3>1
  <2> QED BY <1>1, <1>4, <2>2, <2>3
<1> QED BY <1>1, <1>3, <1>4

(* A step that changes the height is a rollup.                             *)
LEMMA HeightStep ==
  ASSUME [AuthNext]_authVars, blockHeight' # blockHeight
  PROVE  \E a \in Account, h \in 1 .. MaxHeight : VerifyRollup(a, h)
BY Zenon DEF AuthNext, OwnerOrTime, InitializeV2, SetOpenProvingDelay, AddProver, RemoveProver,
       SetValidators, TimePasses, authVars

(* Every rollup with signatures is signed by more than two thirds of the   *)
(* validators in force at its height.                                      *)
THEOREM RollupsAreSigned == AuthSpec => SignedByValidatorsInForce
<1>1. ASSUME AuthInv, [AuthNext]_authVars, blockHeight' # blockHeight, signers' # {},
             NEW i \in DOMAIN validatorSets,
             validatorSets[i].validFrom <= blockHeight',
             \A j \in DOMAIN validatorSets : validatorSets[j].validFrom <= blockHeight' => j <= i
      PROVE  /\ signers' \subseteq validatorSets[i].members
             /\ 3 * Cardinality(signers') > 2 * Cardinality(validatorSets[i].members)
  <2>1. PICK a \in Account, h \in 1 .. MaxHeight : VerifyRollup(a, h)
    BY <1>1, HeightStep, Zenon
  <2>2. h \in Nat /\ h > blockHeight /\ blockHeight' = h
    BY <2>1, RollupAuthAssumption DEF VerifyRollup
  <2>3. PICK n \in DOMAIN validatorSets, sigs \in Signatures :
          /\ IndexUpdated(h, n)
          /\ EnoughSigners(sigs, validatorSets[n].members)
          /\ signers' = Range(sigs)
    BY <1>1, <2>1, Zenon DEF VerifyRollup, VerifyValidatorSignatures
  <2>4. i = n
    BY <1>1, <2>2, <2>3, IndexIsInForce, Zenon
  <2>5. validatorSets[n].members \in SUBSET Address
    BY <1>1, SetsTyped, Zenon DEF AuthInv
  <2> QED BY <2>3, <2>4, <2>5, EnoughSignersIsQuorum, Zenon
<1>2. AuthInv /\ [AuthNext]_authVars =>
        [blockHeight' # blockHeight /\ signers' # {} =>
           \A i \in DOMAIN validatorSets :
             /\ validatorSets[i].validFrom <= blockHeight'
             /\ \A j \in DOMAIN validatorSets : validatorSets[j].validFrom <= blockHeight' => j <= i
             => /\ signers' \subseteq validatorSets[i].members
                /\ 3 * Cardinality(signers') > 2 * Cardinality(validatorSets[i].members)]_authVars
  BY <1>1, Zenon
<1> QED BY <1>2, AuthInvariance, PTL DEF AuthSpec, SignedByValidatorsInForce

(* A rollup without signatures needs seven days without a rollup.          *)
THEOREM EscapeIsLast == AuthSpec => EscapeNeedsSilence
<1>1. ASSUME AuthInv, [AuthNext]_authVars, blockHeight' # blockHeight, signers' = {}
      PROVE  clock >= lastVerifiedAt + MinDelay
  <2>1. PICK a \in Account, h \in 1 .. MaxHeight : VerifyRollup(a, h)
    BY <1>1, HeightStep, Zenon
  <2>2. CASE IsProvingOpen
    BY <1>1, <2>2, RollupAuthAssumption DEF IsProvingOpen, AuthInv, AuthTypeOK
  <2>3. CASE ~ IsProvingOpen
    <3>1. PICK n \in DOMAIN validatorSets, sigs \in Signatures :
            EnoughSigners(sigs, validatorSets[n].members) /\ signers' = Range(sigs)
      BY <2>1, <2>3, Zenon DEF VerifyRollup, VerifyValidatorSignatures
    <3>2. validatorSets[n].members \in SUBSET Address
      BY <1>1, SetsTyped, Zenon DEF AuthInv
    <3>3. 3 * Cardinality(signers') > 2 * Cardinality(validatorSets[n].members)
      BY <3>1, <3>2, EnoughSignersIsQuorum, Zenon
    <3>4. Cardinality(signers') = 0 /\ Cardinality(validatorSets[n].members) \in Nat
      BY <1>1, <3>2, FS_EmptySet, ValidatorsFinite, Zenon
    <3> QED BY <3>3, <3>4
  <2> QED BY <2>2, <2>3, Zenon
<1>2. AuthInv /\ [AuthNext]_authVars =>
        [blockHeight' # blockHeight /\ signers' = {} => clock >= lastVerifiedAt + MinDelay]_authVars
  BY <1>1, Zenon
<1> QED BY <1>2, AuthInvariance, PTL DEF AuthSpec, EscapeNeedsSilence

=============================================================================

-------------------------------- MODULE Solid --------------------------------
(***************************************************************************)
(* Solid, the leader-based consensus library (pkg/solid): SolidCore with   *)
(* its proposal cache, the Solid wrapper with its event loop and skip      *)
(* timer, and the driver loop of examples/multi.rs that carries events to  *)
(* the network.                                                            *)
(*                                                                         *)
(* A proposal is named by the skips of every proposal from genesis to it,  *)
(* so its last_hash is all of it but the last element, its height its      *)
(* length and its skips its last element.  A leader raises one Propose     *)
(* event for each parent and skip (accept_threshold_breached is exact), so *)
(* the name is as good as the hash.  The validator set does not change;    *)
(* the leaders and the validators follow the protocol; application content *)
(* is always valid.                                                        *)
(*                                                                         *)
(* The network may lose, delay, duplicate and reorder: it is the set of    *)
(* messages ever sent, each of which may be received any number of times.  *)
(* The answer to OutOfSync sends confirmed proposals again, which adds     *)
(* nothing to that set.                                                    *)
(***************************************************************************)
EXTENDS Integers, FiniteSets, Sequences

CONSTANTS
    Validator,                \* the validators of genesis
    AcceptThreshold,          \* "MoreThanTwoThirds" or "Majority"
    OrderedValidators(_, _),  \* validators by distance to hash(height, skips)
    MaxHeight, MaxSkips,      \* bounds: proposals' height, skips of one height
    MaxSkipHeight             \* bound: height of the proposals skips are built on

ASSUME ThresholdAssumption == AcceptThreshold \in {"MoreThanTwoThirds", "Majority"}

ASSUME ValidatorAssumption == IsFiniteSet(Validator)

ASSUME BoundAssumption == MaxHeight \in Nat /\ MaxSkips \in Nat

VARIABLES
    core,      \* the SolidCore of each validator
    timer,     \* whether the skip timeout is armed
    proposing, \* the Propose events in the event queue
    network    \* every proposal and accept sent

solidVars == <<core, timer, proposing, network>>

NotSent == -1
NoEvent == [kind |-> "None"]

(***************************************************************************)
(* Proposals, accepts, thresholds.                                         *)
(***************************************************************************)
LastHash(p) == SubSeq(p, 1, Len(p) - 1)

Skips(p) == IF p = <<>> THEN 0 ELSE p[Len(p)]

\* q is p or an ancestor of p
Precedes(q, p) == Len(q) <= Len(p) /\ SubSeq(p, 1, Len(q)) = q

Threshold ==
    LET n == Cardinality(Validator)
    IN  IF AcceptThreshold = "Majority" THEN (n \div 2) + 1
        ELSE ((n * 2) \div 3) + 1

InverseExceeded(accepts) == Cardinality(accepts) > Cardinality(Validator) - Threshold

LeaderForSkip(p, k) ==
    LET ordered == OrderedValidators(Len(p), Skips(p))
    IN  ordered[(k % Len(ordered)) + 1]

\* A proposal accept; it is sent to LeaderForSkip(prop, skips).
ProposalAccept(p, k, v) == [prop |-> p, skips |-> k, from |-> v]

\* SolidCore: sent gives, for each cached proposal from the confirmed one up,
\* skips_sent or NotSent; accepts holds incoming_accepts, and orphan_accepts
\* for the proposals that are not cached.
WithLastConfirmed(p) ==
    [confirmed |-> p, sent |-> [q \in {p} |-> NotSent], accepts |-> {}, maxHeight |-> Len(p)]

Height(s) == Len(s.confirmed)

IsOutOfSync(s) == s.maxHeight > Height(s) + 1

AcceptsForSkip(s, p, k) == {v \in Validator : ProposalAccept(p, k, v) \in s.accepts}

\* highest_skip_with_inverse, with 0 for None: a skip of 0 never wins a comparison.
HighestSkipWithInverse(s, p) ==
    LET skips == {k \in 0 .. MaxSkips : InverseExceeded(AcceptsForSkip(s, p, k))}
    IN  IF skips = {} THEN 0 ELSE CHOOSE k \in skips : \A l \in skips : l <= k

Greater(k, l) == IF k < l THEN l ELSE k

NextAcceptSkip(s, p, skip) ==
    LET sent == IF skip THEN s.sent[p] + 1 ELSE s.sent[p]
    IN  IF s.sent[p] = NotSent THEN 0
        ELSE Greater(sent, HighestSkipWithInverse(s, p))

(***************************************************************************)
(* The proposal cache.                                                     *)
(***************************************************************************)
IsDecendent(s, p) ==
    /\ Precedes(s.confirmed, p)
    /\ \A i \in Height(s) .. Len(p) : SubSeq(p, 1, i) \in DOMAIN s.sent

Pending(s) == {p \in DOMAIN s.sent : Len(p) > Height(s) /\ IsDecendent(s, p)}

\* The proposals with the highest (height, skips); max_by picks any of them,
\* in HashMap order.
MaxContinuousProposals(s) ==
    LET pending == Pending(s)
    IN  {p \in pending : \A q \in pending :
            Len(q) < Len(p) \/ (Len(q) = Len(p) /\ Skips(q) <= Skips(p))}

\* next_pending_proposal(0), as the set of its values
NextPendingProposal(s) == {SubSeq(p, 1, Height(s) + 1) : p \in MaxContinuousProposals(s)}

\* purge: what does not descend from the confirmed proposal goes.  Confirmed
\* ancestors stay in the code's cache, where nothing below reads them.
Purge(s) ==
    LET kept == {p \in DOMAIN s.sent : IsDecendent(s, p)}
        gone == DOMAIN s.sent \ kept
    IN  [s EXCEPT !.sent = [p \in kept |-> s.sent[p]],
                  !.accepts = {a \in @ : a.prop \notin gone}]

Confirm(s, p) == Purge([s EXCEPT !.confirmed = p])

(***************************************************************************)
(* SolidCore.                                                              *)
(***************************************************************************)
HighestNextPending(s) ==
    {p \in NextPendingProposal(s) :
        /\ HighestSkipWithInverse(s, s.confirmed) <= Skips(p)
        /\ s.sent[s.confirmed] <= Skips(p)}

CurrentProposal(s) ==
    LET highest == HighestNextPending(s)
    IN  IF highest = {} THEN s.confirmed ELSE CHOOSE p \in highest : TRUE

\* Proposal::add_accept: the accept is stored, and TRUE the first time the
\* threshold is met.
StoreAccept(s, a) == [s EXCEPT !.accepts = @ \union {a}]

Breaches(s, a) ==
    /\ a \notin s.accepts
    /\ Cardinality(AcceptsForSkip(s, a.prop, a.skips)) + 1 = Threshold

ProposeEvent(a) == [kind |-> "Propose", prop |-> Append(a.prop, a.skips)]

LeadsNext(s, v, a) ==
    Breaches(s, a) /\ LeaderForSkip(a.prop, a.skips) = v /\ ~IsOutOfSync(s)

OwnAcceptEvent(s, v, a) ==
    [core |-> [StoreAccept(s, a) EXCEPT !.sent[a.prop] = a.skips],
     event |-> IF LeadsNext(s, v, a) THEN ProposeEvent(a)
               ELSE [kind |-> "Accept", accept |-> a]]

NextAccept(s, v, p, skip) == ProposalAccept(p, NextAcceptSkip(s, p, skip), v)

\* get_next_accept_event, with the add_accept of the node's own accept: its
\* skips are skips_sent, so that call cannot send another one.
GetNextAcceptEvent(s, v, skip) ==
    OwnAcceptEvent(s, v, NextAccept(s, v, CurrentProposal(s), skip))

\* add_accept of an accept another validator sent; the OutOfSync event of an
\* orphan changes nothing in the node.
AddAccept(s, v, a) ==
    LET stored == StoreAccept(s, a)
        known  == a.prop \in DOMAIN s.sent
    IN  IF Height(s) > Len(a.prop) THEN [core |-> s, event |-> NoEvent]
        ELSE IF ~known THEN [core |-> stored, event |-> NoEvent]
        ELSE IF LeadsNext(s, v, a) THEN [core |-> stored, event |-> ProposeEvent(a)]
        ELSE IF a.skips > Greater(0, s.sent[a.prop]) /\ CurrentProposal(s) = a.prop
             THEN GetNextAcceptEvent([stored EXCEPT !.sent[a.prop] = a.skips], v, FALSE)
        ELSE [core |-> stored, event |-> NoEvent]

(***************************************************************************)
(* The wrapper and the driver: an event goes through the queue, and from   *)
(* it an accept or a proposal to the network.                              *)
(***************************************************************************)
Enqueue(queue, e) == IF e.kind = "Propose" THEN Append(queue, e.prop) ELSE queue

Sent(e) == IF e.kind = "Accept" THEN {e.accept} ELSE {}

\* SolidCore::receive_accept: if the current proposal changed, accept it.
AfterAdd(s, v, added) ==
    IF added.event = NoEvent /\ CurrentProposal(added.core) # CurrentProposal(s)
    THEN GetNextAcceptEvent(added.core, v, FALSE)
    ELSE added

CoreReceiveAccept(s, v, a) ==
    LET raised == [s EXCEPT !.maxHeight = IF Len(a.prop) > Height(s) THEN Len(a.prop) ELSE @]
    IN  AfterAdd(s, v, AddAccept(raised, v, a))

\* next_event one proposal too early: it commits one that none is built on
CommitAllEarly(s) ==
    IF MaxContinuousProposals(s) = {} THEN {s}
    ELSE {Confirm(s, p) : p \in MaxContinuousProposals(s)}

\* SolidCore::next_event as long as it commits.
CommitAll(s) ==
    IF MaxContinuousProposals(s) = {} THEN {s}
    ELSE {IF Len(p) < Height(s) + 2 THEN s ELSE Confirm(s, LastHash(p)) :
            p \in MaxContinuousProposals(s)}

\* The accept of the current proposal p, which its own leader does not send.
InitialAccept(v, p, r) ==
    LET isAccept == r.event.kind = "Accept"
        own == LeaderForSkip(p, r.core.sent[p]) = v
    IN  [core |-> r.core, timer |-> isAccept,
         event |-> IF isAccept /\ own THEN NoEvent ELSE r.event]

\* Solid::next_event from core c, all of whose commits are done: OutOfSync, or
\* the initial accept of the current proposal.
AfterCommits(v, c, armed) ==
    IF IsOutOfSync(c) THEN [core |-> c, timer |-> FALSE, event |-> NoEvent]
    ELSE IF c.sent[CurrentProposal(c)] # NotSent
         THEN [core |-> c, timer |-> armed, event |-> NoEvent]
    ELSE InitialAccept(v, CurrentProposal(c), GetNextAcceptEvent(c, v, FALSE))

NextEvents(v, s, armed) ==
    {AfterCommits(v, c, armed \/ c.confirmed # s.confirmed) : c \in CommitAll(s)}

\* SolidCore::receive_proposal: the orphan accepts of p become its accepts.
Acceptable(s, p) == p \notin DOMAIN s.sent /\ Height(s) < Len(p)

Insert(s, p) ==
    [s EXCEPT !.sent = [q \in {p} \union DOMAIN @ |-> IF q = p THEN NotSent ELSE @[q]],
              !.maxHeight = Greater(@, Len(p))]

(***************************************************************************)
(* Actions.                                                                *)
(***************************************************************************)
\* Every validator has run Solid::genesis and run, whose next_event sends the
\* accept of genesis.
Started == [v \in Validator |-> AfterCommits(v, WithLastConfirmed(<<>>), FALSE)]

SolidInit ==
    /\ core = [v \in Validator |-> Started[v].core]
    /\ timer = [v \in Validator |-> Started[v].timer]
    /\ proposing = [v \in Validator |-> Enqueue(<<>>, Started[v].event)]
    /\ network = UNION {Sent(Started[v].event) : v \in Validator}

Apply(v, r, queue, sends) ==
    /\ core' = [core EXCEPT ![v] = r.core]
    /\ timer' = [timer EXCEPT ![v] = r.timer]
    /\ proposing' = [proposing EXCEPT ![v] = Enqueue(queue, r.event)]
    /\ network' = network \union Sent(r.event) \union sends

\* The core answers with an event; the timer is as given.
ApplyCore(v, r, armed) ==
    Apply(v, [core |-> r.core, timer |-> armed, event |-> r.event], proposing[v], {})

ReceiveProposal(v) == \E m \in {n \in network : "from" \notin DOMAIN n} :
    /\ Acceptable(core[v], m.prop)
    /\ \E r \in NextEvents(v, Insert(core[v], m.prop), timer[v]) : Apply(v, r, proposing[v], {})

ReceiveAccept(v) == \E a \in {n \in network : "from" \in DOMAIN n} :
    /\ LeaderForSkip(a.prop, a.skips) = v
    /\ Len(a.prop) < MaxHeight
    /\ ApplyCore(v, CoreReceiveAccept(core[v], v, a), timer[v])

\* The driver takes a Propose event: the leader's own core receives the
\* proposal, and whatever it answers the proposal is sent to all.
Propose(v) ==
    /\ proposing[v] # <<>>
    /\ LET p == Head(proposing[v])
           unchanged == [core |-> core[v], timer |-> timer[v], event |-> NoEvent]
       IN  /\ Len(p) <= MaxHeight
           /\ \E r \in IF Acceptable(core[v], p) THEN NextEvents(v, Insert(core[v], p), timer[v])
                       ELSE {unchanged} :
                Apply(v, r, Tail(proposing[v]), {[prop |-> p]})

\* The tick of the worker with an expired skip timeout, which stays armed.
Skip(v) ==
    /\ timer[v]
    /\ ~IsOutOfSync(core[v])
    /\ Len(CurrentProposal(core[v])) <= MaxSkipHeight
    /\ NextAcceptSkip(core[v], CurrentProposal(core[v]), TRUE) <= MaxSkips
    /\ ApplyCore(v, GetNextAcceptEvent(core[v], v, TRUE), TRUE)

SolidNext == \E v \in Validator :
    \/ ReceiveProposal(v)
    \/ ReceiveAccept(v)
    \/ Propose(v)
    \/ Skip(v)

SolidSpec == SolidInit /\ [][SolidNext]_solidVars

(***************************************************************************)
(* Properties.                                                             *)
(***************************************************************************)
\* No two validators ever commit different proposals at one height, whatever
\* is lost, delayed or skipped (next_event commits a proposal once one is
\* built on it; skips_sent and the inverse threshold keep a validator from
\* supporting two), and no cache ever has two highest pending proposals, so
\* the HashMap order in max_continuous_proposal decides nothing.
Agreement ==
    /\ \A v, w \in Validator :
        \/ Precedes(core[v].confirmed, core[w].confirmed)
        \/ Precedes(core[w].confirmed, core[v].confirmed)
    /\ \A v \in Validator : Cardinality(MaxContinuousProposals(core[v])) <= 1
====

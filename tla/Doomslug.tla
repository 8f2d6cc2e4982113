------------------------------ MODULE Doomslug ------------------------------
(***************************************************************************)
(* Doomslug, the block-production gadget (pkg/doomslug): the timer that    *)
(* endorses a new tip and skips a height nobody produces, and the trackers *)
(* that count the approvals of each target height.                         *)
(*                                                                         *)
(* Received approvals are endorsements: the hash of a skip approval is     *)
(* todo!(), so none can be signed (approval.rs:125).                       *)
(***************************************************************************)
EXTENDS Integers, FiniteSets, FiniteSetsExt, Functions, TLC

CONSTANTS
    Account,                             \* validator addresses
    Stake,                               \* [Account -> stake this and next epoch]
    Epochs,                              \* the validator sets approvals are checked against
    BlockHash,                           \* hashes of blocks
    EndorsementDelay, MinDelay, DelayStep, MaxDelay,
    HeightsAhead, HeightsBefore,         \* MAX_HEIGHTS_{AHEAD,BEFORE}_TO_STORE_APPROVALS
    TimerIters,                          \* MAX_TIMER_ITERS
    OwnTargets,                          \* heights this validator produces
    MaxTarget, MaxNow                    \* bounds: heights, clock

ASSUME DelayAssumption == MinDelay >= 2 * EndorsementDelay /\ MinDelay <= MaxDelay

VARIABLES
    now,
    slug,     \* tip, largest_* heights, endorsement_pending and the timer
    tracking, \* [target -> [last_approval_per_account, approval_trackers]]
    sent      \* the approvals process_timer returned, as a set
doomslugVars == <<now, slug, tracking, sent>>

NoHash == "default"
Never == -1
Endorsement(hash) == <<"Endorsement", hash>>

\* ApprovalInner::new
ApprovalInner(hash, parent, target) ==
    IF target = parent + 1 THEN Endorsement(hash) ELSE <<"Skip", parent>>

NewDoomslug ==
    [hash |-> NoHash, tip |-> 0, sentTarget |-> 0, final |-> 0, threshold |-> 0,
     approval |-> 0, pending |-> FALSE, started |-> 0, lastSent |-> 0, height |-> 0]

SaturatingSub(a, b) == IF a >= b THEN a - b ELSE 0

GetDelay(n) == Min({MaxDelay, MinDelay + DelayStep * SaturatingSub(n, 2)})

(***************************************************************************)
(* process_timer.  A pass of its loop returns the new state, what it sent  *)
(* and whether the loop goes on; asserted is the debug_assert of the skip. *)
(***************************************************************************)
CreateApproval(s, target) == [inner |-> ApprovalInner(s.hash, s.tip, target), target |-> target]

\* endorse the tip without comparing it to the largest target sent
EndorseTipAlways(s, cur) ==
    IF ~(s.pending /\ cur >= s.lastSent + EndorsementDelay) THEN [slug |-> s, sent |-> {}]
    ELSE [slug |-> [s EXCEPT !.sentTarget = s.tip + 1, !.lastSent = cur, !.pending = FALSE],
          sent |-> {CreateApproval(s, s.tip + 1)}]

EndorseTip(s, cur) ==
    LET endorses == s.tip >= s.sentTarget
    IN  IF ~(s.pending /\ cur >= s.lastSent + EndorsementDelay) THEN [slug |-> s, sent |-> {}]
        ELSE [slug |-> [s EXCEPT !.sentTarget = IF endorses THEN s.tip + 1 ELSE @,
                                 !.lastSent = cur, !.pending = FALSE],
              sent |-> IF endorses THEN {CreateApproval(s, s.tip + 1)} ELSE {}]

SkipDelay(s) == GetDelay(SaturatingSub(s.height, s.final))

TimesOut(s, cur) == cur >= s.started + SkipDelay(s)

SkipHeight(s) ==
    [s EXCEPT !.sentTarget = Max({s.height + 1, @}),
              !.started = @ + SkipDelay(s), !.height = @ + 1]

RECURSIVE TimerLoop(_, _, _)
TimerLoop(s, cur, iters) ==
    LET e == EndorseTip(s, cur)
        t == e.slug
        rest == TimerLoop(SkipHeight(t), cur, iters - 1)
    IN  IF iters = 0 THEN [slug |-> s, sent |-> {}]
        ELSE IF ~TimesOut(t, cur) THEN e
        ELSE [slug |-> rest.slug,
              sent |-> e.sent \union rest.sent \union
                       {CreateApproval(t, t.height + 1)}]

(***************************************************************************)
(* Approval trackers.                                                      *)
(***************************************************************************)
NewTrackers == [last |-> << >>, trackers |-> << >>]

NewTracker(stakes) ==
    [accounts |-> stakes, witness |-> {}, thisEpoch |-> 0, nextEpoch |-> 0, since |-> Never]

Total(accounts, epoch) == FoldFunctionOnSet(+, 0, [a \in Account |-> Stake[a][epoch]], accounts)

\* the stake a tracker knows for an account
StakeOf(t, a, epoch) == IF a \in t.accounts THEN Stake[a][epoch] ELSE 0

CrossesThreshold(t) ==
    /\ t.thisEpoch > (Total(t.accounts, "this") * 2) \div 3
    /\ \/ t.nextEpoch > (Total(t.accounts, "next") * 2) \div 3
       \/ Total(t.accounts, "next") = 0

\* get_block_production_readiness starts the clock of a tracker once.
Readiness(t) == [t EXCEPT !.since = IF CrossesThreshold(t) /\ @ = Never THEN now ELSE @]

TrackerProcessApproval(t, a) ==
    Readiness(IF a \in t.witness THEN t
              ELSE [t EXCEPT !.witness = @ \union {a},
                             !.thisEpoch = @ + StakeOf(t, a, "this"),
                             !.nextEpoch = @ + StakeOf(t, a, "next")])

\* withdraw_approval that leaves the approved stake as it was
WithdrawWitnessOnly(t, a) == [t EXCEPT !.witness = @ \ {a}]

WithdrawApproval(t, a) ==
    IF a \notin t.witness THEN t
    ELSE [t EXCEPT !.witness = @ \ {a},
                   !.thisEpoch = @ - StakeOf(t, a, "this"),
                   !.nextEpoch = @ - StakeOf(t, a, "next")]

\* The earlier approval of the account is withdrawn, and a tracker without
\* witnesses removed.
Withdraw(h, a) ==
    IF a \notin DOMAIN h.last \/ h.last[a] \notin DOMAIN h.trackers THEN h
    ELSE LET inner == h.last[a]
             t == WithdrawApproval(h.trackers[inner], a)
         IN  [h EXCEPT !.trackers = IF t.witness = {} THEN Restrict(@, DOMAIN @ \ {inner})
                                    ELSE [@ EXCEPT ![inner] = t]]

\* DoomslugApprovalsTrackersAtHeight::process_approval
ProcessApproval(h, a, inner, stakes) ==
    LET w == Withdraw(h, a)
        t == IF inner \in DOMAIN w.trackers THEN w.trackers[inner] ELSE NewTracker(stakes)
    IN  IF a \notin stakes THEN w
        ELSE [last |-> (a :> inner) @@ w.last,
              trackers |-> (inner :> TrackerProcessApproval(t, a)) @@ w.trackers]

(***************************************************************************)
(* Actions.                                                                *)
(***************************************************************************)
DoomslugInit ==
    /\ now = 0
    /\ slug = NewDoomslug
    /\ tracking = << >>
    /\ sent = {}

Tick ==
    /\ now < MaxNow
    /\ now' = now + 1
    /\ UNCHANGED <<slug, tracking, sent>>

ProcessTimer ==
    LET r == TimerLoop(slug, now, TimerIters)
    IN  /\ slug' = r.slug
        /\ sent' = sent \union r.sent
        /\ UNCHANGED <<now, tracking>>

OnBlock(hash, height, final) ==
    /\ height > slug.tip \/ slug.tip = 0
    /\ slug' = [slug EXCEPT !.hash = hash, !.tip = height, !.final = final,
                            !.height = height + 1, !.started = now, !.pending = TRUE]
    /\ tracking' = Restrict(tracking,
            {h \in DOMAIN tracking : /\ h > SaturatingSub(height, HeightsBefore)
                                     /\ h <= height + HeightsAhead})
    /\ UNCHANGED <<now, sent>>

\* on_approval with on_approval_internal
OnApproval(a, inner, target, stakes) ==
    /\ target >= slug.tip
    /\ target <= slug.tip + HeightsAhead
    /\ LET h == ProcessApproval(IF target \in DOMAIN tracking THEN tracking[target] ELSE NewTrackers,
                                a, inner, stakes)
           ready == a \in stakes /\ CrossesThreshold(h.trackers[inner])
       IN  /\ tracking' = (target :> h) @@ tracking
           /\ slug' = [slug EXCEPT !.approval = Max({@, target}),
                                   !.threshold = IF ready THEN Max({@, target}) ELSE @]
    /\ UNCHANGED <<now, sent>>

\* ready_to_produce_block: its answer for the caller, and the clock it starts
ReadyToProduceBlock(target) ==
    LET inner == ApprovalInner(slug.hash, slug.tip, target)
    IN  /\ target \in DOMAIN tracking
        /\ inner \in DOMAIN tracking[target].trackers
        /\ tracking' = [tracking EXCEPT ![target].trackers[inner] = Readiness(@)]
        /\ UNCHANGED <<now, slug, sent>>

DoomslugNext ==
    \/ Tick
    \/ ProcessTimer
    \/ \E hash \in BlockHash, height \in 1 .. MaxTarget, final \in 0 .. MaxTarget :
        final \in {0, height - 1} /\ OnBlock(hash, height, final)
    \/ \E a \in Account, hash \in BlockHash, target \in OwnTargets, stakes \in Epochs :
        OnApproval(a, Endorsement(hash), target, stakes)
    \/ \E target \in OwnTargets : ReadyToProduceBlock(target)

DoomslugSpec == DoomslugInit /\ [][DoomslugNext]_doomslugVars

(***************************************************************************)
(* Properties.                                                             *)
(***************************************************************************)
\* Each account counts once per target height: it is a witness of at most one
\* tracker however often it changes its approval, and the approved stake of a
\* tracker is the stake of its witnesses (process_approval withdraws the
\* earlier approval; the balances are u128, which an extra withdrawal would
\* underflow).
VotesCountedOnce ==
    \A target \in DOMAIN tracking :
        LET ts == tracking[target].trackers
        IN  /\ \A i, j \in DOMAIN ts : i # j => ts[i].witness \intersect ts[j].witness = {}
            /\ \A i \in DOMAIN ts : ts[i].thisEpoch = Total(ts[i].witness \intersect ts[i].accounts, "this")

\* A validator that has approved a target height, by an endorsement or by
\* skipping past the heights below it, never endorses a block with that or a
\* lower target afterwards (largest_sent_target_height in process_timer).
EndorsesForward ==
    [][\A e \in sent' \ sent :
        e.inner[1] = "Endorsement" => \A f \in sent : e.target > f.target]_doomslugVars
=============================================================================

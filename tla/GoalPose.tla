------------------------------ MODULE GoalPose ------------------------------
(***************************************************************************)
(* beacon_goalpose (beacon_pkg/src/beacon_goalpose.cpp), which bringup     *)
(* runs for the beacon and, renamed home_goalpose, for the home station:   *)
(* it has navsat_transform convert the newest GPS fix to the map frame and *)
(* publishes the result as the target.                                     *)
(*                                                                         *)
(* Every callback runs on one single threaded executor.  The conversion is *)
(* asynchronous: fixes arrive, time passes and navsat may die while it is  *)
(* under way.  The generation numbers are only compared with the newest    *)
(* one, so the model keeps the outcome: sent, and current of a conversion. *)
(* A fix (or odometry) that is missing, invalid or too old behaves alike   *)
(* and has the age MaxAge + 1.  The unit of time is the 50 ms timer's.     *)
(***************************************************************************)
EXTENDS Naturals

CONSTANTS
    MaxAge,         \* max_fix_age, in timer periods
    RequestTimeout, \* request_timeout, in timer periods
    Slots           \* names for conversions under way

ASSUME MaxAgeAssumption == MaxAge \in Nat
ASSUME RequestTimeoutAssumption == RequestTimeout \in Nat
ASSUME SlotsAssumption == Slots # {}

VARIABLES
    fixAge,         \* age of latest_fix_
    sent,           \* sent_generation_ = generation_
    pending,        \* pending_
    requestId,      \* request_id_: the slot of the last request
    requestAge,     \* time since request_started_, saturated
    gpsAge,         \* age of gps_odometry_
    tickDue,        \* the 50 ms timer has expired and tick has not run yet
    conv,           \* the conversions whose callback the client still has
    navsat,         \* navsat_transform: answers "prompt"ly, is "slow", or "gone"
    target,         \* history: age of the fix whose position was published last
    published,      \* history: something was published since the newest fix
    disturbed,      \* history: since the newest fix something was not in order
    waits           \* history: how long ago the newest fix arrived, saturated

vars == <<fixAge, sent, pending, requestId, requestAge, gpsAge, tickDue, conv, navsat,
          target, published, disturbed, waits>>

Ages  == 0 .. MaxAge + 1
Fresh(age) == age <= MaxAge                 \* fresh, valid_fix
Free  == [status |-> "free", age |-> MaxAge + 1, current |-> FALSE]
Conversions == [status : {"free", "asked", "lost"}, age : Ages, current : BOOLEAN]
Called(s) == conv[s].status # "free"

\* ready: localised, and the service is there
Ready == Fresh(gpsAge) /\ navsat # "gone"
\* How long the newest fix may have to wait: for the timeout of a lost
\* request before it, the tick that notices, and the tick that sends.
LongestWait == RequestTimeout + 2
InOrder == Fresh(fixAge) /\ Fresh(gpsAge) /\ navsat = "prompt"
Disturb == disturbed' = (disturbed \/ ~InOrder')

Init ==
    /\ fixAge = MaxAge + 1 /\ sent = TRUE
    /\ pending = FALSE /\ requestId \in Slots /\ requestAge = RequestTimeout + 1
    /\ gpsAge = MaxAge + 1 /\ tickDue = FALSE
    /\ conv = [s \in Slots |-> Free]
    /\ navsat = "gone"
    /\ target = MaxAge + 1 /\ published = FALSE
    /\ disturbed = TRUE /\ waits = 0
-----------------------------------------------------------------------------
\* The callback of /gps/beacon/fix; age: of the fix when it is received
Fix(age) ==
    /\ sent' = FALSE
    /\ conv' = [s \in Slots |-> [conv[s] EXCEPT !.current = FALSE]]
    /\ fixAge' = age
    /\ published' = FALSE /\ waits' = 0
    /\ UNCHANGED <<pending, requestId, requestAge, gpsAge, tickDue, navsat, target>>
    /\ disturbed' = ~InOrder'

\* The callback of /odometry/gps
Odometry(age) ==
    /\ gpsAge' = age
    /\ UNCHANGED <<fixAge, sent, pending, requestId, requestAge, tickDue, conv, navsat,
                   target, published, waits>>
    /\ Disturb

\* tick, with a request under way
\* mutants: it is never given up; only the flag is cleared
TimedOutNever == FALSE
TimedOut == requestAge > RequestTimeout
GiveUpFlagOnly == conv' = conv
GiveUp == conv' = [conv EXCEPT ![requestId] = Free]         \* remove_pending_request

TickPending ==
    /\ tickDue /\ pending
    /\ tickDue' = FALSE
    /\ IF TimedOut THEN pending' = FALSE /\ GiveUp ELSE UNCHANGED <<pending, conv>>
    /\ UNCHANGED <<fixAge, sent, requestId, requestAge, gpsAge, navsat, target, published,
                   disturbed, waits>>

\* tick, with none under way
MustSend == ~sent /\ Ready /\ Fresh(fixAge)

TickSend(s) ==
    /\ tickDue /\ ~pending /\ MustSend
    /\ ~Called(s)
    /\ tickDue' = FALSE
    /\ sent' = TRUE /\ pending' = TRUE /\ requestAge' = 0 /\ requestId' = s
    /\ conv' = [conv EXCEPT ![s] = [status |-> "asked", age |-> fixAge, current |-> TRUE]]
    /\ UNCHANGED <<fixAge, gpsAge, navsat, target, published, disturbed, waits>>

TickNothing ==
    /\ tickDue /\ ~pending /\ ~MustSend
    /\ tickDue' = FALSE
    /\ UNCHANGED <<fixAge, sent, pending, requestId, requestAge, gpsAge, conv, navsat,
                   target, published, disturbed, waits>>

\* The callback of async_send_request; finite: of the position navsat
\* answers, FALSE also when future.get() throws
\* mutant: the generation is not compared
AcceptsAnyGeneration(s) == Fresh(conv[s].age) /\ Ready /\ ~TimedOut
Accepts(s) == conv[s].current /\ Fresh(conv[s].age) /\ Ready /\ ~TimedOut

Response(s, finite) ==
    /\ conv[s].status = "asked" /\ navsat # "gone"
    /\ finite \/ navsat # "prompt"
    /\ pending' = FALSE
    /\ conv' = [conv EXCEPT ![s] = Free]
    /\ IF Accepts(s) /\ finite
         THEN target' = conv[s].age /\ published' = TRUE
         ELSE UNCHANGED <<target, published>>
    /\ UNCHANGED <<fixAge, sent, requestId, requestAge, gpsAge, tickDue, navsat, disturbed,
                   waits>>
-----------------------------------------------------------------------------
\* navsat_transform dies, comes back, or becomes slow; its death loses what
\* it was asked.  This node learns of both at once (service_is_ready).
Navsat(state) ==
    /\ state # navsat
    /\ navsat' = state
    /\ conv' = IF state # "gone" THEN conv
                 ELSE [s \in Slots |-> IF Called(s) THEN [conv[s] EXCEPT !.status = "lost"]
                                                    ELSE conv[s]]
    /\ UNCHANGED <<fixAge, sent, pending, requestId, requestAge, gpsAge, tickDue, target,
                   published, waits>>
    /\ Disturb

\* One timer period passes: the executor has run the last expiry by then, and
\* a prompt navsat has answered.
Aged(age, limit) == IF age > limit THEN age ELSE age + 1
TimePasses ==
    /\ ~tickDue
    /\ navsat = "prompt" => \A s \in Slots : conv[s].status # "asked"
    /\ tickDue' = TRUE
    /\ fixAge' = Aged(fixAge, MaxAge) /\ gpsAge' = Aged(gpsAge, MaxAge)
    /\ requestAge' = Aged(requestAge, RequestTimeout)
    /\ conv' = [s \in Slots |-> [conv[s] EXCEPT !.age = Aged(@, MaxAge)]]
    /\ target' = Aged(target, MaxAge)
    /\ waits' = Aged(waits, LongestWait)
    /\ UNCHANGED <<sent, pending, requestId, navsat, published>>
    /\ Disturb

Next ==
    \/ \E age \in Ages : Fix(age) \/ Odometry(age)
    \/ TickPending
    \/ \E s \in Slots : TickSend(s)
    \/ TickNothing
    \/ \E s \in Slots, finite \in BOOLEAN : Response(s, finite)
    \/ \E state \in {"prompt", "slow", "gone"} : Navsat(state)
    \/ TimePasses

Spec == Init /\ [][Next]_vars
-----------------------------------------------------------------------------
TypeOK ==
    /\ fixAge \in Ages /\ gpsAge \in Ages /\ target \in Ages
    /\ sent \in BOOLEAN /\ pending \in BOOLEAN /\ tickDue \in BOOLEAN
    /\ published \in BOOLEAN /\ disturbed \in BOOLEAN
    /\ requestId \in Slots
    /\ requestAge \in 0 .. RequestTimeout + 1 /\ waits \in 0 .. LongestWait + 1
    /\ conv \in [Slots -> Conversions]
    /\ navsat \in {"prompt", "slow", "gone"}

(* pending_ is true exactly while the client has a callback to run, which   *)
(* is that of the last request: request_started_ and pending_ are shared by *)
(* all requests, and a late answer to an abandoned one never meddles with   *)
(* the request after it.                                                    *)
OneConversion ==
    /\ \A s \in Slots : Called(s) => s = requestId
    /\ pending <=> Called(requestId)

(* A navsat that does not answer blocks the conversion of later fixes for   *)
(* request_timeout and one tick at most.                                    *)
BlockedBriefly == pending /\ ~tickDue => requestAge <= RequestTimeout

(* "Even an invalid new fix invalidates an older pending result": whatever  *)
(* was published since the newest fix is the position of that fix.          *)
TargetIsNewest == published => target = fixAge

(* The newest fix is not lost: while it is fresh, the robot localised and   *)
(* navsat prompt, it is published, even if requests before it never were    *)
(* answered.                                                                *)
FixIsUsed == ~disturbed /\ waits > LongestWait => published

(* What makes these inductive: a current conversion is that of the newest   *)
(* fix, and a newest fix that nothing disturbed is in hand until it is      *)
(* published: asked for in this very period, or waiting no longer than the  *)
(* request before it.                                                       *)
CurrentMatches == \A s \in Slots :
    conv[s].current => Called(s) /\ sent /\ conv[s].age = fixAge
FixInHand == ~disturbed /\ ~published =>
    /\ InOrder /\ waits <= LongestWait
    /\ sent => pending /\ conv[requestId].status = "asked" /\ conv[requestId].current
                /\ requestAge = 0
    /\ ~sent /\ pending => waits <= requestAge
    /\ ~sent /\ ~pending /\ ~tickDue => waits < LongestWait
IInv ==
    /\ TypeOK /\ OneConversion /\ BlockedBriefly /\ TargetIsNewest
    /\ CurrentMatches /\ FixInHand
=============================================================================

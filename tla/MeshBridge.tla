----------------------------- MODULE MeshBridge -----------------------------
(***************************************************************************)
(* meshtastic_bridge (bring_up/bring_up/meshtastic_bridge.py): the bridge  *)
(* between the radio node on a serial port and ROS.  The timers and the    *)
(* subscription run on the single threaded executor, which the opening of  *)
(* the port blocks; the library reports packets and lost connections on a  *)
(* thread of its own, between any two steps of the executor.               *)
(*                                                                         *)
(* The unit of time is the period of the 1 Hz timer.  A home position that *)
(* is None or too old behaves alike and has the age MaxHomeAge + 1.  What  *)
(* a text message becomes on /station/command is no state of the bridge    *)
(* and left out.                                                           *)
(***************************************************************************)
EXTENDS Naturals

CONSTANTS
    MaxHomeAge,     \* max_home_age
    StatusInterval, \* status_min_interval
    ConnectPeriod,  \* period of the timer of _ensure_connected
    Interfaces,     \* names for SerialInterface objects
    NoInterface     \* None

ASSUME TimesAssumption ==
    MaxHomeAge \in Nat /\ StatusInterval \in Nat /\ ConnectPeriod \in Nat \ {0}
ASSUME InterfacesAssumption == NoInterface \notin Interfaces

VARIABLES
    iface,       \* self.iface
    homeAge,     \* the age of self.home
    statusAge,   \* time since last_status_sent, saturated
    subscribed,  \* _on_receive and _on_lost are subscribed
    step,        \* what the executor is doing
    made,        \* the interface that the constructor has returned last
    republishDue, connectDue, connectAge,   \* the two timers
    plugged,     \* the radio is there
    alive,       \* the interfaces that are connected to it
    due,         \* the interfaces whose loss the library has still to report
    missed,      \* history: the interfaces whose loss was reported too early
    silence,     \* history: time since the home station reported, saturated
    fixAge,      \* history: time since the last /home/fix, saturated
    sentAge      \* history: time since a status really went out, saturated

executor == <<step, made, republishDue, connectDue, connectAge>>
library  == <<plugged, alive, due>>
home     == <<homeAge, silence, fixAge>>
status   == <<statusAge, sentAge>>
vars == <<iface, subscribed, missed, executor, library, home, status>>

Steps == {"idle", "opening", "assigning", "subscribing", "sending"}

Started ==
    /\ iface = NoInterface /\ subscribed = FALSE
    /\ homeAge = MaxHomeAge + 1 /\ silence = MaxHomeAge + 1 /\ fixAge = 2
    /\ statusAge = StatusInterval /\ sentAge = StatusInterval
    /\ step = "opening" /\ made \in Interfaces      \* __init__ calls _ensure_connected
    /\ republishDue = FALSE /\ connectDue = FALSE /\ connectAge = 0
    /\ alive = {} /\ due = {} /\ missed = {}

Init == Started /\ plugged \in BOOLEAN
-----------------------------------------------------------------------------
\* _ensure_connected, up to the constructor of SerialInterface
\* mutant: only the call in __init__ tries
EnsureConnectedNever ==
    /\ step = "idle" /\ connectDue
    /\ connectDue' = FALSE /\ step' = "idle"
    /\ UNCHANGED <<iface, subscribed, missed, made, republishDue, connectAge, library, home,
                   status>>
EnsureConnected ==
    /\ step = "idle" /\ connectDue
    /\ connectDue' = FALSE
    /\ step' = IF iface = NoInterface THEN "opening" ELSE "idle"
    /\ UNCHANGED <<iface, subscribed, missed, made, republishDue, connectAge, library, home,
                   status>>

\* The constructor returns an interface.  The port is opened exclusively: it
\* is busy while an interface is connected, also one that the bridge dropped.
Unused(i) == i \notin alive /\ i \notin due /\ i # iface
Opens(i) ==
    /\ step = "opening" /\ plugged /\ alive = {} /\ Unused(i)
    /\ alive' = {i} /\ missed' = missed \ {i}
    /\ made' = i /\ step' = "assigning"
    /\ UNCHANGED <<iface, subscribed, republishDue, connectDue, connectAge, plugged, due,
                   home, status>>

\* It raises: "device missing or busy"; or the connection was lost before it
\* was complete, which the library reports like any other loss.
OpenFails(leftovers) ==
    /\ step = "opening"
    /\ \A i \in leftovers : Unused(i)
    /\ leftovers # {} => alive = {}
    /\ iface' = NoInterface /\ step' = "idle"
    /\ due' = due \cup leftovers
    /\ UNCHANGED <<subscribed, missed, made, republishDue, connectDue, connectAge, plugged,
                   alive, home, status>>

Assign ==
    /\ step = "assigning"
    /\ iface' = made /\ step' = "subscribing"
    /\ UNCHANGED <<subscribed, missed, made, republishDue, connectDue, connectAge, library,
                   home, status>>

Subscribe ==
    /\ step = "subscribing"
    /\ subscribed' = TRUE /\ step' = "idle"
    /\ UNCHANGED <<iface, missed, made, republishDue, connectDue, connectAge, library, home,
                   status>>

\* _on_lost, on the thread of the library: which interface is not looked at.
\* Reported too early: nobody listens, or the interface is not yet assigned.
\* mutant: it does not interfere with the executor
HeldUntilIdle == IF step = "idle" THEN NoInterface ELSE iface
Held == NoInterface
Assigning(i) == step = "assigning" /\ made = i
OnLost(i) ==
    /\ i \in due
    /\ due' = due \ {i}
    /\ iface' = IF subscribed THEN Held ELSE iface
    /\ missed' = IF subscribed /\ ~Assigning(i) THEN missed ELSE missed \cup {i}
    /\ UNCHANGED <<subscribed, executor, plugged, alive, home, status>>

\* parse_position: of a packet that is a position, not one without a GPS fix,
\* incomplete or out of range
Packets == [home : BOOLEAN, content : {"position", "no position", "text"}]
IsPosition(packet) == packet.content = "position"

\* _on_receive, on the same thread; other packets change nothing
OnReceive(packet) ==
    /\ subscribed /\ alive # {}
    /\ IsPosition(packet) /\ packet.home
    /\ homeAge' = 0 /\ silence' = 0
    /\ UNCHANGED <<iface, subscribed, missed, executor, library, fixAge, status>>

\* _republish_home
\* mutant: the republished position counts as a report
RepublishRefreshing ==
    /\ homeAge' = IF homeAge <= MaxHomeAge THEN 0 ELSE homeAge
    /\ fixAge' = IF homeAge <= MaxHomeAge THEN 0 ELSE fixAge
Republish ==
    /\ homeAge' = homeAge
    /\ fixAge' = IF homeAge <= MaxHomeAge THEN 0 ELSE fixAge
RepublishHome ==
    /\ step = "idle" /\ republishDue
    /\ republishDue' = FALSE
    /\ Republish
    /\ UNCHANGED <<iface, subscribed, missed, step, made, connectDue, connectAge, library,
                   silence, status>>

\* _status_cb looks at iface and at the time; between that and the use of
\* iface the other thread may set it to None
MaySend == iface # NoInterface /\ statusAge >= StatusInterval
StatusCb ==
    /\ step = "idle" /\ MaySend
    /\ step' = "sending"
    /\ UNCHANGED <<iface, subscribed, missed, made, republishDue, connectDue, connectAge,
                   library, home, status>>

\* sendText raises, also when iface is None by now, or returns; an interface
\* that is no longer connected may return as well, but nothing goes out
SendText(returns) ==
    /\ step = "sending"
    /\ returns => iface # NoInterface
    /\ step' = "idle"
    /\ statusAge' = IF returns THEN 0 ELSE statusAge
    /\ sentAge' = IF returns /\ iface \in alive THEN 0 ELSE sentAge
    /\ UNCHANGED <<iface, subscribed, missed, made, republishDue, connectDue, connectAge,
                   library, home>>

\* main: the node ends, closes the interface it holds, and is started again
Restart ==
    /\ iface' = NoInterface /\ subscribed' = FALSE
    /\ homeAge' = MaxHomeAge + 1 /\ silence' = MaxHomeAge + 1 /\ fixAge' = 2
    /\ statusAge' = StatusInterval /\ sentAge' = StatusInterval
    /\ step' = "opening" /\ made' = made
    /\ republishDue' = FALSE /\ connectDue' = FALSE /\ connectAge' = 0
    /\ alive' = {} /\ due' = {} /\ missed' = {}
    /\ UNCHANGED plugged
-----------------------------------------------------------------------------
\* The radio is plugged in, pulled out, or drops a connection
Plug ==
    /\ ~plugged /\ plugged' = TRUE
    /\ UNCHANGED <<iface, subscribed, missed, executor, alive, due, home, status>>
Unplug ==
    /\ plugged /\ plugged' = FALSE
    /\ alive' = {} /\ due' = due \cup alive
    /\ UNCHANGED <<iface, subscribed, missed, executor, home, status>>
Drop(i) ==
    /\ i \in alive
    /\ alive' = alive \ {i} /\ due' = due \cup {i}
    /\ UNCHANGED <<iface, subscribed, missed, executor, plugged, home, status>>

\* A period passes: by then the executor has handled what is due, unless the
\* constructor blocks it; a timer that expires again while it is due fires once
Older(age, limit) == IF age < limit THEN age + 1 ELSE age
TimePasses ==
    /\ step = "opening" \/ (step = "idle" /\ ~republishDue /\ ~connectDue)
    /\ republishDue' = TRUE
    /\ connectAge' = (connectAge + 1) % ConnectPeriod
    /\ connectDue' = (connectDue \/ connectAge' = 0)
    /\ homeAge' = Older(homeAge, MaxHomeAge + 1)
    /\ silence' = Older(silence, MaxHomeAge + 1)
    /\ fixAge' = Older(fixAge, 2)
    /\ statusAge' = Older(statusAge, StatusInterval)
    /\ sentAge' = Older(sentAge, StatusInterval)
    /\ UNCHANGED <<iface, subscribed, missed, step, made, library>>

Next ==
    \/ EnsureConnected \/ Assign \/ Subscribe \/ RepublishHome \/ StatusCb
    \/ \E i \in Interfaces : Opens(i) \/ OnLost(i) \/ Drop(i)
    \/ \E leftovers \in SUBSET Interfaces : OpenFails(leftovers)
    \/ \E returns \in BOOLEAN : SendText(returns)
    \/ \E packet \in Packets : OnReceive(packet)
    \/ Restart \/ Plug \/ Unplug \/ TimePasses

Spec == Init /\ [][Next]_vars

\* The executor gets round to each of its callbacks, the constructor and
\* sendText return, the library reports, time goes on; and a radio that stays
\* and is not busy does not refuse for ever.
Fairness ==
    /\ SF_vars(EnsureConnected) /\ SF_vars(RepublishHome) /\ SF_vars(TimePasses)
    /\ WF_vars(Assign) /\ WF_vars(Subscribe)
    /\ WF_vars(\E returns \in BOOLEAN : SendText(returns))
    /\ WF_vars(\E i \in Interfaces : Opens(i) \/ OpenFails({}))
    /\ SF_vars(\E i \in Interfaces : Opens(i))
    /\ \A i \in Interfaces : WF_vars(OnLost(i))

FairSpec == Spec /\ Fairness
-----------------------------------------------------------------------------
TypeOK ==
    /\ iface \in Interfaces \cup {NoInterface} /\ made \in Interfaces
    /\ subscribed \in BOOLEAN /\ plugged \in BOOLEAN
    /\ republishDue \in BOOLEAN /\ connectDue \in BOOLEAN
    /\ step \in Steps /\ connectAge \in 0 .. ConnectPeriod - 1
    /\ alive \subseteq Interfaces /\ due \subseteq Interfaces /\ missed \subseteq Interfaces
    /\ homeAge \in 0 .. MaxHomeAge + 1 /\ silence \in 0 .. MaxHomeAge + 1
    /\ fixAge \in 0 .. 2
    /\ statusAge \in 0 .. StatusInterval /\ sentAge \in 0 .. StatusInterval

(* An interface that the bridge holds and that is no longer connected will  *)
(* be dropped, because its loss is still to be reported; except when the    *)
(* library reported it before the interface was assigned to iface, or       *)
(* before the first subscription: then it is held for ever.                 *)
DeadIsNoticed ==
    iface # NoInterface /\ iface \notin alive => iface \in due \cup missed

(* What is on /home/fix is no older than max_home_age, though every message *)
(* has a fresh stamp: the home station itself reported that recently.       *)
HomeIsReal == fixAge = 0 => silence <= MaxHomeAge

(* A young position is published in every period in which the executor gets *)
(* round to its timers, whatever becomes of the connection meanwhile.       *)
HomeKeepsComing == silence \in 1 .. MaxHomeAge /\ ~republishDue => fixAge = 0
HomeFollowsReports == HomeIsReal /\ HomeKeepsComing

(* Each status that goes out does so status_min_interval or more after the  *)
(* last, through reconnections, and attempts that raise or are swallowed by *)
(* a lost connection.                                                       *)
StatusSpaced == step = "sending" => sentAge >= StatusInterval

(* "The last position is republished at 1 Hz (...) until the last real      *)
(* report is older than max_home_age": a young position is never two        *)
(* periods old on /home/fix.                                                *)
HomeAtOneHertz == silence \in 2 .. MaxHomeAge => fixAge <= 1

(* With a radio that stays plugged in and drops no more connections, the    *)
(* bridge has a working interface again and again; unless it holds a lost   *)
(* one whose loss was reported too early, or the late report of another     *)
(* interface made it drop a working one, which keeps the port busy.         *)
Disturbance == Restart \/ Unplug \/ \E i \in Interfaces : Drop(i)
Steady      == <>[]plugged /\ <>[][~Disturbance]_vars
Connected   == iface \in alive
Deaf        == iface \in missed
Orphaned    == iface = NoInterface /\ \E i \in alive : ~Assigning(i)
Reconnects  == Steady => []<>(Connected \/ Deaf \/ Orphaned)
=============================================================================

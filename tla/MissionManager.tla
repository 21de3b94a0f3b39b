--------------------------- MODULE MissionManager ---------------------------
(***************************************************************************)
(* The mission manager (bring_up/mission_manager.py): which target the     *)
(* robot drives to, and the NavigateToPose goal that it sends to Nav2,     *)
(* follows through its life and cancels.                                   *)
(*                                                                         *)
(* The node runs on rclpy's single threaded executor, so every callback    *)
(* (a target, a command, the 0.2 s timer, the two action futures) is one   *)
(* action.  Nav2's action server is not in the repository: the actions of  *)
(* the section "Nav2" are what the client can observe of it.               *)
(*                                                                         *)
(* The unit of time is one period of the 0.2 s timer.  A clock reading is  *)
(* only ever compared with an earlier one, so the model keeps the age of   *)
(* what the code stamps and the time left to what the code schedules.      *)
(***************************************************************************)
EXTENDS Naturals

CONSTANTS
    StaleAfter,     \* stale_after: [Targets -> Nat], in timer periods
    RetryDelay,     \* retry_delay, in timer periods
    Slots,          \* names for goals that are on their way at one time
    None,           \* Python's None
    Nav2MayDie,     \* whether bt_navigator may die (and be restarted)
    ManagerMayDie   \* whether mission_manager may die and be started again

Targets == {"follow", "home"}
Modes   == Targets \cup {"idle"}            \* MODES

ASSUME StaleAfterAssumption == StaleAfter \in [Targets -> Nat]
ASSUME RetryDelayAssumption == RetryDelay \in Nat
ASSUME NoneAssumption       == None \notin Slots /\ None \notin Modes
ASSUME DeathAssumption      == Nav2MayDie \in BOOLEAN /\ ManagerMayDie \in BOOLEAN

VARIABLES
    mode,           \* MissionLogic.mode
    goal,           \* MissionLogic.goal
    goalMode,       \* MissionLogic.goal_mode
    age,            \* time since _last_target, saturated; also "never seen"
    retryWait,      \* time left until _retry_at
    handle,         \* MissionManager.goal_handle: the slot of an accepted goal
    tickDue,        \* the 0.2 s timer has expired and _tick has not run yet
    ready,          \* client.server_is_ready(): the graph as this node sees it
    up,             \* bt_navigator's action server is running
    srv,            \* the goals on their way, one record for each slot
    retryMode       \* history: the mode of the goal that set _retry_at

logic == <<mode, goal, goalMode, age, retryWait, handle, retryMode>>
vars  == <<logic, tickDue, ready, up, srv>>

(***************************************************************************)
(* A goal on its way.  status is where Nav2 has it, client what the        *)
(* mission manager knows of it: "waiting" for the answer to the request,   *)
(* "told" that it was accepted, or "gone" when the process that sent it    *)
(* has died.  dest is the target whose position Nav2 drives to.            *)
(*   lost    its Nav2 died and nothing will be answered any more           *)
(*   orphan  its Nav2 died, but the acceptance is still on its way         *)
(***************************************************************************)
Ended    == {"succeeded", "aborted", "canceled", "unknown"}
Statuses == Ended \cup {"free", "requested", "rejected", "executing", "orphan", "lost"}
Goals    == [status : Statuses, mode : Modes, dest : Modes,
             client : {"waiting", "told", "gone"}, cancel : BOOLEAN]
Free     == [status |-> "free", mode |-> "idle", dest |-> "idle",
             client |-> "gone", cancel |-> FALSE]
Request(m) == [status |-> "requested", mode |-> m, dest |-> m,
               client |-> "waiting", cancel |-> FALSE]

Stale(m)  == StaleAfter[m] + 1              \* the age of a target never seen, too
Fresh(m)  == age[m] <= StaleAfter[m]        \* fresh
Owned(s)  == srv[s].status # "free" /\ srv[s].client # "gone"
Executing(s) == srv[s].status = "executing"

Init ==
    /\ mode \in Modes                       \* initial_mode
    /\ goal = "idle" /\ goalMode = None /\ handle = None
    /\ age = [m \in Targets |-> Stale(m)]
    /\ retryWait = 0 /\ retryMode = None
    /\ tickDue = FALSE
    /\ up \in BOOLEAN /\ ready = FALSE
    /\ srv = [s \in Slots |-> Free]
-----------------------------------------------------------------------------
(* Callbacks of the mission manager *)

\* _target_cb: a fresh position; it is forwarded on goal_update, which moves
\* every goal Nav2 is executing, when this node's goal runs in that mode.
ForwardsAnything(m) == goal = "active"       \* mutant: not only its own mode's
Forwards(m) == m = goalMode /\ goal = "active"

Target(m) ==
    /\ age' = [age EXCEPT ![m] = 0]
    /\ srv' = IF Forwards(m)
                THEN [s \in Slots |-> IF Executing(s) THEN [srv[s] EXCEPT !.dest = m]
                                                      ELSE srv[s]]
                ELSE srv
    /\ UNCHANGED <<mode, goal, goalMode, retryWait, handle, retryMode, tickDue, ready, up>>

\* _command_cb and _enable_cb, through _set_mode and MissionLogic.set_mode
SetMode(m) ==
    /\ m # mode
    /\ mode' = m
    /\ retryWait' = 0
    /\ UNCHANGED <<goal, goalMode, age, handle, retryMode, tickDue, ready, up, srv>>

\* mutants: without waiting for the end of the cancelled goal; however old
\* the target is
SendsWhileCanceling ==
    goal \in {"idle", "canceling"} /\ mode # "idle" /\ Fresh(mode) /\ retryWait = 0
SendsToStale == goal = "idle" /\ mode # "idle" /\ retryWait = 0

\* MissionLogic.step, goal == 'idle', and _tick's send_goal_async
MustSend == goal = "idle" /\ mode # "idle" /\ Fresh(mode) /\ retryWait = 0

TickSend(s) ==
    /\ tickDue /\ ready /\ MustSend
    /\ srv[s].status = "free"
    /\ goal' = "sending" /\ goalMode' = mode
    /\ srv' = [srv EXCEPT ![s] = IF up THEN Request(mode)
                                       ELSE [Request(mode) EXCEPT !.status = "lost"]]
    /\ tickDue' = FALSE
    /\ UNCHANGED <<mode, age, retryWait, handle, retryMode, ready, up>>

\* mutants: before the goal was accepted; whatever the mode
CancelsWhileSending ==
    goal \in {"sending", "active"} /\ (mode # goalMode \/ ~Fresh(goalMode))
CancelsStaleOnly == goal = "active" /\ ~Fresh(goalMode)

\* MissionLogic.step, goal == 'active', and _tick's cancel_goal_async
MustCancel == goal = "active" /\ (mode # goalMode \/ ~Fresh(goalMode))

TickCancel ==
    /\ tickDue /\ ready /\ MustCancel
    /\ goal' = "canceling"
    /\ srv' = [s \in Slots |-> IF s = handle THEN [srv[s] EXCEPT !.cancel = TRUE]
                                             ELSE srv[s]]
    /\ tickDue' = FALSE
    /\ UNCHANGED <<mode, goalMode, age, retryWait, handle, retryMode, ready, up>>

\* _tick when the server is not ready, or when step returns None
TickNothing ==
    /\ tickDue /\ ~(ready /\ (MustSend \/ MustCancel))
    /\ tickDue' = FALSE
    /\ UNCHANGED <<logic, ready, up, srv>>

\* mutant: only a cancel makes it idle
FinishedOnlyIfCancelled(cancelled) ==
    /\ goal' = IF cancelled THEN "idle" ELSE goal
    /\ goalMode' = IF cancelled THEN None ELSE goalMode
    /\ retryWait' = IF cancelled THEN 0 ELSE RetryDelay
    /\ retryMode' = goalMode

\* MissionLogic.on_finished
Finished(cancelled) ==
    /\ goal' = "idle" /\ goalMode' = None
    /\ retryWait' = IF cancelled THEN 0 ELSE RetryDelay
    /\ retryMode' = goalMode

\* _goal_response: rejected
GoalRejected(s) ==
    /\ srv[s].status = "rejected" /\ srv[s].client = "waiting"
    /\ srv' = [srv EXCEPT ![s] = Free]
    /\ Finished(FALSE)
    /\ UNCHANGED <<mode, age, handle, tickDue, ready, up>>

\* _goal_response: accepted; get_result_async asks for the result.  A Nav2
\* that was restarted in the meantime does not know the goal, and one that
\* is down does not answer.
Told(g) == [g EXCEPT !.client = "told",
                     !.status = IF @ # "orphan" THEN @ ELSE IF up THEN "unknown" ELSE "lost"]

GoalAccepted(s) ==
    /\ srv[s].status \in Ended \cup {"executing", "orphan"}
    /\ srv[s].client = "waiting"
    /\ handle' = s
    /\ goal' = IF goal = "sending" THEN "active" ELSE goal      \* on_accepted
    /\ srv' = [srv EXCEPT ![s] = Told(@)]
    /\ UNCHANGED <<mode, goalMode, age, retryWait, retryMode, tickDue, ready, up>>

\* _goal_done
GoalDone(s) ==
    /\ srv[s].status \in Ended /\ srv[s].client = "told"
    /\ handle' = None
    /\ Finished(srv[s].status = "canceled")
    /\ srv' = [srv EXCEPT ![s] = Free]
    /\ UNCHANGED <<mode, age, tickDue, ready, up>>

\* The process ends (destroy_node cancels nothing) and is started again in
\* its initial_mode: everything it knew is gone, what Nav2 does is not.
\* Bound: it is not restarted while an earlier life's goal is on its way.
Abandoned(g) == IF g.status \in {"requested", "executing"}
                  THEN [g EXCEPT !.client = "gone", !.cancel = FALSE] ELSE Free

ManagerRestart ==
    /\ ManagerMayDie
    /\ \A s \in Slots : srv[s].status # "free" => srv[s].client # "gone"
    /\ mode' \in Modes
    /\ goal' = "idle" /\ goalMode' = None /\ handle' = None
    /\ age' = [m \in Targets |-> Stale(m)]
    /\ retryWait' = 0 /\ retryMode' = None
    /\ tickDue' = FALSE /\ ready' = FALSE
    /\ srv' = [s \in Slots |-> Abandoned(srv[s])]
    /\ UNCHANGED up
-----------------------------------------------------------------------------
(* Time *)

\* One timer period passes: the executor has run the last expiry by then.
TimePasses ==
    /\ ~tickDue
    /\ tickDue' = TRUE
    /\ age' = [m \in Targets |-> IF Fresh(m) THEN age[m] + 1 ELSE age[m]]
    /\ retryWait' = IF retryWait > 0 THEN retryWait - 1 ELSE 0
    /\ UNCHANGED <<mode, goal, goalMode, handle, retryMode, ready, up, srv>>
-----------------------------------------------------------------------------
(* Nav2 *)

\* What becomes of a goal that ends: its client may not be there any more.
EndAs(g, status) == IF g.client = "gone" THEN Free ELSE [g EXCEPT !.status = status]

\* bt_navigator accepts a goal.  One that it is executing already is aborted
\* in its favour when both use the same tree, and wins when they do not.
Nav2Accept(s) ==
    /\ up /\ srv[s].status = "requested"
    /\ srv' = IF \E t \in Slots : Executing(t) /\ srv[t].mode # srv[s].mode
                THEN [srv EXCEPT ![s] = EndAs(@, "aborted")]
                ELSE [t \in Slots |-> IF t = s THEN [srv[s] EXCEPT !.status = "executing"]
                                      ELSE IF Executing(t) THEN EndAs(srv[t], "aborted")
                                      ELSE srv[t]]
    /\ UNCHANGED <<logic, tickDue, ready, up>>

Nav2Reject(s) ==
    /\ up /\ srv[s].status = "requested"
    /\ srv' = [srv EXCEPT ![s] = EndAs(@, "rejected")]
    /\ UNCHANGED <<logic, tickDue, ready, up>>

Nav2Cancel(s) ==
    /\ Executing(s) /\ srv[s].cancel
    /\ srv' = [srv EXCEPT ![s] = EndAs(@, "canceled")]
    /\ UNCHANGED <<logic, tickDue, ready, up>>

\* It arrives, gives up, is preempted or cancelled by another client (RViz).
Nav2End(s) ==
    /\ Executing(s)
    /\ \E status \in {"succeeded", "aborted", "canceled"} :
         srv' = [srv EXCEPT ![s] = EndAs(@, status)]
    /\ UNCHANGED <<logic, tickDue, ready, up>>

\* Nav2 dies.  Requests and goals go with it; an answer that is already on
\* its way may arrive (those of Slots \ cut) or not.
AfterDeath(s, cut) ==
    LET g == srv[s] IN
    IF g.status = "free" \/ g.client = "gone" THEN Free
    ELSE IF \/ s \in cut \/ g.status \in {"requested", "lost"}
            \/ g.status = "executing" /\ g.client = "told"
      THEN [g EXCEPT !.status = "lost"]
    ELSE IF g.client = "waiting" /\ g.status # "rejected"
      THEN [g EXCEPT !.status = "orphan"]
    ELSE g

Nav2Dies ==
    /\ Nav2MayDie /\ up
    /\ up' = FALSE
    /\ \E cut \in SUBSET Slots : srv' = [s \in Slots |-> AfterDeath(s, cut)]
    /\ UNCHANGED <<logic, tickDue, ready>>

Nav2Starts ==
    /\ ~up
    /\ up' = TRUE
    /\ UNCHANGED <<logic, tickDue, ready, srv>>

\* DDS discovery: this node learns that the server has come or gone.
Discover ==
    /\ ready # up
    /\ ready' = up
    /\ UNCHANGED <<logic, tickDue, up, srv>>
-----------------------------------------------------------------------------
Manager ==
    \/ \E m \in Targets : Target(m)
    \/ \E m \in Modes : SetMode(m)
    \/ \E s \in Slots : TickSend(s)
    \/ TickCancel
    \/ TickNothing
    \/ \E s \in Slots : GoalRejected(s)
    \/ \E s \in Slots : GoalAccepted(s)
    \/ \E s \in Slots : GoalDone(s)
    \/ ManagerRestart

Nav2 ==
    \/ \E s \in Slots : Nav2Accept(s)
    \/ \E s \in Slots : Nav2Reject(s)
    \/ \E s \in Slots : Nav2Cancel(s)
    \/ \E s \in Slots : Nav2End(s)
    \/ Nav2Dies
    \/ Nav2Starts

Next == Manager \/ Nav2 \/ TimePasses \/ Discover

\* The executor runs whatever is due, the clock does not stop, and a Nav2
\* that is up answers requests and honours cancels.  Targets, commands,
\* deaths and the end of a drive are up to the environment.
Fairness ==
    /\ WF_vars(TickCancel) /\ WF_vars(TickNothing) /\ WF_vars(TimePasses)
    /\ WF_vars(Discover) /\ WF_vars(Nav2Starts)
    /\ \A s \in Slots :
         /\ WF_vars(TickSend(s))
         /\ WF_vars(GoalRejected(s)) /\ WF_vars(GoalAccepted(s)) /\ WF_vars(GoalDone(s))
         /\ WF_vars(Nav2Accept(s) \/ Nav2Reject(s)) /\ WF_vars(Nav2Cancel(s))

Spec == Init /\ [][Next]_vars
FairSpec == Spec /\ Fairness
-----------------------------------------------------------------------------
TypeOK ==
    /\ mode \in Modes
    /\ goal \in {"idle", "sending", "active", "canceling"}
    /\ goalMode \in Targets \cup {None}
    /\ age \in [Targets -> Nat] /\ \A m \in Targets : age[m] <= Stale(m)
    /\ retryWait \in 0 .. RetryDelay
    /\ handle \in Slots \cup {None}
    /\ retryMode \in Targets \cup {None}
    /\ tickDue \in BOOLEAN /\ ready \in BOOLEAN /\ up \in BOOLEAN
    /\ srv \in [Slots -> Goals]

(* Mode changes, stale targets, rejections, aborts and restarts of Nav2 in  *)
(* any order never leave the mission manager with two goals on their way    *)
(* (the second would make Nav2 drive on after the first is cancelled).      *)
OneGoal == \A s, t \in Slots : Owned(s) /\ Owned(t) => s = t

(* What MissionLogic believes is what the action client went through: it is *)
(* idle exactly when it has no goal on its way, sending exactly until the   *)
(* answer, and from then on it holds the handle that a cancel needs and     *)
(* knows the mode that the goal was sent in.                                *)
PhaseMatchesGoal ==
    /\ goal = "idle" <=> (\A s \in Slots : ~Owned(s))
    /\ goal = "idle" <=> (goalMode = None)
    /\ \A s \in Slots : Owned(s) =>
         /\ srv[s].mode = goalMode
         /\ goal = "sending" <=> (srv[s].client = "waiting")
         /\ goal \in {"active", "canceling"} <=> (handle = s)

(* The cancel that step() announces really leaves the node: a goal that     *)
(* MissionLogic calls canceling has been asked to cancel, or has ended.     *)
CancelIsSent ==
    goal = "canceling" => \E s \in Slots : s = handle /\ srv[s].cancel

(* goal_update never moves the goal that this node sent to the other mode's *)
(* target: under return_home.xml Nav2 never drives to the beacon, nor the   *)
(* reverse.  (A goal that an earlier life left behind has no such luck.)    *)
DrivesToItsOwnTarget ==
    \A s \in Slots : Owned(s) /\ Executing(s) => srv[s].dest = srv[s].mode

(* What makes these four inductive: there is a handle only while there is a *)
(* goal that was accepted, and an answer is only on its way to a client     *)
(* that waits for it.                                                       *)
HandleMatches == goal \in {"idle", "sending"} => handle = None
AnswersMatch == \A s \in Slots :
    /\ srv[s].status \in {"rejected", "orphan"} => srv[s].client = "waiting"
    /\ srv[s].status = "requested" => srv[s].client # "told" /\ srv[s].dest = srv[s].mode
IInv ==
    /\ TypeOK /\ OneGoal /\ PhaseMatchesGoal /\ CancelIsSent /\ DrivesToItsOwnTarget
    /\ HandleMatches /\ AnswersMatch

(* "a new mode clears the retry delay": a mode that was selected after the  *)
(* goal that failed was sent does not wait for that goal's retry_delay.     *)
NewModeDoesNotWait == retryWait > 0 => retryMode = mode

(* The manager waits for ever: its goal, or the answer to its request, died *)
(* with bt_navigator.                                                       *)
Stranded == \E s \in Slots : Owned(s) /\ srv[s].status = "lost"

(* "The goal is cancelled when the mode changes or its target goes stale":  *)
(* a goal whose mode is no longer selected, or whose target stays stale     *)
(* (R-3), comes to an end, through deaths of either side, unless its answer *)
(* died with Nav2; the goals of an earlier life of the manager do not.      *)
Driving(s) == Owned(s) /\ Executing(s)
ObsoleteGoalEnds == \A m \in Targets :
    (goalMode = m /\ mode # m) ~> (goalMode # m \/ mode = m \/ Stranded)
StaleGoalEnds == \A m \in Targets :
    <>[](~Fresh(m)) => <>[](\A s \in Slots : Driving(s) => srv[s].mode # m)
UnwantedGoalEnds == ObsoleteGoalEnds /\ StaleGoalEnds

(* A mode that stays selected with a target that stays fresh, and a Nav2    *)
(* that stays up, is pursued again and again, whatever Nav2 makes of each   *)
(* goal ("re-sent when a fresh target returns").                            *)
Pursued(m) == \E s \in Slots :
    srv[s].mode = m /\ srv[s].status \in {"requested", "executing"}
WantedIsPursued == \A m \in Targets :
    <>[](up /\ mode = m /\ Fresh(m)) => []<>Pursued(m)

(* Through deaths of either side, it is pursued again and again as long as  *)
(* the manager is not left waiting for what died with Nav2.                 *)
PursuedUnlessStranded == \A m \in Targets :
    <>[](up /\ mode = m /\ Fresh(m)) => []<>(Pursued(m) \/ Stranded)

(* Every step is one that Pursuit allows, with the goal of this node that   *)
(* Nav2 is executing as what the robot drives to.                           *)
driven  == IF \E s \in Slots : Driving(s)
             THEN srv[CHOOSE s \in Slots : Driving(s)].dest ELSE None
Promise == INSTANCE Pursuit WITH fresh <- {m \in Targets : Fresh(m)}, chosen <- goalMode
ImplementsPursuit == Promise!Spec
=============================================================================

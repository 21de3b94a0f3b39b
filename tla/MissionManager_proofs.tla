----------------------- MODULE MissionManager_proofs -----------------------
(***************************************************************************)
(* The safety of the mission manager, for every set of slots, stale_after  *)
(* and retry_delay, with and without deaths of Nav2 and of the mission     *)
(* manager itself.                                                         *)
(***************************************************************************)
EXTENDS MissionManager, TLAPS

(* The type invariant: the phases, handles and goal records stay in range.  *)
THEOREM TypeCorrect == Spec => []TypeOK
<1> USE StaleAfterAssumption, RetryDelayAssumption
<1> USE DEF Targets, Modes, Goals, Statuses, Ended, Free, Stale, logic, TypeOK
<1>1. Init => TypeOK
  <2> SUFFICES ASSUME Init PROVE TypeOK
    OBVIOUS
  <2>1. age \in [Targets -> Nat] /\ \A m \in Targets : age[m] <= Stale(m)
    BY DEF Init
  <2>2. Free \in Goals
    OBVIOUS
  <2>3. srv \in [Slots -> Goals]
    BY <2>2 DEF Init
  <2>4. retryWait \in 0 .. RetryDelay
    BY DEF Init
  <2> HIDE DEF Goals, Free, Stale
  <2> QED
    BY <2>1, <2>3, <2>4 DEF Init
<1>2. TypeOK /\ [Next]_vars => TypeOK'
  <2> SUFFICES ASSUME TypeOK, [Next]_vars PROVE TypeOK'
    OBVIOUS
  <2>f. Free \in Goals
    OBVIOUS
  <2>e. \A g \in Goals : \A status \in Statuses :
          EndAs(g, status) \in Goals /\ [g EXCEPT !.status = status] \in Goals
    BY DEF EndAs
  <2> HIDE DEF Goals, Free, Stale
  <2>1. ASSUME NEW m \in Targets, Target(m) PROVE TypeOK'
    <3>1. age' \in [Targets -> Nat] /\ \A t \in Targets : age'[t] <= Stale(t)
      BY <2>1 DEF Target, Stale
    <3>2. \A g \in Goals : [g EXCEPT !.dest = m] \in Goals
      BY DEF Goals
    <3>3. srv' \in [Slots -> Goals]
      BY <2>1, <3>2 DEF Target
    <3> QED
      BY <2>1, <3>1, <3>3 DEF Target
  <2>2. ASSUME NEW m \in Modes, SetMode(m) PROVE TypeOK'
    BY <2>2 DEF SetMode
  <2>3. ASSUME NEW s \in Slots, TickSend(s) PROVE TypeOK'
    <3>1. Request(mode) \in Goals /\ [Request(mode) EXCEPT !.status = "lost"] \in Goals
      BY DEF Request, Goals
    <3>2. srv' \in [Slots -> Goals]
      BY <2>3, <3>1 DEF TickSend
    <3>3. mode \in Targets
      BY <2>3 DEF TickSend, MustSend
    <3> QED
      BY <2>3, <3>2, <3>3 DEF TickSend
  <2>4. CASE TickCancel
    <3>1. \A g \in Goals : [g EXCEPT !.cancel = TRUE] \in Goals
      BY DEF Goals
    <3>2. srv' \in [Slots -> Goals]
      BY <2>4, <3>1 DEF TickCancel
    <3> QED
      BY <2>4, <3>2 DEF TickCancel
  <2>5. CASE TickNothing
    BY <2>5 DEF TickNothing
  <2>6. ASSUME NEW s \in Slots, GoalRejected(s) PROVE TypeOK'
    <3>1. srv' \in [Slots -> Goals]
      BY <2>6, <2>f DEF GoalRejected
    <3>2. retryWait' \in 0 .. RetryDelay
      BY <2>6 DEF GoalRejected, Finished
    <3> QED
      BY <2>6, <3>1, <3>2 DEF GoalRejected, Finished
  <2>7. ASSUME NEW s \in Slots, GoalAccepted(s) PROVE TypeOK'
    <3>1. Told(srv[s]) \in Goals
      BY DEF Told, Goals
    <3>2. srv' \in [Slots -> Goals]
      BY <2>7, <3>1 DEF GoalAccepted
    <3> QED
      BY <2>7, <3>2 DEF GoalAccepted
  <2>8. ASSUME NEW s \in Slots, GoalDone(s) PROVE TypeOK'
    <3>1. srv' \in [Slots -> Goals]
      BY <2>8, <2>f DEF GoalDone
    <3>2. retryWait' \in 0 .. RetryDelay
      BY <2>8 DEF GoalDone, Finished
    <3> QED
      BY <2>8, <3>1, <3>2 DEF GoalDone, Finished
  <2>9. CASE ManagerRestart
    <3>1. \A g \in Goals : Abandoned(g) \in Goals
      BY DEF Abandoned, Goals, Free
    <3>2. srv' \in [Slots -> Goals]
      BY <2>9, <3>1 DEF ManagerRestart
    <3>3. age' \in [Targets -> Nat] /\ \A m \in Targets : age'[m] <= Stale(m)
      BY <2>9 DEF ManagerRestart, Stale
    <3>4. retryWait' \in 0 .. RetryDelay
      BY <2>9 DEF ManagerRestart
    <3> QED
      BY <2>9, <3>2, <3>3, <3>4 DEF ManagerRestart
  <2>10. CASE TimePasses
    <3>1. age' \in [Targets -> Nat] /\ \A m \in Targets : age'[m] <= Stale(m)
      BY <2>10 DEF TimePasses, Fresh, Stale
    <3>2. retryWait' \in 0 .. RetryDelay
      BY <2>10 DEF TimePasses
    <3> QED
      BY <2>10, <3>1, <3>2 DEF TimePasses
  <2>11. ASSUME NEW s \in Slots, Nav2Accept(s) PROVE TypeOK'
    <3> DEFINE wins(t) == IF t = s THEN [srv[s] EXCEPT !.status = "executing"]
                          ELSE IF Executing(t) THEN EndAs(srv[t], "aborted")
                          ELSE srv[t]
    <3>1. EndAs(srv[s], "aborted") \in Goals
      BY <2>e
    <3>2. \A t \in Slots : wins(t) \in Goals
      BY <2>e
    <3>3. \/ srv' = [srv EXCEPT ![s] = EndAs(srv[s], "aborted")]
          \/ srv' = [t \in Slots |-> wins(t)]
      BY <2>11 DEF Nav2Accept
    <3> HIDE DEF wins
    <3>4. srv' \in [Slots -> Goals]
      BY <3>1, <3>2, <3>3
    <3> QED
      BY <2>11, <3>4 DEF Nav2Accept
  <2>12. ASSUME NEW s \in Slots, Nav2Reject(s) PROVE TypeOK'
    <3>1. EndAs(srv[s], "rejected") \in Goals
      BY <2>e
    <3>2. srv' \in [Slots -> Goals]
      BY <2>12, <3>1 DEF Nav2Reject
    <3> QED
      BY <2>12, <3>2 DEF Nav2Reject
  <2>13. ASSUME NEW s \in Slots, Nav2Cancel(s) PROVE TypeOK'
    <3>1. EndAs(srv[s], "canceled") \in Goals
      BY <2>e
    <3>2. srv' \in [Slots -> Goals]
      BY <2>13, <3>1 DEF Nav2Cancel
    <3> QED
      BY <2>13, <3>2 DEF Nav2Cancel
  <2>14. ASSUME NEW s \in Slots, Nav2End(s) PROVE TypeOK'
    <3>1. PICK status \in {"succeeded", "aborted", "canceled"} :
            srv' = [srv EXCEPT ![s] = EndAs(srv[s], status)]
      BY <2>14 DEF Nav2End
    <3>2. EndAs(srv[s], status) \in Goals
      BY <2>e
    <3>3. srv' \in [Slots -> Goals]
      BY <3>1, <3>2
    <3> QED
      BY <2>14, <3>3 DEF Nav2End
  <2>15. CASE Nav2Dies
    <3>1. PICK cut \in SUBSET Slots : srv' = [s \in Slots |-> AfterDeath(s, cut)]
      BY <2>15 DEF Nav2Dies
    <3>2. \A s \in Slots : AfterDeath(s, cut) \in Goals
      BY <2>e, <2>f DEF AfterDeath
    <3>3. srv' \in [Slots -> Goals]
      BY <3>1, <3>2
    <3> QED
      BY <2>15, <3>3 DEF Nav2Dies
  <2>16. CASE Nav2Starts
    BY <2>16 DEF Nav2Starts
  <2>17. CASE Discover
    BY <2>17 DEF Discover
  <2>18. CASE UNCHANGED vars
    BY <2>18 DEF vars
  <2> HIDE DEF TypeOK
  <2> QED
    BY <2>1, <2>2, <2>3, <2>4, <2>5, <2>6, <2>7, <2>8, <2>9, <2>10, <2>11, <2>12,
       <2>13, <2>14, <2>15, <2>16, <2>17, <2>18 DEF Next, Manager, Nav2
<1> QED
  BY <1>1, <1>2, PTL DEF Spec

(* The parts that stand or fall together: every step of the manager, of     *)
(* Nav2 or of a death keeps them all.                                       *)
LEMMA Invariance ==
    Spec => [](OneGoal /\ PhaseMatchesGoal /\ CancelIsSent /\ DrivesToItsOwnTarget)
<1> DEFINE Parts == /\ OneGoal /\ PhaseMatchesGoal /\ CancelIsSent /\ DrivesToItsOwnTarget
                    /\ HandleMatches /\ AnswersMatch
<1>1. Init => Parts
  BY NoneAssumption DEF Init, OneGoal, PhaseMatchesGoal, CancelIsSent, DrivesToItsOwnTarget,
     HandleMatches, AnswersMatch, Owned, Executing, Free
<1>2. TypeOK /\ TypeOK' /\ Parts /\ [Next]_vars => Parts'
  <2> SUFFICES ASSUME TypeOK, TypeOK', Parts, [Next]_vars PROVE Parts'
    OBVIOUS
  <2> USE NoneAssumption DEF OneGoal, PhaseMatchesGoal, CancelIsSent, DrivesToItsOwnTarget,
          HandleMatches, AnswersMatch, Owned, Executing, logic, TypeOK, Goals
  <2>1. ASSUME NEW m \in Targets, Target(m) PROVE Parts'
    BY <2>1 DEF Target, Forwards
  <2>2. ASSUME NEW m \in Modes, SetMode(m) PROVE Parts'
    BY <2>2 DEF SetMode
  <2>3. ASSUME NEW s \in Slots, TickSend(s) PROVE Parts'
    BY <2>3 DEF TickSend, MustSend, Request
  <2>4. CASE TickCancel
    BY <2>4 DEF TickCancel, MustCancel
  <2>5. CASE TickNothing
    BY <2>5 DEF TickNothing
  <2>6. ASSUME NEW s \in Slots, GoalRejected(s) PROVE Parts'
    BY <2>6 DEF GoalRejected, Finished, Free
  <2>7. ASSUME NEW s \in Slots, GoalAccepted(s) PROVE Parts'
    \* s is the one goal of this node, and it becomes its handle.
    <3>1. Owned(s) /\ goal = "sending" /\ \A t \in Slots : Owned(t) => t = s
      BY <2>7 DEF GoalAccepted, Ended
    <3>2. /\ \A t \in Slots : t # s => srv'[t] = srv[t]
          /\ srv'[s].client = "told"
          /\ srv'[s].mode = srv[s].mode
          /\ srv'[s].dest = srv[s].dest
          /\ srv'[s].status \in Ended \cup {"executing", "lost"}
          /\ srv'[s].status = "executing" => srv[s].status = "executing"
      BY <2>7 DEF GoalAccepted, Told, Ended
    <3>3. goal' = "active" /\ goalMode' = goalMode /\ handle' = s
      BY <2>7, <3>1 DEF GoalAccepted
    <3>4. \A t \in Slots : (Owned(t))' <=> t = s
      BY <3>1, <3>2 DEF Ended
    <3>5. OneGoal' /\ PhaseMatchesGoal' /\ CancelIsSent' /\ HandleMatches'
      BY <3>1, <3>2, <3>3, <3>4
    <3>6. DrivesToItsOwnTarget'
      BY <3>1, <3>2, <3>4
    <3>7. AnswersMatch'
      BY <3>2 DEF Ended
    <3> QED
      BY <3>5, <3>6, <3>7
  <2>8. ASSUME NEW s \in Slots, GoalDone(s) PROVE Parts'
    BY <2>8 DEF GoalDone, Finished, Free, Ended
  <2>9. CASE ManagerRestart
    <3>1. \A s \in Slots :
            /\ srv'[s].status = "free" \/ srv'[s].client = "gone"
            /\ srv'[s].status \in {"free", "requested", "executing"}
            /\ srv'[s].status = "requested" =>
                 /\ srv[s].status = "requested" /\ srv'[s].client # "told"
                 /\ srv'[s].dest = srv[s].dest /\ srv'[s].mode = srv[s].mode
      <4>1. \A s \in Slots : srv'[s] = Abandoned(srv[s])
        BY <2>9 DEF ManagerRestart
      <4>2. \A g \in Goals : LET h == Abandoned(g) IN
              /\ h.status = "free" \/ h.client = "gone"
              /\ h.status \in {"free", "requested", "executing"}
              /\ h.status = "requested" =>
                   /\ g.status = "requested" /\ h.client # "told"
                   /\ h.dest = g.dest /\ h.mode = g.mode
        BY DEF Abandoned, Free
      <4> QED
        BY <4>1, <4>2
    <3>2. \A s \in Slots : ~(Owned(s))'
      BY <3>1
    <3>3. goal' = "idle" /\ goalMode' = None /\ handle' = None
      BY <2>9 DEF ManagerRestart
    <3>4. OneGoal' /\ PhaseMatchesGoal' /\ CancelIsSent' /\ DrivesToItsOwnTarget' /\ HandleMatches'
      BY <3>2, <3>3
    <3>5. AnswersMatch'
      BY <3>1
    <3> QED
      BY <3>4, <3>5
  <2>10. CASE TimePasses
    BY <2>10 DEF TimePasses
  <2>11. ASSUME NEW s \in Slots, Nav2Accept(s) PROVE Parts'
    BY <2>11 DEF Nav2Accept, EndAs, Free
  <2>12. ASSUME NEW s \in Slots, Nav2Reject(s) PROVE Parts'
    BY <2>12 DEF Nav2Reject, EndAs, Free
  <2>13. ASSUME NEW s \in Slots, Nav2Cancel(s) PROVE Parts'
    BY <2>13 DEF Nav2Cancel, EndAs, Free
  <2>14. ASSUME NEW s \in Slots, Nav2End(s) PROVE Parts'
    BY <2>14 DEF Nav2End, EndAs, Free
  <2>15. CASE Nav2Dies
    BY <2>15 DEF Nav2Dies, AfterDeath, Free
  <2>16. CASE Nav2Starts \/ Discover
    BY <2>16 DEF Nav2Starts, Discover
  <2>17. CASE UNCHANGED vars
    BY <2>17 DEF vars
  <2> QED
    BY <2>1, <2>2, <2>3, <2>4, <2>5, <2>6, <2>7, <2>8, <2>9, <2>10, <2>11, <2>12,
       <2>13, <2>14, <2>15, <2>16, <2>17 DEF Next, Manager, Nav2
<1> QED
  BY <1>1, <1>2, TypeCorrect, PTL DEF Spec

(* At most one goal of this node is on its way, whichever answers of which  *)
(* server are lost, late or never given.                                    *)
THEOREM OneGoalCorrect == Spec => []OneGoal
BY Invariance, PTL

(* The phase, mode and handle that MissionLogic keeps are those of the goal *)
(* that Nav2 and the action client have.                                    *)
THEOREM PhaseCorrect == Spec => []PhaseMatchesGoal
BY Invariance, PTL

(* Each cancel that MissionLogic decides on is really sent: the handle is   *)
(* there whenever step says cancel.                                         *)
THEOREM CancelCorrect == Spec => []CancelIsSent
BY Invariance, PTL

(* goal_update never moves a goal to the target of another mode.            *)
THEOREM OwnTargetCorrect == Spec => []DrivesToItsOwnTarget
BY Invariance, PTL

(* The robot drives to the target of the goal, if Nav2 is executing it:     *)
(* there is only one, and it was not moved to another target.               *)
LEMMA DrivenIsGoalMode ==
    /\ OneGoal /\ PhaseMatchesGoal /\ DrivesToItsOwnTarget
    => /\ (\E s \in Slots : Driving(s)) => driven = goalMode /\ goal # "idle"
       /\ ~(\E s \in Slots : Driving(s)) => driven = None
<1> SUFFICES ASSUME OneGoal, PhaseMatchesGoal, DrivesToItsOwnTarget
             PROVE  /\ (\E s \in Slots : Driving(s)) => driven = goalMode /\ goal # "idle"
                    /\ ~(\E s \in Slots : Driving(s)) => driven = None
  OBVIOUS
<1>1. ASSUME NEW s \in Slots, Driving(s) PROVE driven = goalMode /\ goal # "idle"
  <2>1. \A t \in Slots : Driving(t) <=> t = s
    BY <1>1 DEF OneGoal, Driving
  <2>2. (CHOOSE t \in Slots : Driving(t)) = s
    BY <2>1
  <2> QED
    BY <1>1, <2>2 DEF driven, Driving, PhaseMatchesGoal, DrivesToItsOwnTarget
<1>2. ~(\E s \in Slots : Driving(s)) => driven = None
  BY DEF driven
<1> QED
  BY <1>1, <1>2

(* The mission manager and Nav2 implement Pursuit: one target at a time,    *)
(* committed to while fresh, and a stop between two of them.                *)
THEOREM Implements == Spec => ImplementsPursuit
<1> DEFINE I == OneGoal /\ PhaseMatchesGoal /\ DrivesToItsOwnTarget
           freshSet == {m \in Targets : Fresh(m)}
           driving == \E s \in Slots : Driving(s)
<1> USE NoneAssumption
<1>1. Init => Promise!Init
  <2> SUFFICES ASSUME Init PROVE Promise!Init
    OBVIOUS
  <2>1. \A m \in Targets : ~Fresh(m)
    BY StaleAfterAssumption DEF Init, Fresh, Stale
  <2>2. ~driving
    BY DEF Init, Driving, Owned, Free
  <2> QED
    BY <2>1, <2>2 DEF Init, Promise!Init, driven, Modes
<1>2. TypeOK /\ I /\ I' /\ [Next]_vars => [Promise!Next]_Promise!vars
  <2> SUFFICES ASSUME TypeOK, I, I', [Next]_vars PROVE [Promise!Next]_Promise!vars
    OBVIOUS
  <2>1. (driving => driven = goalMode /\ goal # "idle") /\ (~driving => driven = None)
    BY DrivenIsGoalMode
  <2>2. (driving' => driven' = goalMode' /\ goal' # "idle") /\ (~driving' => driven' = None)
    <3>1. (/\ OneGoal /\ PhaseMatchesGoal /\ DrivesToItsOwnTarget
           => /\ (\E s \in Slots : Driving(s)) => driven = goalMode /\ goal # "idle"
              /\ ~(\E s \in Slots : Driving(s)) => driven = None)'
      BY DrivenIsGoalMode, PTL
    <3> QED
      BY <3>1
  <2>3. ASSUME UNCHANGED <<mode, goalMode, age>> PROVE [Promise!Next]_Promise!vars
    \* Whatever happens to the goal then, the robot starts driving, stops or neither.
    <3>1. freshSet' = freshSet
      BY <2>3 DEF Fresh
    <3>2. driven' = driven \/ driven' = None \/ (driven = None /\ driven' = goalMode)
      BY <2>1, <2>2, <2>3
    <3>3. driven' # None => goalMode # None
      BY <2>2, <2>3 DEF PhaseMatchesGoal
    <3>4. CASE driven' = driven
      BY <2>3, <3>1, <3>4 DEF Promise!vars
    <3>5. CASE driven' = None
      BY <2>3, <3>1, <3>5 DEF Promise!Next, Promise!Halt
    <3>6. CASE driven = None /\ driven' = goalMode /\ driven' # None
      BY <2>3, <3>1, <3>3, <3>6 DEF Promise!Next, Promise!Drive
    <3> QED
      BY <3>2, <3>4, <3>5, <3>6
  <2>4. ASSUME NEW m \in Targets, Target(m) PROVE Promise!Hear
    <3>1. freshSet' = freshSet \cup {m}
      <4>1. \A n \in Targets : age'[n] = IF n = m THEN 0 ELSE age[n]
        BY <2>4 DEF Target, TypeOK
      <4>2. \A n \in Targets : Fresh(n)' <=> n = m \/ Fresh(n)
        BY <4>1, StaleAfterAssumption DEF Fresh
      <4> QED
        BY <4>2
    <3>2. driving' = driving /\ goalMode' = goalMode
      BY <2>4 DEF Target, Driving, Owned, Executing, TypeOK, Goals
    <3>3. driven' = driven
      BY <2>1, <2>2, <3>2
    <3> QED
      BY <2>4, <3>1, <3>3 DEF Target, Promise!Hear
  <2>5. ASSUME NEW m \in Modes, SetMode(m) PROVE Promise!Select
    <3>1. freshSet' = freshSet /\ driving' = driving /\ goalMode' = goalMode
      BY <2>5 DEF SetMode, Fresh, Driving, Owned, Executing
    <3>2. driven' = driven
      BY <2>1, <2>2, <3>1
    <3> QED
      BY <2>5, <3>1, <3>2 DEF SetMode, Modes, Promise!Select
  <2>6. ASSUME NEW s \in Slots, TickSend(s) PROVE Promise!Commit
    <3>1. freshSet' = freshSet
      BY <2>6 DEF TickSend, Fresh
    <3>2. goal = "idle" /\ goalMode = None /\ mode \in freshSet /\ goalMode' = mode
      BY <2>6 DEF TickSend, MustSend, PhaseMatchesGoal, TypeOK, Modes
    <3>3. ~driving
      BY <2>1, <3>2
    <3>4. ~driving'
      BY <2>6, <3>2 DEF TickSend, MustSend, Request, Driving, Owned, Executing, PhaseMatchesGoal,
         TypeOK, Goals
    <3> QED
      BY <2>1, <2>2, <2>6, <3>1, <3>2, <3>3, <3>4 DEF TickSend, Promise!Commit
  <2>7. ASSUME NEW s \in Slots, GoalRejected(s) \/ GoalDone(s) PROVE Promise!Release
    <3>1. UNCHANGED <<mode, freshSet>> /\ goal' = "idle" /\ goalMode' = None
      BY <2>7 DEF GoalRejected, GoalDone, Finished, Fresh
    <3>2. \A t \in Slots : Owned(t) => t = s
      BY <2>7 DEF OneGoal, Owned, GoalRejected, GoalDone, Ended
    <3>3. ~driving
      BY <2>7, <3>2 DEF Driving, Executing, GoalRejected, GoalDone, Ended
    <3>4. ~driving'
      BY <2>2, <3>1
    <3> QED
      BY <2>1, <2>2, <3>1, <3>3, <3>4 DEF Promise!Release
  <2>8. CASE ManagerRestart
    <3>1. \A m \in Targets : ~Fresh(m)'
      BY <2>8, StaleAfterAssumption DEF ManagerRestart, Fresh, Stale
    <3>2. mode' \in Targets \cup {"idle"} /\ goal' = "idle" /\ goalMode' = None
      BY <2>8 DEF ManagerRestart, Modes
    <3>3. driven' = None
      BY <2>2, <3>2
    <3> QED
      BY <3>1, <3>2, <3>3 DEF Promise!Next, Promise!Restart
  <2>9. CASE TimePasses
    <3>1. freshSet' \in SUBSET freshSet
      BY <2>9, StaleAfterAssumption DEF TimePasses, Fresh, TypeOK
    <3>2. driving' = driving /\ goalMode' = goalMode
      BY <2>9 DEF TimePasses, Driving, Owned, Executing
    <3>3. driven' = driven
      BY <2>1, <2>2, <3>2
    <3> QED
      BY <2>9, <3>1, <3>3 DEF TimePasses, Promise!Next, Promise!Forget
  <2>10. CASE \/ TickCancel \/ TickNothing
              \/ \E s \in Slots : GoalAccepted(s)
              \/ Nav2 \/ Discover \/ UNCHANGED vars
    BY <2>3, <2>10 DEF TickCancel, TickNothing, GoalAccepted, Nav2, Nav2Accept, Nav2Reject,
       Nav2Cancel, Nav2End, Nav2Dies, Nav2Starts, Discover, vars, logic
  <2> QED
    BY <2>4, <2>5, <2>6, <2>7, <2>8, <2>9, <2>10 DEF Next, Manager, Promise!Next
<1> QED
  BY <1>1, <1>2, TypeCorrect, Invariance, PTL DEF Spec, ImplementsPursuit, Promise!Spec
=============================================================================

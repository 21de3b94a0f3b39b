------------------------- MODULE MeshBridge_proofs -------------------------
(***************************************************************************)
(* The safety of meshtastic_bridge for every max_home_age,                 *)
(* status_min_interval and period of the reconnection, with any number of  *)
(* interfaces, through lost connections, late reports of them and          *)
(* restarts.                                                               *)
(***************************************************************************)
EXTENDS MeshBridge, TLAPS

(* An interface that has been constructed and is not yet assigned has its   *)
(* connection, or its loss is still to be reported, or was reported early;  *)
(* and until the port is open the bridge holds nothing.                     *)
MadeIsNoticed ==
    /\ step = "assigning" => made \in alive \cup due \cup missed
    /\ step \in {"opening", "assigning"} => iface = NoInterface
NoticeInv == MadeIsNoticed /\ DeadIsNoticed

(* The ages that the bridge keeps, against what really happened.            *)
AgesAreReal == homeAge = silence /\ statusAge <= sentAge
AgesInv == AgesAreReal /\ HomeIsReal /\ HomeKeepsComing /\ StatusSpaced

(* A saturated age stays in its range, and keeps the order of two ages.     *)
LEMMA OlderTyped ==
    ASSUME NEW limit \in Nat, NEW age \in 0 .. limit
    PROVE  /\ Older(age, limit) \in 0 .. limit
           /\ Older(age, limit) >= age
           /\ age < limit => Older(age, limit) = age + 1
           /\ \A other \in 0 .. limit : age <= other => Older(age, limit) <= Older(other, limit)
BY DEF Older

LEMMA ConnectAgeTyped ==
    ASSUME NEW age \in 0 .. ConnectPeriod - 1
    PROVE  (age + 1) % ConnectPeriod \in 0 .. ConnectPeriod - 1
BY TimesAssumption

LEMMA ConnectAgeStarts == 0 \in 0 .. ConnectPeriod - 1
BY TimesAssumption

(* What the type invariant says of the ages and the rest of the state.      *)
AgesOK ==
    /\ homeAge \in 0 .. MaxHomeAge + 1 /\ silence \in 0 .. MaxHomeAge + 1 /\ fixAge \in 0 .. 2
    /\ statusAge \in 0 .. StatusInterval /\ sentAge \in 0 .. StatusInterval
RestOK ==
    /\ iface \in Interfaces \cup {NoInterface} /\ made \in Interfaces
    /\ subscribed \in BOOLEAN /\ plugged \in BOOLEAN
    /\ republishDue \in BOOLEAN /\ connectDue \in BOOLEAN
    /\ step \in Steps /\ connectAge \in 0 .. ConnectPeriod - 1
    /\ alive \subseteq Interfaces /\ due \subseteq Interfaces /\ missed \subseteq Interfaces

LEMMA TypeParts == TypeOK <=> AgesOK /\ RestOK
BY DEF TypeOK, AgesOK, RestOK

(***************************************************************************)
(* The type invariant.                                                     *)
(***************************************************************************)
LEMMA InitTyped == Init => TypeOK
<1>1. Init => AgesOK
  BY TimesAssumption DEF Init, Started, AgesOK
<1>2. Init => RestOK
  BY ConnectAgeStarts DEF Init, Started, RestOK, Steps
<1> QED
  BY <1>1, <1>2, TypeParts

LEMMA TypeStep ==
    ASSUME TypeOK, [Next]_vars
    PROVE  TypeOK'
<1> USE DEF vars, executor, library, home, status
<1>0. AgesOK /\ RestOK
  BY TypeParts
<1>1. AgesOK'
  <2>1. CASE TimePasses
    <3>1. MaxHomeAge + 1 \in Nat /\ StatusInterval \in Nat /\ 2 \in Nat
      BY TimesAssumption
    <3> QED
      BY <1>0, <2>1, <3>1, OlderTyped DEF TimePasses, AgesOK
  <2>2. CASE RepublishHome
    BY <1>0, <2>2, TimesAssumption DEF RepublishHome, Republish, AgesOK
  <2>3. CASE \E returns \in BOOLEAN : SendText(returns)
    BY <1>0, <2>3, TimesAssumption DEF SendText, AgesOK
  <2>4. CASE Restart \/ \E packet \in Packets : OnReceive(packet)
    BY <1>0, <2>4, TimesAssumption DEF Restart, OnReceive, AgesOK
  <2>5. CASE UNCHANGED <<home, status>>
    BY <1>0, <2>5 DEF AgesOK
  <2> QED
    BY <2>1, <2>2, <2>3, <2>4, <2>5 DEF Next, EnsureConnected, Opens, OpenFails, Assign, Subscribe,
       OnLost, StatusCb, Plug, Unplug, Drop
<1>2. RestOK'
  <2>1. CASE TimePasses
    <3>1. connectAge' \in 0 .. ConnectPeriod - 1
      BY <1>0, <2>1, ConnectAgeTyped DEF TimePasses, RestOK
    <3>2. connectDue' \in BOOLEAN /\ republishDue' \in BOOLEAN
      BY <1>0, <2>1 DEF TimePasses, RestOK
    <3> QED
      BY <1>0, <2>1, <3>1, <3>2 DEF TimePasses, RestOK
  <2>2. CASE EnsureConnected \/ Assign \/ Subscribe \/ RepublishHome \/ StatusCb
    BY <1>0, <2>2 DEF EnsureConnected, Assign, Subscribe, RepublishHome, StatusCb, RestOK, Steps
  <2>3. ASSUME NEW i \in Interfaces, Opens(i) \/ OnLost(i) \/ Drop(i) PROVE RestOK'
    BY <1>0, <2>3 DEF Opens, OnLost, Held, Drop, RestOK, Steps
  <2>4. ASSUME NEW leftovers \in SUBSET Interfaces, OpenFails(leftovers) PROVE RestOK'
    BY <1>0, <2>4 DEF OpenFails, RestOK, Steps
  <2>5. CASE \E returns \in BOOLEAN : SendText(returns)
    BY <1>0, <2>5 DEF SendText, RestOK, Steps
  <2>6. CASE Restart
    BY <1>0, <2>6, ConnectAgeStarts DEF Restart, RestOK, Steps
  <2>7. CASE Plug \/ Unplug \/ \E packet \in Packets : OnReceive(packet)
    BY <1>0, <2>7 DEF Plug, Unplug, OnReceive, RestOK
  <2>8. CASE UNCHANGED vars
    BY <1>0, <2>8 DEF RestOK
  <2> QED
    BY <2>1, <2>2, <2>3, <2>4, <2>5, <2>6, <2>7, <2>8 DEF Next
<1> QED
  BY <1>1, <1>2, TypeParts DEF TypeOK, AgesOK, RestOK

(* The type invariant.                                                      *)
THEOREM TypeCorrect == Spec => []TypeOK
<1>1. TypeOK /\ [Next]_vars => TypeOK'
  BY TypeStep
<1> QED
  BY InitTyped, <1>1, PTL DEF Spec

(***************************************************************************)
(* The two threads: a loss that is reported between any two steps of the   *)
(* executor, also for an interface that is replaced or not assigned yet.   *)
(***************************************************************************)
LEMMA NoticeStep ==
    ASSUME TypeOK, NoticeInv, [Next]_vars
    PROVE  NoticeInv'
<1> USE DEF NoticeInv, MadeIsNoticed, DeadIsNoticed, vars, executor, library
<1>1. ASSUME NEW i \in Interfaces, Opens(i) PROVE NoticeInv'
  BY <1>1 DEF Opens
<1>2. ASSUME NEW i \in Interfaces, OnLost(i) PROVE NoticeInv'
  BY <1>2 DEF OnLost, Held, Assigning
<1>3. ASSUME NEW i \in Interfaces, Drop(i) PROVE NoticeInv'
  BY <1>3 DEF Drop
<1>4. ASSUME NEW leftovers \in SUBSET Interfaces, OpenFails(leftovers) PROVE NoticeInv'
  BY <1>4 DEF OpenFails
<1>5. CASE Assign \/ Subscribe
  BY <1>5 DEF Assign, Subscribe
<1>6. CASE EnsureConnected \/ RepublishHome \/ StatusCb
  BY <1>6 DEF EnsureConnected, RepublishHome, StatusCb
<1>7. CASE \E returns \in BOOLEAN : SendText(returns)
  BY <1>7 DEF SendText
<1>8. CASE Restart
  BY <1>8 DEF Restart
<1>9. CASE Plug \/ Unplug \/ TimePasses \/ \E packet \in Packets : OnReceive(packet)
  BY <1>9 DEF Plug, Unplug, TimePasses, OnReceive
<1>10. CASE UNCHANGED vars
  BY <1>10
<1> QED
  BY <1>1, <1>2, <1>3, <1>4, <1>5, <1>6, <1>7, <1>8, <1>9, <1>10 DEF Next

(* A lost connection that the bridge still holds will be dropped, unless    *)
(* its loss was reported before the bridge could notice.                    *)
THEOREM DeadCorrect == Spec => []DeadIsNoticed
<1>1. Init => NoticeInv
  BY DEF Init, Started, NoticeInv, MadeIsNoticed, DeadIsNoticed
<1>2. TypeOK /\ NoticeInv /\ [Next]_vars => NoticeInv'
  BY NoticeStep
<1>3. NoticeInv => DeadIsNoticed
  BY DEF NoticeInv
<1> QED
  BY <1>1, <1>2, <1>3, TypeCorrect, PTL DEF Spec

(***************************************************************************)
(* The ages: the home position and the status.                             *)
(***************************************************************************)
LEMMA TimeKeepsAges ==
    ASSUME TypeOK, AgesInv, TimePasses
    PROVE  AgesInv'
<1>1. MaxHomeAge \in Nat /\ StatusInterval \in Nat
  BY TimesAssumption
<1>2. /\ homeAge \in 0 .. MaxHomeAge + 1 /\ silence = homeAge
      /\ statusAge \in 0 .. StatusInterval /\ sentAge \in 0 .. StatusInterval
      /\ statusAge <= sentAge /\ fixAge \in 0 .. 2
  BY DEF TypeOK, AgesInv, AgesAreReal
<1>3. homeAge' = silence'
  BY <1>2 DEF TimePasses
<1>4. statusAge' <= sentAge'
  BY <1>1, <1>2, OlderTyped DEF TimePasses
<1>5. fixAge' # 0
  BY <1>2, OlderTyped DEF TimePasses, Older
<1>6. republishDue' = TRUE /\ step' = step
  BY DEF TimePasses
<1>7. step # "sending"
  BY DEF TimePasses
<1> QED
  BY <1>3, <1>4, <1>5, <1>6, <1>7
     DEF AgesInv, AgesAreReal, HomeIsReal, HomeKeepsComing, StatusSpaced

LEMMA AgesStep ==
    ASSUME TypeOK, AgesInv, [Next]_vars
    PROVE  AgesInv'
<1> USE TimesAssumption DEF AgesInv, AgesAreReal, HomeIsReal, HomeKeepsComing, StatusSpaced,
        vars, executor, home, status
<1>0. AgesOK
  BY TypeParts
<1>1. CASE TimePasses
  BY <1>1, TimeKeepsAges
<1>2. CASE RepublishHome
  BY <1>0, <1>2 DEF RepublishHome, Republish, AgesOK
<1>3. CASE \E packet \in Packets : OnReceive(packet)
  BY <1>0, <1>3 DEF OnReceive, AgesOK
<1>4. CASE StatusCb
  BY <1>0, <1>4 DEF StatusCb, MaySend, AgesOK
<1>5. CASE \E returns \in BOOLEAN : SendText(returns)
  BY <1>0, <1>5 DEF SendText, AgesOK
<1>6. CASE Restart
  BY <1>6 DEF Restart
<1>7. CASE UNCHANGED <<home, status, republishDue>> /\ step' # "sending"
  BY <1>7
<1>8. CASE UNCHANGED <<home, status, republishDue, step>>
  BY <1>8
<1>9. CASE EnsureConnected \/ Assign \/ Subscribe
  BY <1>7, <1>9 DEF EnsureConnected, Assign, Subscribe
<1>10. ASSUME NEW i \in Interfaces, Opens(i) \/ OnLost(i) \/ Drop(i) PROVE AgesInv'
  BY <1>7, <1>8, <1>10 DEF Opens, OnLost, Drop
<1>11. CASE \E leftovers \in SUBSET Interfaces : OpenFails(leftovers)
  BY <1>7, <1>11 DEF OpenFails
<1>12. CASE Plug \/ Unplug \/ UNCHANGED vars
  BY <1>8, <1>12 DEF Plug, Unplug
<1> QED
  BY <1>1, <1>2, <1>3, <1>4, <1>5, <1>6, <1>9, <1>10, <1>11, <1>12 DEF Next

LEMMA AgesCorrect == Spec => []AgesInv
<1>1. Init => AgesInv
  BY TimesAssumption
     DEF Init, Started, AgesInv, AgesAreReal, HomeIsReal, HomeKeepsComing, StatusSpaced
<1>2. TypeOK /\ AgesInv /\ [Next]_vars => AgesInv'
  BY AgesStep
<1> QED
  BY <1>1, <1>2, TypeCorrect, PTL DEF Spec

(* What is on /home/fix with a fresh stamp was reported by the home station *)
(* within max_home_age, and a position that young is published in every     *)
(* period in which the executor gets round to its timers.                   *)
THEOREM HomeCorrect == Spec => []HomeFollowsReports
<1>1. AgesInv => HomeFollowsReports
  BY DEF AgesInv, HomeFollowsReports
<1> QED
  BY <1>1, AgesCorrect, PTL

(* Statuses that really go out are status_min_interval apart.               *)
THEOREM StatusCorrect == Spec => []StatusSpaced
<1>1. AgesInv => StatusSpaced
  BY DEF AgesInv
<1> QED
  BY <1>1, AgesCorrect, PTL
=============================================================================

-------------------------- MODULE GoalPose_proofs --------------------------
(***************************************************************************)
(* The safety of the GPS conversion for every max_fix_age and              *)
(* request_timeout and any number of slots: requests do not meddle with    *)
(* each other, what is published is the newest fix, and no fix is lost.    *)
(***************************************************************************)
EXTENDS GoalPose, TLAPS

(* An age stays within its limit when it grows.                             *)
LEMMA AgedTyped ==
    ASSUME NEW limit \in Nat, NEW age \in 0 .. limit + 1
    PROVE  Aged(age, limit) \in 0 .. limit + 1
BY DEF Aged

(* The type invariant, step by step ...                                     *)
LEMMA TypeStep == TypeOK /\ [Next]_vars => TypeOK'
<1> SUFFICES ASSUME TypeOK, [Next]_vars PROVE TypeOK'
  OBVIOUS
<1> USE MaxAgeAssumption, RequestTimeoutAssumption
<1>1. Free \in Conversions /\ MaxAge + 1 \in Ages
  BY DEF Free, Conversions, Ages
<1>2. ASSUME NEW age \in Ages, Fix(age) PROVE TypeOK'
  <2>1. conv' \in [Slots -> Conversions]
    BY <1>2 DEF Fix, TypeOK, Conversions
  <2>2. disturbed' \in BOOLEAN
    BY <1>2 DEF Fix
  <2>3. waits' \in 0 .. LongestWait + 1
    BY <1>2 DEF Fix, LongestWait
  <2> QED
    BY <1>2, <2>1, <2>2, <2>3 DEF Fix, TypeOK
<1>3. ASSUME NEW age \in Ages, Odometry(age) PROVE TypeOK'
  BY <1>3 DEF Odometry, Disturb, TypeOK
<1>4. CASE TickPending
  <2>1. conv' \in [Slots -> Conversions]
    BY <1>1, <1>4 DEF TickPending, GiveUp, TypeOK
  <2> QED
    BY <1>4, <2>1 DEF TickPending, TypeOK
<1>5. ASSUME NEW s \in Slots, TickSend(s) PROVE TypeOK'
  <2>1. [status |-> "asked", age |-> fixAge, current |-> TRUE] \in Conversions
    BY DEF TypeOK, Conversions
  <2>2. conv' \in [Slots -> Conversions]
    BY <1>5, <2>1 DEF TickSend, TypeOK
  <2>3. requestAge' \in 0 .. RequestTimeout + 1
    BY <1>5 DEF TickSend
  <2> QED
    BY <1>5, <2>2, <2>3, Zenon DEF TickSend, TypeOK
<1>6. CASE TickNothing
  BY <1>6 DEF TickNothing, TypeOK
<1>7. ASSUME NEW s \in Slots, NEW finite \in BOOLEAN, Response(s, finite) PROVE TypeOK'
  <2>1. conv' \in [Slots -> Conversions]
    BY <1>1, <1>7 DEF Response, TypeOK
  <2>2. target' \in Ages /\ published' \in BOOLEAN
    BY <1>7 DEF Response, TypeOK, Conversions
  <2> QED
    BY <1>7, <2>1, <2>2 DEF Response, TypeOK
<1>8. ASSUME NEW state \in {"prompt", "slow", "gone"}, Navsat(state) PROVE TypeOK'
  <2>1. conv' \in [Slots -> Conversions]
    BY <1>8 DEF Navsat, TypeOK, Conversions
  <2> QED
    BY <1>8, <2>1 DEF Navsat, Disturb, TypeOK
<1>9. CASE TimePasses
  <2>1. /\ fixAge' \in Ages /\ gpsAge' \in Ages /\ target' \in Ages
        /\ requestAge' \in 0 .. RequestTimeout + 1 /\ waits' \in 0 .. LongestWait + 1
    BY <1>9, AgedTyped DEF TimePasses, TypeOK, Ages, LongestWait
  <2>2. \A s \in Slots : Aged(conv[s].age, MaxAge) \in Ages
    BY AgedTyped DEF TypeOK, Conversions, Ages
  <2>3. conv' \in [Slots -> Conversions]
    BY <1>9, <2>2 DEF TimePasses, TypeOK, Conversions
  <2> QED
    BY <1>9, <2>1, <2>3 DEF TimePasses, Disturb, TypeOK
<1>10. CASE UNCHANGED vars
  BY <1>10 DEF vars, TypeOK
<1> QED
  BY <1>2, <1>3, <1>4, <1>5, <1>6, <1>7, <1>8, <1>9, <1>10 DEF Next

LEMMA TypeInit == Init => TypeOK
<1>1. Free \in Conversions /\ MaxAge + 1 \in Ages
  BY MaxAgeAssumption DEF Free, Conversions, Ages
<1>2. RequestTimeout + 1 \in 0 .. RequestTimeout + 1 /\ 0 \in 0 .. LongestWait + 1
  BY RequestTimeoutAssumption DEF LongestWait
<1>3. Init => conv \in [Slots -> Conversions]
  BY <1>1 DEF Init
<1> QED
  BY <1>1, <1>2, <1>3, Zenon DEF Init, TypeOK

(* ... and as a theorem: ages stay within their timeouts and every          *)
(* conversion is one that tick asked for.                                   *)
THEOREM TypeCorrect == Spec => []TypeOK
BY TypeInit, TypeStep, PTL DEF Spec

(* A fix that arrives takes the current mark from every conversion.         *)
LEMMA FixUncurrent ==
    ASSUME TypeOK, NEW age \in Ages, Fix(age)
    PROVE  \A s \in Slots :
             ~conv'[s].current /\ conv'[s].status = conv[s].status /\ (Called(s)' <=> Called(s))
BY DEF Fix, TypeOK, Conversions, Called

(* Time changes nothing of a conversion but its age.                        *)
LEMMA TimeAges ==
    ASSUME TypeOK, TimePasses
    PROVE  \A s \in Slots :
             /\ conv'[s].status = conv[s].status /\ conv'[s].current = conv[s].current
             /\ conv'[s].age = Aged(conv[s].age, MaxAge)
             /\ Called(s)' <=> Called(s)
BY DEF TimePasses, TypeOK, Conversions, Called

(* So does the death of navsat: what it was asked stays called.             *)
LEMMA NavsatKeeps ==
    ASSUME TypeOK, NEW state \in {"prompt", "slow", "gone"}, Navsat(state)
    PROVE  \A s \in Slots :
             /\ conv'[s].current = conv[s].current /\ conv'[s].age = conv[s].age
             /\ Called(s)' <=> Called(s)
BY DEF Navsat, TypeOK, Conversions, Called

LEMMA InvInit == Init => IInv
<1> SUFFICES ASSUME Init PROVE IInv
  OBVIOUS
<1>1. \A s \in Slots : ~Called(s) /\ ~conv[s].current
  BY DEF Init, Called, Free
<1>2. OneConversion /\ CurrentMatches
  BY <1>1 DEF Init, OneConversion, CurrentMatches
<1> QED
  BY <1>2, TypeInit DEF Init, IInv, BlockedBriefly, TargetIsNewest, FixInHand

(* One step keeps the inductive invariant, action by action.                *)
LEMMA InvStep == IInv /\ [Next]_vars => IInv'
<1> SUFFICES ASSUME IInv, [Next]_vars PROVE IInv'
  OBVIOUS
<1> USE MaxAgeAssumption, RequestTimeoutAssumption
<1>0. TypeOK /\ TypeOK'
  BY TypeStep DEF IInv
<1>1. ASSUME NEW age \in Ages, Fix(age) PROVE IInv'
  <2>1. OneConversion' /\ CurrentMatches'
    BY <1>0, <1>1, FixUncurrent DEF IInv, OneConversion, CurrentMatches, Fix, TypeOK
  <2>2. BlockedBriefly' /\ TargetIsNewest'
    BY <1>1 DEF IInv, BlockedBriefly, TargetIsNewest, Fix
  <2>3. FixInHand'
    <3>1. requestAge' \in Nat
      BY <1>0 DEF TypeOK
    <3>2. waits' = 0 /\ ~sent' /\ (~disturbed' => InOrder')
      BY <1>1, Zenon DEF Fix
    <3> QED
      BY <3>1, <3>2 DEF FixInHand, LongestWait
  <2> QED
    BY <1>0, <2>1, <2>2, <2>3 DEF IInv
<1>2. ASSUME NEW age \in Ages, Odometry(age) PROVE IInv'
  <2>1. OneConversion' /\ CurrentMatches' /\ BlockedBriefly' /\ TargetIsNewest'
    BY <1>2 DEF IInv, OneConversion, CurrentMatches, BlockedBriefly, TargetIsNewest, Called,
                Odometry
  <2>2. FixInHand'
    BY <1>2 DEF IInv, FixInHand, Odometry, Disturb, LongestWait
  <2> QED
    BY <1>0, <2>1, <2>2 DEF IInv
<1>3. CASE TickPending
  <2>1. CASE TimedOut
    <3>1. \A s \in Slots : ~Called(s)' /\ ~conv'[s].current
      BY <1>0, <1>3, <2>1 DEF IInv, OneConversion, CurrentMatches, TickPending, GiveUp, Called,
                              Free, TypeOK
    <3>2. OneConversion' /\ CurrentMatches'
      BY <1>0, <1>3, <2>1, <3>1 DEF OneConversion, CurrentMatches, TickPending, TypeOK
    <3>3. BlockedBriefly' /\ TargetIsNewest'
      BY <1>3, <2>1 DEF IInv, BlockedBriefly, TargetIsNewest, TickPending
    <3>4. FixInHand'
      \* a request that has timed out is not the newest fix's: that is asked in
      \* the period in which it is answered
      <4>1. ~disturbed /\ ~published => ~sent
        BY <1>0, <2>1 DEF IInv, FixInHand, TimedOut, TypeOK
      <4>2. requestAge <= RequestTimeout + 1
        BY <1>0 DEF TypeOK
      <4> QED
        BY <1>0, <1>3, <2>1, <4>1, <4>2 DEF IInv, FixInHand, TickPending, InOrder, LongestWait,
                                            TypeOK
    <3> QED
      BY <1>0, <3>2, <3>3, <3>4 DEF IInv
  <2>2. CASE ~TimedOut
    <3>1. OneConversion' /\ CurrentMatches' /\ TargetIsNewest'
      BY <1>3, <2>2 DEF IInv, OneConversion, CurrentMatches, TargetIsNewest, TickPending, Called
    <3>2. BlockedBriefly'
      BY <1>0, <1>3, <2>2 DEF BlockedBriefly, TickPending, TimedOut, TypeOK
    <3>3. FixInHand'
      BY <1>3, <2>2 DEF IInv, FixInHand, TickPending, InOrder, LongestWait
    <3> QED
      BY <1>0, <3>1, <3>2, <3>3 DEF IInv
  <2> QED
    BY <2>1, <2>2
<1>4. ASSUME NEW s \in Slots, TickSend(s) PROVE IInv'
  <2>1. conv'[s] = [status |-> "asked", age |-> fixAge, current |-> TRUE]
    BY <1>0, <1>4 DEF TickSend, TypeOK
  <2>2. \A t \in Slots \ {s} : ~Called(t)' /\ ~conv'[t].current
    BY <1>0, <1>4 DEF IInv, OneConversion, CurrentMatches, TickSend, Called, TypeOK
  <2>3. OneConversion'
    BY <1>4, <2>1, <2>2 DEF OneConversion, Called, TickSend
  <2>4. CurrentMatches'
    BY <1>4, <2>1, <2>2 DEF CurrentMatches, Called, TickSend
  <2>5. BlockedBriefly' /\ TargetIsNewest'
    BY <1>4 DEF IInv, BlockedBriefly, TargetIsNewest, TickSend
  <2>6. FixInHand'
    BY <1>4, <2>1 DEF IInv, FixInHand, TickSend, InOrder, LongestWait
  <2> QED
    BY <1>0, <2>3, <2>4, <2>5, <2>6 DEF IInv
<1>5. CASE TickNothing
  <2>1. OneConversion' /\ CurrentMatches' /\ BlockedBriefly' /\ TargetIsNewest'
    BY <1>5 DEF IInv, OneConversion, CurrentMatches, BlockedBriefly, TargetIsNewest, Called,
                TickNothing
  <2>2. FixInHand'
    \* with everything in order, tick would have sent
    <3>1. ~disturbed /\ ~published => sent
      BY <1>5 DEF IInv, FixInHand, TickNothing, MustSend, Ready, InOrder
    <3> QED
      BY <1>5, <3>1 DEF IInv, FixInHand, TickNothing, InOrder, LongestWait
  <2> QED
    BY <1>0, <2>1, <2>2 DEF IInv
<1>6. ASSUME NEW s \in Slots, NEW finite \in BOOLEAN, Response(s, finite) PROVE IInv'
  <2>1. s = requestId /\ pending
    BY <1>6 DEF IInv, OneConversion, Response, Called
  <2>2. \A t \in Slots : ~Called(t)' /\ ~conv'[t].current
    BY <1>0, <1>6, <2>1 DEF IInv, OneConversion, CurrentMatches, Response, Called, Free, TypeOK
  <2>3. OneConversion' /\ CurrentMatches'
    BY <1>0, <1>6, <2>2 DEF OneConversion, CurrentMatches, Response, TypeOK
  <2>4. BlockedBriefly'
    BY <1>6 DEF BlockedBriefly, Response
  <2>5. TargetIsNewest'
    <3>1. CASE Accepts(s) /\ finite
      <4>1. conv[s].age = fixAge
        BY <3>1 DEF IInv, CurrentMatches, Accepts
      <4> QED
        BY <1>6, <3>1, <4>1 DEF TargetIsNewest, Response
    <3>2. CASE ~(Accepts(s) /\ finite)
      BY <1>6, <3>2 DEF IInv, TargetIsNewest, Response
    <3> QED
      BY <3>1, <3>2
  <2>6. FixInHand'
    <3>1. CASE conv[s].current
      \* it is the newest fix's, asked for in this period: it is published
      <4>1. ~disturbed /\ ~published => InOrder /\ requestAge = 0
        BY <3>1 DEF IInv, FixInHand, CurrentMatches
      <4>2. ~disturbed /\ ~published => Accepts(s) /\ finite
        BY <1>6, <3>1, <4>1 DEF IInv, CurrentMatches, Accepts, Ready, InOrder, TimedOut, Response
      <4> QED
        BY <1>6, <4>2 DEF FixInHand, Response
    <3>2. CASE ~conv[s].current
      <4>1. ~disturbed /\ ~published => ~sent
        BY <2>1, <3>2 DEF IInv, FixInHand
      <4>2. published' = published
        BY <1>6, <3>2 DEF Response, Accepts
      <4>3. requestAge <= RequestTimeout + 1 /\ requestAge \in Nat /\ waits \in Nat
        BY <1>0 DEF TypeOK
      <4> QED
        BY <1>6, <2>1, <4>1, <4>2, <4>3 DEF IInv, FixInHand, Response, InOrder, LongestWait
    <3> QED
      BY <3>1, <3>2
  <2> QED
    BY <1>0, <2>3, <2>4, <2>5, <2>6 DEF IInv
<1>7. ASSUME NEW state \in {"prompt", "slow", "gone"}, Navsat(state) PROVE IInv'
  <2>1. OneConversion' /\ CurrentMatches'
    BY <1>0, <1>7, NavsatKeeps DEF IInv, OneConversion, CurrentMatches, Navsat, TypeOK
  <2>2. BlockedBriefly' /\ TargetIsNewest'
    BY <1>7 DEF IInv, BlockedBriefly, TargetIsNewest, Navsat
  <2>3. FixInHand'
    \* either it was disturbed before, or a prompt navsat ends
    <3>1. ~published => disturbed'
      BY <1>7 DEF IInv, FixInHand, Navsat, Disturb, InOrder
    <3> QED
      BY <1>7, <3>1 DEF FixInHand, Navsat
  <2> QED
    BY <1>0, <2>1, <2>2, <2>3 DEF IInv
<1>8. CASE TimePasses
  <2>1. OneConversion' /\ CurrentMatches'
    BY <1>0, <1>8, TimeAges DEF IInv, OneConversion, CurrentMatches, TimePasses, TypeOK
  <2>2. BlockedBriefly' /\ TargetIsNewest'
    BY <1>8 DEF IInv, BlockedBriefly, TargetIsNewest, TimePasses
  <2>3. FixInHand'
    <3> SUFFICES ASSUME ~disturbed', ~published' PROVE FixInHand'
      BY DEF FixInHand
    <3>1. ~disturbed /\ ~published /\ InOrder'
      BY <1>8 DEF TimePasses, Disturb
    <3>2. InOrder /\ ~sent
      BY <1>0, <1>8, <3>1 DEF IInv, FixInHand, InOrder, TimePasses, TypeOK
    <3>3. waits < LongestWait /\ waits' = waits + 1
      BY <1>0, <1>8, <3>1, <3>2 DEF IInv, FixInHand, BlockedBriefly, TimePasses, Aged,
                                    LongestWait, TypeOK
    <3>4. pending => waits' <= requestAge'
      BY <1>0, <1>8, <3>1, <3>2, <3>3 DEF IInv, FixInHand, BlockedBriefly, TimePasses, Aged,
                                          TypeOK
    <3> QED
      BY <1>0, <1>8, <3>1, <3>2, <3>3, <3>4 DEF FixInHand, TimePasses, LongestWait, TypeOK
  <2> QED
    BY <1>0, <2>1, <2>2, <2>3 DEF IInv
<1>9. CASE UNCHANGED vars
  BY <1>0, <1>9 DEF vars, IInv, OneConversion, CurrentMatches, BlockedBriefly, TargetIsNewest,
                    FixInHand, InOrder, Called
<1> QED
  BY <1>1, <1>2, <1>3, <1>4, <1>5, <1>6, <1>7, <1>8, <1>9 DEF Next

(* What the inductive invariant says of the fix in hand gives the bound of  *)
(* the wait for its publication.                                            *)
LEMMA HandIsUsed == IInv => FixIsUsed
BY RequestTimeoutAssumption DEF IInv, FixInHand, FixIsUsed, TypeOK, LongestWait

LEMMA Invariance == Spec => []IInv
BY InvInit, InvStep, PTL DEF Spec

(* pending_ and request_started_ always belong to the one request under way,*)
(* also after requests that were given up and are answered late.            *)
THEOREM OneConversionCorrect == Spec => []OneConversion
<1>1. IInv => OneConversion
  BY HandIsUsed DEF IInv
<1> QED
  BY <1>1, Invariance, PTL

(* A request without an answer is given up within the timeout and a tick.   *)
THEOREM BlockedCorrect == Spec => []BlockedBriefly
<1>1. IInv => BlockedBriefly
  BY HandIsUsed DEF IInv
<1> QED
  BY <1>1, Invariance, PTL

(* What is published since the newest fix is the position of that fix.      *)
THEOREM NewestCorrect == Spec => []TargetIsNewest
<1>1. IInv => TargetIsNewest
  BY HandIsUsed DEF IInv
<1> QED
  BY <1>1, Invariance, PTL

(* A newest fix that could be converted is published within the timeout and *)
(* two ticks, whatever became of the requests before it.                    *)
THEOREM FixCorrect == Spec => []FixIsUsed
<1>1. IInv => FixIsUsed
  BY HandIsUsed DEF IInv
<1> QED
  BY <1>1, Invariance, PTL
=============================================================================

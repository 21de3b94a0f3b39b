------------------------- MODULE LidarDriver_proofs -------------------------
(***************************************************************************)
(* The driver's properties for every capacity, device, set of requests and *)
(* bound, and for every interleaving of the caller, the decoder and the    *)
(* device: the programs that calls run, then the holder of scans, then the *)
(* answers, and last the stream of samples.                                *)
(***************************************************************************)
EXTENDS LidarDriver, TLAPS

(***************************************************************************)
(* The programs.  In what is left of one, certain steps follow others.     *)
(***************************************************************************)
Scans(c) == c.kind \in {"scan", "express"}
Starts(s) == s.op = "enable" \/ (s.op = "tell" /\ Scans(s.arg))
Moves(c) == c.kind \in {"spin", "halt"}

\* What comes before and after the steps of what is left of a program
After(p, i, op, before) == p[i].op = op /\ i > 1 => p[i - 1].op \in before
Placed(p, i) ==
    /\ After(p, i, "exitLoop", {"lock", "disable"})
    /\ After(p, i, "arm", {"exitLoop"})
    /\ p[i].op = "arm" /\ i > 2 => p[i - 2].op = "lock"
    /\ After(p, i, "send", {"arm"})
    /\ After(p, i, "await", {"send"})
    /\ After(p, i, "copy", {"wait"})
    /\ After(p, i, "enable", {"reset"})
    /\ p[i].op = "tell" /\ Scans(p[i].arg) =>
          After(p, i, "tell", {"enable"}) /\ i < Len(p) /\ p[i + 1].op = "delay"
    /\ p[i].op = "tell" /\ ~Scans(p[i].arg) =>
          Moves(p[i].arg) \/ After(p, i, "tell", {"exitLoop"})

\* The steps that may begin a program
Opens(s) ==
    /\ s.op \notin {"exitLoop", "arm", "send", "await", "copy", "enable"}
    /\ s.op = "tell" => Moves(s.arg)

\* A whole program, or one that begins no scan, or a part that does.
Sound(p) ==
    /\ p \in Seq(Steps)
    /\ \A i \in DOMAIN p : Placed(p, i)
    /\ p # <<>> => Opens(p[1])
    /\ Len(p) > 1 => p[2].op # "arm"
Plain(p) == Sound(p) /\ \A i \in DOMAIN p : p[i].op # "reset" /\ ~Starts(p[i])
Beginning(p) ==
    /\ Sound(p)
    /\ \A i \in DOMAIN p : p[i].op = "reset" => \A k \in 1 .. i : ~Starts(p[k])

\* Before a scan begins the codec has left the loop mode, and the driver has waited.
SettledBefore(p, i) ==
    \E j \in 1 .. i - 1 :
        /\ j + 1 < i /\ p[j].op = "exitLoop" /\ p[j + 1].op = "delay"
        /\ \A k \in j .. i : ~Starts(p[k])
Stopped(p) ==
    /\ Plain(p)
    /\ \E j \in DOMAIN p : j < Len(p) /\ p[j].op = "exitLoop" /\ p[j + 1].op = "delay"
Good(p) == Sound(p) /\ \A i \in DOMAIN p : p[i].op = "reset" => SettledBefore(p, i)

LEMMA Joined ==
    ASSUME NEW p, NEW q, Sound(p), Sound(q) PROVE Sound(p \o q)
<1> DEFINE r == p \o q
<1>1. /\ r \in Seq(Steps) /\ Len(r) = Len(p) + Len(q)
      /\ \A i \in 1 .. Len(p) : r[i] = p[i]
      /\ \A i \in 1 .. Len(q) : r[Len(p) + i] = q[i]
      /\ Len(p) \in Nat /\ Len(q) \in Nat
  BY DEF Sound
<1>2. r # <<>> => Opens(r[1])
  BY DEF Sound
<1>3. Len(r) > 1 => r[2].op # "arm"
  BY DEF Sound, Opens
<1>4. DOMAIN p = 1 .. Len(p) /\ DOMAIN q = 1 .. Len(q) /\ DOMAIN r = 1 .. Len(p) + Len(q)
  BY <1>1 DEF Sound
<1> HIDE DEF r
<1>5. ASSUME NEW i \in 1 .. Len(p) PROVE Placed(r, i)
  <2>1. Placed(p, i) /\ r[i] = p[i] /\ (i < Len(p) => r[i + 1] = p[i + 1])
        /\ (i > 1 => r[i - 1] = p[i - 1]) /\ (i > 2 => r[i - 2] = p[i - 2])
    BY <1>1, <1>4 DEF Sound
  <2>2. Len(p) <= Len(r)
    BY <1>1
  <2> QED BY <2>1, <2>2, <1>1 DEF Placed, After
<1>6. ASSUME NEW k \in 1 .. Len(q) PROVE Placed(r, Len(p) + k)
  <2>1. Placed(q, k) /\ r[Len(p) + k] = q[k] /\ (k < Len(q) => r[Len(p) + k + 1] = q[k + 1])
        /\ (k > 1 => r[Len(p) + k - 1] = q[k - 1]) /\ (k > 2 => r[Len(p) + k - 2] = q[k - 2])
    <3>1. k < Len(q) => k + 1 \in 1 .. Len(q) /\ Len(p) + k + 1 = Len(p) + (k + 1)
      BY <1>1
    <3>2. k > 1 => k - 1 \in 1 .. Len(q) /\ Len(p) + k - 1 = Len(p) + (k - 1)
      BY <1>1
    <3>3. k > 2 => k - 2 \in 1 .. Len(q) /\ Len(p) + k - 2 = Len(p) + (k - 2)
      BY <1>1
    <3> QED BY <1>1, <1>4, <3>1, <3>2, <3>3 DEF Sound
  <2>2. k < Len(q) => Len(p) + k < Len(r)
    BY <1>1
  <2>3. CASE k > 2
    <3> DEFINE i == Len(p) + k
    <3>1. i \in Nat /\ i > 2 /\ k \in Nat
      BY <1>1, <2>3
    <3>2. r[i] = q[k] /\ (k < Len(q) => i < Len(r) /\ r[i + 1] = q[k + 1])
          /\ r[i - 1] = q[k - 1] /\ r[i - 2] = q[k - 2]
      BY <2>1, <2>2, <2>3
    <3> HIDE DEF i
    <3>3. \A op, before : After(q, k, op, before) => After(r, i, op, before)
      BY <2>3, <3>1, <3>2 DEF After
    <3>4. Placed(r, i)
      BY <2>1, <2>3, <3>1, <3>2, <3>3 DEF Placed
    <3> QED BY <3>4 DEF i
  <2>4. CASE k = 1
    <3>1. Opens(q[1])
      BY <1>1, <2>4 DEF Sound
    <3>2. Placed(q, 1) /\ r[Len(p) + 1] = q[1]
      BY <2>1, <2>4
    <3> QED BY <2>4, <3>1, <3>2 DEF Placed, After, Opens, Scans, Moves
  <2>5. CASE k = 2
    <3>1. q[2].op # "arm"
      BY <1>1, <2>5 DEF Sound
    <3>2. Placed(q, 2) /\ r[Len(p) + 2] = q[2] /\ r[Len(p) + 1] = q[1]
          /\ (2 < Len(q) => Len(p) + 2 < Len(r) /\ r[Len(p) + 3] = q[3])
      BY <2>1, <2>2, <2>5, <1>1
    <3> QED BY <1>1, <2>5, <3>1, <3>2 DEF Placed, After
  <2> QED BY <2>3, <2>4, <2>5
<1>7. ASSUME NEW i \in DOMAIN r PROVE Placed(r, i)
  <2>1. CASE i \in 1 .. Len(p)
    BY <1>5, <2>1
  <2>2. CASE i \notin 1 .. Len(p)
    <3>1. PICK k \in Int : k = i - Len(p)
      BY <1>1, <1>4, <1>7
    <3>2. k \in 1 .. Len(q) /\ i = Len(p) + k
      BY <1>1, <1>4, <1>7, <2>2, <3>1
    <3> QED BY <1>6, <3>2
  <2> QED BY <2>1, <2>2
<1>8. Sound(r)
  BY <1>1, <1>2, <1>3, <1>7 DEF Sound
<1> QED BY <1>8 DEF r

LEMMA JoinedSteps ==
    ASSUME NEW p \in Seq(Steps), NEW q \in Seq(Steps)
    PROVE  /\ p \o q \in Seq(Steps) /\ Len(p \o q) = Len(p) + Len(q)
           /\ Len(p) \in Nat /\ Len(q) \in Nat
           /\ DOMAIN p = 1 .. Len(p) /\ DOMAIN q = 1 .. Len(q)
           /\ DOMAIN (p \o q) = 1 .. Len(p) + Len(q)
           /\ \A i \in 1 .. Len(p) : (p \o q)[i] = p[i]
           /\ \A i \in 1 .. Len(q) : (p \o q)[Len(p) + i] = q[i]
           /\ \A i \in 1 .. Len(p) + Len(q) :
                 i \in 1 .. Len(p) \/ \E k \in 1 .. Len(q) : i = Len(p) + k
<1>1. ASSUME NEW i \in 1 .. Len(p) + Len(q), i \notin 1 .. Len(p)
      PROVE  \E k \in 1 .. Len(q) : i = Len(p) + k
  <2>1. Len(p) \in Nat /\ Len(q) \in Nat
    OBVIOUS
  <2>2. i - Len(p) \in 1 .. Len(q) /\ i = Len(p) + (i - Len(p))
    BY <1>1, <2>1
  <2> QED BY <2>2
<1> QED BY <1>1

LEMMA PlainJoined ==
    ASSUME NEW p, NEW q, Plain(p), Plain(q) PROVE Plain(p \o q)
<1>1. p \in Seq(Steps) /\ q \in Seq(Steps) /\ Sound(p \o q)
  BY Joined DEF Plain, Sound
<1> QED BY <1>1, JoinedSteps DEF Plain

LEMMA StoppedJoined ==
    ASSUME NEW p, NEW q, Stopped(p), Plain(q) PROVE Stopped(p \o q)
<1>1. p \in Seq(Steps) /\ q \in Seq(Steps) /\ Plain(p \o q)
  BY PlainJoined DEF Stopped, Plain, Sound
<1>2. PICK j \in DOMAIN p : j < Len(p) /\ p[j].op = "exitLoop" /\ p[j + 1].op = "delay"
  BY DEF Stopped
<1>3. j \in 1 .. Len(p) /\ j + 1 \in 1 .. Len(p) /\ j < Len(p \o q) /\ j \in DOMAIN (p \o q)
  BY <1>1, <1>2, JoinedSteps
<1>4. (p \o q)[j] = p[j] /\ (p \o q)[j + 1] = p[j + 1]
  BY <1>1, <1>3, JoinedSteps
<1> QED BY <1>1, <1>2, <1>3, <1>4 DEF Stopped

\* A part that begins a scan makes a whole with one that has stopped the scan before.
LEMMA BeginningJoined ==
    ASSUME NEW p, NEW q, Plain(p), Beginning(q) PROVE Beginning(p \o q)
<1> DEFINE r == p \o q
<1>1. p \in Seq(Steps) /\ q \in Seq(Steps) /\ Sound(r)
  BY Joined DEF Plain, Beginning, Sound
<1>2. ASSUME NEW i \in DOMAIN r, r[i].op = "reset", NEW k \in 1 .. i PROVE ~Starts(r[k])
  <2>1. CASE k \in 1 .. Len(p)
    BY <1>1, <2>1, JoinedSteps DEF Plain
  <2>2. CASE k \notin 1 .. Len(p)
    <3>1. i \in 1 .. Len(p) + Len(q) /\ k \in 1 .. Len(p) + Len(q) /\ i \notin 1 .. Len(p)
      BY <1>1, <1>2, <2>2, JoinedSteps
    <3>2. PICK m \in 1 .. Len(q) : i = Len(p) + m
      BY <1>1, <3>1, JoinedSteps
    <3>3. PICK n \in 1 .. Len(q) : k = Len(p) + n
      BY <1>1, <2>2, <3>1, JoinedSteps
    <3>4. n \in 1 .. m /\ m \in DOMAIN q
      BY <1>1, <1>2, <3>2, <3>3, JoinedSteps
    <3>5. r[i] = q[m] /\ r[k] = q[n]
      BY <1>1, <3>2, <3>3, JoinedSteps
    <3> QED BY <1>2, <3>4, <3>5 DEF Beginning
  <2> QED BY <2>1, <2>2
<1> HIDE DEF r
<1>3. Beginning(r)
  BY <1>1, <1>2 DEF Beginning
<1> QED BY <1>3 DEF r

\* What a part says of its steps holds of them in the whole.
LEMMA ShiftedBefore ==
    ASSUME NEW p \in Seq(Steps), NEW q \in Seq(Steps), NEW m \in 1 .. Len(q),
           SettledBefore(q, m)
    PROVE  SettledBefore(p \o q, Len(p) + m)
<1> DEFINE r == p \o q
           i == Len(p) + m
<1>1. PICK j \in 1 .. m - 1 :
        /\ j + 1 < m /\ q[j].op = "exitLoop" /\ q[j + 1].op = "delay"
        /\ \A k \in j .. m : ~Starts(q[k])
  BY DEF SettledBefore
<1> DEFINE n == Len(p) + j
<1>2. /\ n \in 1 .. i - 1 /\ n + 1 < i
      /\ j \in 1 .. Len(q) /\ j + 1 \in 1 .. Len(q) /\ n + 1 = Len(p) + (j + 1)
  BY <1>1, JoinedSteps
<1>3. r[n] = q[j] /\ r[n + 1] = q[j + 1]
  <2>1. \A x \in 1 .. Len(q) : r[Len(p) + x] = q[x]
    BY JoinedSteps
  <2>2. r[Len(p) + j] = q[j] /\ r[Len(p) + (j + 1)] = q[j + 1]
    BY <1>2, <2>1
  <2> QED BY <1>2, <2>2
<1>4. ASSUME NEW k \in n .. i PROVE ~Starts(r[k])
  <2>1. PICK l : l = k - Len(p)
    OBVIOUS
  <2>2. l \in j .. m /\ l \in 1 .. Len(q) /\ k = Len(p) + l
    BY <1>1, <1>4, <2>1, JoinedSteps
  <2>3. r[k] = q[l]
    BY <2>2, JoinedSteps
  <2> QED BY <1>1, <2>2, <2>3
<1> HIDE DEF r, n, i
<1>5. SettledBefore(r, i)
  BY <1>1, <1>2, <1>3, <1>4 DEF SettledBefore
<1> QED BY <1>5 DEF r, i

LEMMA PlainGood ==
    ASSUME NEW p, NEW q, Plain(p), Good(q) PROVE Good(p \o q)
<1> DEFINE r == p \o q
<1>1. p \in Seq(Steps) /\ q \in Seq(Steps) /\ Sound(r)
  BY Joined DEF Plain, Good, Sound
<1>2. ASSUME NEW i \in DOMAIN r, r[i].op = "reset" PROVE SettledBefore(r, i)
  <2>1. i \notin 1 .. Len(p)
    BY <1>1, <1>2, JoinedSteps DEF Plain
  <2>2. PICK m \in 1 .. Len(q) : i = Len(p) + m
    BY <1>1, <1>2, <2>1, JoinedSteps
  <2>3. m \in DOMAIN q /\ q[m].op = "reset"
    BY <1>1, <1>2, <2>2, JoinedSteps
  <2> QED BY <1>1, <2>2, <2>3, ShiftedBefore DEF Good
<1> HIDE DEF r
<1>3. Good(r)
  BY <1>1, <1>2 DEF Good
<1> QED BY <1>3 DEF r

LEMMA GoodJoined ==
    ASSUME NEW p, NEW q, Stopped(p), Beginning(q) \/ Good(q) PROVE Good(p \o q)
<1> DEFINE r == p \o q
<1>1. p \in Seq(Steps) /\ q \in Seq(Steps) /\ Sound(r)
  BY Joined DEF Stopped, Plain, Beginning, Good, Sound
<1>2. ASSUME NEW i \in DOMAIN r, r[i].op = "reset" PROVE SettledBefore(r, i)
  <2>1. i \notin 1 .. Len(p)
    BY <1>1, <1>2, JoinedSteps DEF Stopped, Plain
  <2>2. PICK m \in 1 .. Len(q) : i = Len(p) + m
    BY <1>1, <1>2, <2>1, JoinedSteps
  <2>3. m \in DOMAIN q /\ q[m].op = "reset"
    BY <1>1, <1>2, <2>2, JoinedSteps
  <2>4. CASE Beginning(q)
    <3>1. PICK j \in DOMAIN p : j < Len(p) /\ p[j].op = "exitLoop" /\ p[j + 1].op = "delay"
      BY DEF Stopped
    <3>2. j \in 1 .. Len(p) /\ j + 1 \in 1 .. Len(p)
      BY <1>1, <3>1, JoinedSteps
    <3>3. r[j] = p[j] /\ r[j + 1] = p[j + 1]
      BY <1>1, <3>2, JoinedSteps
    <3>4. ASSUME NEW k \in j .. i PROVE ~Starts(r[k])
      <4>1. CASE k \in 1 .. Len(p)
        BY <1>1, <4>1, JoinedSteps DEF Stopped, Plain
      <4>2. CASE k \notin 1 .. Len(p)
        <5>1. k \in 1 .. Len(p) + Len(q)
          BY <1>1, <2>2, <3>2, <3>4, JoinedSteps
        <5>2. PICK n \in 1 .. Len(q) : k = Len(p) + n
          BY <1>1, <4>2, <5>1, JoinedSteps
        <5>3. n \in 1 .. m /\ r[k] = q[n]
          BY <1>1, <2>2, <3>4, <5>2, JoinedSteps
        <5> QED BY <2>3, <2>4, <5>3 DEF Beginning
      <4> QED BY <4>1, <4>2
    <3>5. j \in 1 .. i - 1 /\ j + 1 < i
      BY <1>1, <2>2, <3>2, JoinedSteps
    <3> HIDE DEF r
    <3> QED BY <3>1, <3>3, <3>4, <3>5 DEF SettledBefore
  <2>5. CASE Good(q)
    BY <1>1, <2>2, <2>3, <2>5, ShiftedBefore DEF Good
  <2> QED BY <2>4, <2>5
<1> HIDE DEF r
<1>3. Good(r)
  BY <1>1, <1>2 DEF Good
<1> QED BY <1>3 DEF r

\* The steps, one by one
S(op, arg) == [op |-> op, arg |-> arg]

LEMMA StepTypes ==
    /\ \A op \in {"lock", "disable", "exitLoop", "reset", "enable", "wait", "copy"} : S(op, "") \in Steps
    /\ \A op \in {"dtr", "delay"}, c \in Tellings : S(op, c) \in Steps
    /\ \A q \in Commands(Requests) : \A op \in {"arm", "send", "await"} : S(op, q) \in Steps
    /\ \A q \in Commands(Tellings) : S("tell", q) \in Steps
    /\ \A x \in Supports : S("support", x) \in Steps
  BY DEF S, Steps

LEMMA AskPlain == ASSUME NEW q \in Commands(Requests) PROVE Plain(Ask(q))
<1>0. PICK a, b, c, d, e \in Steps :
        /\ a = S("lock", "") /\ b = S("exitLoop", "") /\ c = S("arm", q) /\ d = S("send", q)
        /\ e = S("await", q)
  BY StepTypes
<1> DEFINE p == <<a>> \o <<b>> \o <<c>> \o <<d>> \o <<e>>
<1>1. Ask(q) = p
  BY <1>0, Zenon DEF Ask, Step, S
<1>2. p \in Seq(Steps)
  OBVIOUS
<1>3. /\ Len(p) = 5 /\ DOMAIN p = 1 .. 5
      /\ p[1].op = "lock" /\ p[2].op = "exitLoop" /\ p[3].op = "arm"
      /\ p[4].op = "send" /\ p[5].op = "await"
  <2>1. Len(p) = 5 /\ p[1] = a /\ p[2] = b /\ p[3] = c /\ p[4] = d /\ p[5] = e
    OBVIOUS
  <2> HIDE DEF p
  <2>2. a.op = "lock" /\ b.op = "exitLoop" /\ c.op = "arm" /\ d.op = "send" /\ e.op = "await"
    BY <1>0 DEF S
  <2> QED BY <1>2, <2>1, <2>2
<1> HIDE DEF p
<1>4. ASSUME NEW i \in 1 .. 5 PROVE Placed(p, i) /\ p[i].op # "reset" /\ ~Starts(p[i])
  <2>1. i \in {1, 2, 3, 4, 5}
    OBVIOUS
  <2> QED BY <1>3, <2>1 DEF Placed, After, Starts
<1> QED BY <1>1, <1>2, <1>3, <1>4 DEF Plain, Sound, Opens

\* A request that goes without saying: a query of the driver
LEMMA QueryPlain ==
    ASSUME NEW kind \in Requests, NEW key \in Keys, NEW must \in BOOLEAN
    PROVE  Plain(Ask(Query(kind, key, must)))
<1>1. Query(kind, key, must) \in Commands(Requests)
  BY DEF Query, Commands
<1> QED BY <1>1, AskPlain

LEMMA EmptyPlain == Plain(<<>>)
  BY DEF Plain, Sound

\* A step that may stand anywhere
LEMMA SinglePlain ==
    ASSUME NEW s \in Steps, Opens(s), s.op # "reset"
    PROVE  Plain(<<s>>)
<1>1. <<s>> \in Seq(Steps) /\ DOMAIN <<s>> = {1} /\ Len(<<s>>) = 1 /\ <<s>>[1] = s
  OBVIOUS
<1>2. Placed(<<s>>, 1)
  BY <1>1 DEF Placed, After, Opens, Scans, Moves
<1>3. ~Starts(s)
  BY DEF Opens, Starts, Scans, Moves
<1> QED BY <1>1, <1>2, <1>3 DEF Plain, Sound

LEMMA TellPlain ==
    ASSUME NEW c \in {"stop", "reset"}
    PROVE  Plain(Tell(c))
<1> DEFINE q == Query(c, "-", FALSE)
<1>0. Tell(c) = <<S("disable", "")>> \o <<S("exitLoop", "")>> \o <<S("tell", q)>>
  BY Zenon DEF Tell, Disarm, TellOn, Step, S
<1>2. q \in Commands(Tellings) /\ q.kind = c
  BY DEF Query, Commands, Tellings, Keys
<1> HIDE DEF q
<1>6. PICK x, y, z \in Steps : x = S("disable", "") /\ y = S("exitLoop", "") /\ z = S("tell", q)
  BY <1>2, StepTypes
<1> DEFINE p == <<x>> \o <<y>> \o <<z>>
<1>1. Tell(c) = p
  BY <1>0, <1>6, Zenon
<1>3. p \in Seq(Steps)
  OBVIOUS
<1>4. /\ Len(p) = 3 /\ DOMAIN p = 1 .. 3
      /\ p[1].op = "disable" /\ p[2].op = "exitLoop" /\ p[3].op = "tell" /\ p[3].arg = q
  <2>1. Len(p) = 3 /\ p[1] = x /\ p[2] = y /\ p[3] = z
    OBVIOUS
  <2> HIDE DEF p
  <2>2. x.op = "disable" /\ y.op = "exitLoop" /\ z.op = "tell" /\ z.arg = q
    BY <1>6 DEF S
  <2> QED BY <1>3, <2>1, <2>2
<1> HIDE DEF p
<1>5. ASSUME NEW i \in 1 .. 3 PROVE Placed(p, i) /\ p[i].op # "reset" /\ ~Starts(p[i])
  <2>1. i \in {1, 2, 3}
    OBVIOUS
  <2> QED BY <1>2, <1>4, <2>1 DEF Placed, After, Starts, Scans
<1> QED BY <1>1, <1>3, <1>4, <1>5 DEF Plain, Sound, Opens

LEMMA SetMotorPlain == ASSUME NEW c \in {"spin", "halt"} PROVE Plain(SetMotor(c))
<1> DEFINE q == Query(c, "-", FALSE)
<1>1. q \in Commands(Tellings) /\ q.kind = c
  BY DEF Query, Commands, Tellings, Keys
<1>2. c \in Tellings
  BY DEF Tellings
<1>3. Plain(<<S("dtr", c)>>) /\ Plain(<<S("tell", q)>>) /\ Plain(<<S("delay", c)>>)
  <2> HIDE DEF q
  <2>1. S("dtr", c) \in Steps /\ S("tell", q) \in Steps /\ S("delay", c) \in Steps
    BY <1>1, <1>2, StepTypes
  <2>2. Opens(S("dtr", c)) /\ Opens(S("tell", q)) /\ Opens(S("delay", c))
    BY <1>1 DEF Opens, S, Moves
  <2>3. S("dtr", c).op # "reset" /\ S("tell", q).op # "reset" /\ S("delay", c).op # "reset"
    BY DEF S
  <2> QED BY <2>1, <2>2, <2>3, SinglePlain
<1>4. Plain(<<S("tell", q)>> \o <<S("delay", c)>>)
  BY <1>3, PlainJoined
<1> QED BY <1>3, <1>4 DEF SetMotor, TellOn, Step, S

LEMMA DisarmPlain == Plain(Disarm) /\ Len(Disarm) = 2 /\ Disarm[2].op = "exitLoop"
<1>1. PICK x, y \in Steps : x = S("disable", "") /\ y = S("exitLoop", "")
  BY StepTypes
<1> DEFINE p == <<x>> \o <<y>>
<1>2. Disarm = p
  BY <1>1, Zenon DEF Disarm, Step, S
<1>3. p \in Seq(Steps) /\ Len(p) = 2 /\ DOMAIN p = 1 .. 2 /\ p[1] = x /\ p[2] = y
  OBVIOUS
<1>5. x.op = "disable" /\ y.op = "exitLoop"
  BY <1>1 DEF S
<1> HIDE DEF p
<1>4. ASSUME NEW i \in 1 .. 2 PROVE Placed(p, i) /\ p[i].op # "reset" /\ ~Starts(p[i])
  <2>1. i \in {1, 2}
    OBVIOUS
  <2> QED BY <1>5, <1>3, <2>1 DEF Placed, After, Starts
<1> QED BY <1>5, <1>2, <1>3, <1>4 DEF Plain, Sound, Opens

\* A delay after the codec has left the loop mode
LEMMA DelayStops ==
    ASSUME NEW p, Plain(p), Len(p) > 0, p[Len(p)].op = "exitLoop",
           NEW z \in Steps, z.op = "delay"
    PROVE  Stopped(p \o <<z>>)
<1> DEFINE q == <<z>>
           r == p \o q
<1>1. Plain(q)
  BY SinglePlain DEF Opens
<1>2. q \in Seq(Steps) /\ Len(q) = 1 /\ q[1] = z
  OBVIOUS
<1> HIDE DEF q
<1>3. Plain(r) /\ p \in Seq(Steps)
  BY <1>1, PlainJoined DEF Plain, Sound
<1>4. Len(p) \in DOMAIN r /\ Len(p) < Len(r) /\ r[Len(p)] = p[Len(p)] /\ r[Len(p) + 1] = z
  BY <1>2, <1>3, JoinedSteps
<1> HIDE DEF r
<1>5. Stopped(r)
  BY <1>3, <1>4 DEF Stopped
<1> QED BY <1>5 DEF r, q

\* What the second of two joined sequences ends with, the whole ends with
LEMMA JoinedLast ==
    ASSUME NEW p \in Seq(Steps), NEW q \in Seq(Steps), Len(q) = 2
    PROVE  Len(p \o q) > 0 /\ (p \o q)[Len(p \o q)] = q[2]
<1>0. Len(p) \in Nat /\ Len(p \o q) = Len(p) + Len(q)
  BY JoinedSteps, Zenon
<1>1. Len(p) \in Nat /\ Len(p \o q) = Len(p) + 2
  BY <1>0
<1>2. \A i \in 1 .. Len(q) : (p \o q)[Len(p) + i] = q[i]
  BY JoinedSteps, Zenon
<1>3. 2 \in 1 .. Len(q)
  OBVIOUS
<1>4. (p \o q)[Len(p) + 2] = q[2]
  BY <1>2, <1>3, Zenon
<1> QED BY <1>1, <1>4

LEMMA StopStops == Stopped(Stop)
<1>1. PICK z \in Steps : z = S("delay", "stop")
  BY StepTypes DEF Tellings
<1> DEFINE t == Tell("stop") \o Disarm
<1>2. Plain(t)
  BY TellPlain, DisarmPlain, PlainJoined
<1>3. Len(t) > 0 /\ t[Len(t)].op = "exitLoop"
  <2>1. PICK u, v \in Seq(Steps) : u = Tell("stop") /\ v = Disarm
    BY TellPlain, DisarmPlain DEF Plain, Sound
  <2>2. Len(v) = 2 /\ v[2].op = "exitLoop"
    BY <2>1, DisarmPlain
  <2>4. t = u \o v
    BY <2>1
  <2> HIDE DEF t
  <2> QED BY <2>1, <2>2, <2>4, JoinedLast
<1> HIDE DEF t
<1>4. Stopped(t \o <<z>>)
  BY <1>1, <1>2, <1>3, DelayStops DEF S
<1>5. Plain(SetMotor("halt")) /\ Plain(<<>>)
  BY SetMotorPlain, EmptyPlain
<1>6. Stop = (t \o <<z>>) \o (IF motor = "pwm" THEN SetMotor("halt") ELSE <<>>)
  BY <1>1, Zenon DEF Stop, t, Step, S
<1>7. CASE motor = "pwm"
  BY <1>4, <1>5, <1>6, <1>7, StoppedJoined
<1>8. CASE motor # "pwm"
  BY <1>4, <1>5, <1>6, <1>8, StoppedJoined
<1> QED BY <1>7, <1>8

LEMMA LaunchBegins == ASSUME NEW cmd \in {"scan", "express"} PROVE Beginning(Launch(cmd))
<1> DEFINE q == Query(cmd, "-", FALSE)
<1>1. q \in Commands(Tellings) /\ q.kind = cmd
  BY DEF Query, Commands, Tellings, Keys
<1> HIDE DEF q
<1>2. PICK a, b, c, d \in Steps :
        a = S("reset", "") /\ b = S("enable", "") /\ c = S("tell", q) /\ d = S("delay", cmd)
  BY <1>1, StepTypes DEF Tellings
<1> DEFINE p == <<a>> \o <<b>> \o <<c>> \o <<d>>
<1>3. Launch(cmd) = p
  BY <1>2, Zenon DEF Launch, TellOn, Step, S, q
<1>4. p \in Seq(Steps) /\ Len(p) = 4 /\ p[1] = a /\ p[2] = b /\ p[3] = c /\ p[4] = d
  OBVIOUS
<1>5. a.op = "reset" /\ b.op = "enable" /\ c.op = "tell" /\ c.arg = q /\ d.op = "delay"
  BY <1>2 DEF S
<1> HIDE DEF p
<1>6. DOMAIN p = 1 .. 4
  BY <1>4
<1>7. ASSUME NEW i \in 1 .. 4
      PROVE  Placed(p, i) /\ (p[i].op = "reset" => \A k \in 1 .. i : ~Starts(p[k]))
  <2>1. i \in {1, 2, 3, 4}
    OBVIOUS
  <2>2. Placed(p, i)
    BY <1>1, <1>4, <1>5, <2>1 DEF Placed, After, Scans
  <2>3. p[i].op = "reset" => i = 1
    BY <1>4, <1>5, <2>1
  <2>4. \A k \in 1 .. 1 : ~Starts(p[k])
    BY <1>4, <1>5 DEF Starts
  <2> QED BY <2>2, <2>3, <2>4
<1>8. Opens(p[1]) /\ p[2].op # "arm"
  BY <1>4, <1>5 DEF Opens
<1> QED BY <1>3, <1>4, <1>6, <1>7, <1>8 DEF Beginning, Sound

LEMMA Grades ==
    /\ \A p : Plain(p) => Good(p)
    /\ \A p : Stopped(p) => Plain(p)
  BY DEF Plain, Good, Stopped

\* What the driver asks for by itself
LEMMA QueriesPlain ==
    /\ Plain(DeviceInfo) /\ Plain(Health) /\ Plain(ModeFields) /\ Plain(MotorInfo)
    /\ Plain(ModeInfo) /\ Plain(Timing) /\ Plain(StartMotor) /\ Plain(TypicalMode) /\ Plain(AllModes)
    /\ Plain(Conf("ip")) /\ Plain(Conf("mac")) /\ Plain(SetConf("ip")) /\ Plain(ModelName)
<1>1. Plain(DeviceInfo) /\ Plain(Health)
  BY QueryPlain DEF DeviceInfo, Health, Requests, Keys
<1>2. \A key \in Keys : Plain(Conf(key)) /\ Plain(OptionalConf(key)) /\ Plain(SetConf(key))
  BY QueryPlain DEF Conf, OptionalConf, SetConf, Requests
<1>3. /\ Plain(Conf("duration")) /\ Plain(Conf("distance")) /\ Plain(Conf("anstype"))
      /\ Plain(Conf("name")) /\ Plain(Conf("minfreq")) /\ Plain(Conf("maxfreq"))
      /\ Plain(Conf("desired")) /\ Plain(Conf("typical")) /\ Plain(Conf("count"))
      /\ Plain(Conf("ip")) /\ Plain(Conf("mac")) /\ Plain(SetConf("ip"))
      /\ Plain(OptionalConf("desired")) /\ Plain(OptionalConf("mac")) /\ Plain(ModelName)
  BY <1>2 DEF Keys, ModelName
<1>4. Plain(Ask(Query("rate", "-", TRUE)))
  BY QueryPlain DEF Requests, Keys
<1>5. Plain(ModeFields) /\ Plain(MotorInfo)
  BY <1>3, PlainJoined DEF ModeFields, MotorInfo
<1>6. Plain(LegacyRate)
  <2>1. CASE dev.kind.rate
    BY <1>1, <1>4, <2>1, PlainJoined DEF LegacyRate
  <2>2. CASE ~dev.kind.rate
    BY <1>1, <2>2, EmptyPlain, PlainJoined DEF LegacyRate
  <2> QED BY <2>1, <2>2
<1>7. Plain(ModeInfo)
  BY <1>5, <1>6 DEF ModeInfo
<1>8. Plain(Timing)
  BY <1>3, EmptyPlain DEF Timing
<1>9. Plain(StartMotor)
  BY <1>3, SetMotorPlain, PlainJoined DEF StartMotor
<1>10. Plain(TypicalMode)
  <2>1. CASE dev.kind.conf
    BY <1>1, <1>3, <2>1, PlainJoined DEF TypicalMode
  <2>2. CASE ~dev.kind.conf
    BY <1>1, <2>2, EmptyPlain, PlainJoined DEF TypicalMode
  <2> QED BY <2>1, <2>2
<1>11. Plain(AllModes)
  <2>1. Plain(ModeCount \o ModeFields)
    BY <1>3, <1>5, PlainJoined DEF ModeCount
  <2>2. CASE dev.kind.conf
    BY <1>1, <2>1, <2>2, PlainJoined DEF AllModes
  <2>3. CASE ~dev.kind.conf
    BY <1>1, <2>3, EmptyPlain, PlainJoined DEF AllModes
  <2> QED BY <2>2, <2>3
<1> QED BY <1>1, <1>3, <1>5, <1>7, <1>8, <1>9, <1>10, <1>11

\* The beginning of a scan, which the driver has stopped before
LEMMA ScanPrograms ==
    /\ \A cmd \in {"scan", "express"} : Beginning(Begin(cmd))
    /\ Good(StartNormal) /\ Good(StartExpress)
    /\ \A typical \in BOOLEAN : Good(StartScan(typical))
<1>1. ASSUME NEW cmd \in {"scan", "express"} PROVE Beginning(Begin(cmd))
  BY QueriesPlain, PlainJoined, LaunchBegins, BeginningJoined DEF Begin
<1> DEFINE informed == Stop \o DeviceInfo \o ModeInfo
<1>2. Stopped(informed)
  BY StopStops, QueriesPlain, StoppedJoined
<1>3. Good(StartNormal)
  BY <1>1, <1>2, GoodJoined DEF StartNormal
<1>4. Good(StartExpress)
  <2>1. CASE dev.kind.conf /\ dev.kind.std
    BY <1>2, <1>3, <2>1, GoodJoined DEF StartExpress
  <2>2. CASE ~(dev.kind.conf /\ dev.kind.std)
    BY <1>1, <1>2, <2>2, GoodJoined DEF StartExpress
  <2> QED BY <2>1, <2>2
<1>5. Stopped(Stop \o DeviceInfo)
  BY StopStops, QueriesPlain, StoppedJoined
<1>6. ASSUME NEW typical \in BOOLEAN PROVE Good(StartScan(typical))
  <2>1. CASE typical
    <3>1. StartScan(typical) = Stop \o DeviceInfo \o (TypicalMode \o StartExpress)
      BY <2>1 DEF StartScan
    <3>2. Good(TypicalMode \o StartExpress)
      BY <1>4, QueriesPlain, PlainGood
    <3> QED BY <1>5, <3>1, <3>2, GoodJoined
  <2>2. CASE ~typical
    <3>1. StartScan(typical) = Stop \o DeviceInfo \o (ModeInfo \o Begin("scan"))
      BY <2>2 DEF StartScan
    <3>2. Beginning(ModeInfo \o Begin("scan"))
      BY <1>1, QueriesPlain, BeginningJoined
    <3> QED BY <1>5, <3>1, <3>2, GoodJoined
  <2> QED BY <2>1, <2>2
<1> QED BY <1>1, <1>3, <1>4, <1>6

\* All calls run good programs.
LEMMA Programs ==
    ASSUME TypeOK
    PROVE  /\ \A typical \in BOOLEAN : Good(StartScan(typical))
           /\ Good(Stop) /\ Good(Grab) /\ Good(SetMotor("spin")) /\ Good(Tell("reset"))
           /\ \A q \in Queries : Good(Asks(q))
           /\ Good(CheckMotor)
<1>1. Good(Stop) /\ Good(SetMotor("spin")) /\ Good(Tell("reset"))
  BY StopStops, SetMotorPlain, TellPlain, Grades
<1>2. Good(Grab)
  <2>1. PICK x, y \in Steps : x = S("wait", "") /\ y = S("copy", "")
    BY StepTypes
  <2> DEFINE p == <<x>> \o <<y>>
  <2>2. Grab = p
    BY <2>1, Zenon DEF Grab, Step, S
  <2>3. p \in Seq(Steps) /\ Len(p) = 2 /\ DOMAIN p = 1 .. 2 /\ p[1] = x /\ p[2] = y
    OBVIOUS
  <2>4. x.op = "wait" /\ y.op = "copy"
    BY <2>1 DEF S
  <2> HIDE DEF p
  <2>5. ASSUME NEW i \in 1 .. 2 PROVE Placed(p, i) /\ p[i].op # "reset"
    <3>1. i \in {1, 2}
      OBVIOUS
    <3> QED BY <2>3, <2>4, <3>1 DEF Placed, After
  <2> QED BY <2>2, <2>3, <2>4, <2>5 DEF Good, Sound, Opens
<1>3. ASSUME NEW q \in Queries PROVE Good(Asks(q))
  <2>1. q \in {"devinfo", "health", "modes", "typical", "motor", "ip", "setip", "mac", "alias"}
    BY QueryAssumption
  <2> QED BY <2>1, QueriesPlain, Grades DEF Asks
<1>4. Good(CheckMotor)
  <2> DEFINE asked == IF dev.kind.support = "rpm" \/ ~dev.kind.board THEN <<>>
                      ELSE Ask(Query("acc", "-", TRUE))
  <2>1. Plain(asked)
    BY EmptyPlain, QueryPlain DEF Requests, Keys
  <2>2. PICK z \in Steps : z = S("support", dev.kind.support)
    BY StepTypes DEF TypeOK, Supports
  <2>3. Plain(<<z>>)
    <3>1. z.op = "support"
      BY <2>2 DEF S
    <3> QED BY <3>1, SinglePlain DEF Opens
  <2>4. CheckMotor = Disarm \o DeviceInfo \o asked \o <<z>>
    BY <2>2, Zenon DEF CheckMotor, Step, S
  <2> HIDE DEF asked
  <2> QED BY <2>1, <2>3, <2>4, DisarmPlain, QueriesPlain, PlainJoined, Grades
<1> QED BY <1>1, <1>2, <1>3, <1>4, ScanPrograms

(***************************************************************************)
(* The holder of scans and the nodes.                                      *)
(***************************************************************************)
\* HolderBegins of any holder
Begun(h) ==
    /\ h.signal => h.avail >= 0
    /\ h.avail >= 0 => h.buf[h.avail] # <<>>
    /\ \A b \in 0 .. 1 :
          h.buf[b] # <<>> => Sync(h.buf[b][1]) /\ h.ts[b] = <<h.buf[b][1]>>

LEMMA StoredFirst ==
    ASSUME NEW node \in Nodes
    PROVE  Stored(<<>>, node) = <<node>>
  BY CapAssumption DEF Stored

\* A full buffer overwrites its last entry, which is not its first.
LEMMA StoredNext ==
    ASSUME NEW seq \in Seq(Nodes), seq # <<>>, NEW node \in Nodes
    PROVE  /\ Stored(seq, node) \in Seq(Nodes)
           /\ Stored(seq, node) # <<>>
           /\ Stored(seq, node)[1] = seq[1]
<1>1. CASE Len(seq) < Cap
  BY <1>1 DEF Stored
<1>2. CASE ~(Len(seq) < Cap)
  <2>1. Len(seq) >= 2
    BY <1>2, CapAssumption
  <2>2. Stored(seq, node) = [seq EXCEPT ![Len(seq)] = node]
    BY <1>2 DEF Stored
  <2> QED BY <2>1, <2>2
<1> QED BY <1>1, <1>2

LEMMA OperationBuffer ==
    ASSUME NEW h \in Holders
    PROVE  /\ Operation(h) \in 0 .. 1
           /\ h.avail >= 0 => Operation(h) = 1 - h.avail
  BY DEF Operation, Holders

\* A holder whose buffer o gets other contents and another time.
Put(h, o, nodes, ts) ==
    [h EXCEPT !.buf = [@ EXCEPT ![o] = nodes], !.ts = [@ EXCEPT ![o] = ts]]

\* A buffer may get a scan that begins with a sync node, whose time is kept.
LEMMA PutBegins ==
    ASSUME NEW h \in Holders, Begun(h), NEW o \in 0 .. 1,
           NEW nodes \in Seq(Nodes), nodes # <<>>, Sync(nodes[1]),
           NEW ts, ts = <<nodes[1]>>
    PROVE  Put(h, o, nodes, ts) \in Holders /\ Begun(Put(h, o, nodes, ts))
<1>1. ts \in Seq(Nodes)
  <2>1. nodes[1] \in Nodes
    OBVIOUS
  <2> QED BY <2>1
<1> DEFINE buf == [h.buf EXCEPT ![o] = nodes]
           times == [h.ts EXCEPT ![o] = ts]
           p == Put(h, o, nodes, ts)
<1>2. buf \in [0 .. 1 -> Seq(Nodes)] /\ times \in [0 .. 1 -> Seq(Nodes)]
  BY <1>1 DEF Holders
<1>3. /\ buf[o] = nodes /\ times[o] = ts
      /\ \A b \in 0 .. 1 : b # o => buf[b] = h.buf[b] /\ times[b] = h.ts[b]
  BY DEF Holders
<1>4. p = [h EXCEPT !.buf = buf, !.ts = times]
  BY DEF Put
<1> HIDE DEF buf, times, p
<1>5. /\ p \in Holders /\ p.avail = h.avail /\ p.signal = h.signal
      /\ p.buf = buf /\ p.ts = times
  BY <1>2, <1>4 DEF Holders
<1>6. h.avail \in {-1, 0, 1}
  BY DEF Holders
<1>7. Begun(p)
  BY <1>3, <1>5, <1>6 DEF Begun
<1> QED BY <1>5, <1>7 DEF p

\* The swap makes the buffer that was being filled available, and empties the other.
LEMMA SwappedBegins ==
    ASSUME NEW h \in Holders, Begun(h), h.buf[Operation(h)] # <<>>
    PROVE  Swapped(h) \in Holders /\ Begun(Swapped(h))
<1>1. PICK op \in 0 .. 1 : op = Operation(h)
  BY OperationBuffer
<1> DEFINE buf == [h.buf EXCEPT ![1 - op] = <<>>]
<1>2. <<>> \in Seq(Nodes)
  OBVIOUS
<1>3. buf \in [0 .. 1 -> Seq(Nodes)] /\ buf[1 - op] = <<>> /\ buf[op] = h.buf[op]
  BY <1>2 DEF Holders
<1>4. Swapped(h) = [h EXCEPT !.avail = op, !.signal = TRUE, !.buf = buf]
  BY <1>1 DEF Swapped
<1> HIDE DEF buf
<1>5. /\ Swapped(h) \in Holders
      /\ Swapped(h).avail = op /\ Swapped(h).buf = buf /\ Swapped(h).ts = h.ts
  <2>1. op \in {-1, 0, 1}
    OBVIOUS
  <2> QED BY <1>3, <1>4, <2>1 DEF Holders
<1>6. Begun(Swapped(h))
  BY <1>1, <1>3, <1>5 DEF Begun
<1> QED BY <1>5, <1>6

LEMMA PushBegins ==
    ASSUME NEW h \in Holders, Begun(h), NEW node \in Nodes
    PROVE  Push(h, node) \in Holders /\ Begun(Push(h, node))
<1> DEFINE begun == h.buf[Operation(h)] # <<>>
           Pushed(s) == [s EXCEPT !.buf[Operation(s)] = Stored(@, node),
                                  !.ts[Operation(s)] = IF Sync(node) THEN <<node>> ELSE @]
\* discarded
<1>1. CASE ~Sync(node) /\ ~begun
  BY <1>1 DEF Push
\* the buffer of a holder gets its first node, a sync node
<1>2. ASSUME NEW s \in Holders, Begun(s), s.buf[Operation(s)] = <<>>, Sync(node)
      PROVE  Pushed(s) \in Holders /\ Begun(Pushed(s))
  <2>1. PICK op \in 0 .. 1 : op = Operation(s)
    BY OperationBuffer
  <2>2. Pushed(s) = Put(s, op, <<node>>, <<node>>)
    BY <1>2, <2>1, StoredFirst DEF Put
  <2>3. <<node>> \in Seq(Nodes) /\ <<node>> # <<>> /\ <<node>>[1] = node
    OBVIOUS
  <2>4. Put(s, op, <<node>>, <<node>>) \in Holders /\ Begun(Put(s, op, <<node>>, <<node>>))
    BY <1>2, <2>3, PutBegins
  <2> QED BY <2>2, <2>4
<1>3. CASE Sync(node) /\ ~begun
  <2>1. Push(h, node) = Pushed(h)
    BY <1>3 DEF Push
  <2> QED BY <1>2, <1>3, <2>1
\* a scan goes on
<1>4. CASE ~Sync(node) /\ begun
  <2>1. PICK op \in 0 .. 1 : op = Operation(h)
    BY OperationBuffer
  <2>2. Push(h, node) = Pushed(h)
    BY <1>4 DEF Push
  <2> DEFINE stored == Stored(h.buf[op], node)
  <2>3. Push(h, node) = Put(h, op, stored, h.ts[op])
    BY <1>4, <2>1, <2>2 DEF Put
  <2>4. h.buf[op] \in Seq(Nodes) /\ h.buf[op] # <<>>
    BY <1>4, <2>1 DEF Holders
  <2>5. stored \in Seq(Nodes) /\ stored # <<>> /\ stored[1] = h.buf[op][1]
    BY <2>4, StoredNext
  <2>6. Sync(stored[1]) /\ h.ts[op] = <<stored[1]>>
    BY <2>4, <2>5 DEF Begun
  <2> HIDE DEF stored
  <2>7. Put(h, op, stored, h.ts[op]) \in Holders /\ Begun(Put(h, op, stored, h.ts[op]))
    BY <2>5, <2>6, PutBegins
  <2> QED BY <2>3, <2>7
\* a scan ends and the next begins
<1>5. CASE Sync(node) /\ begun
  <2>1. PICK s : s = Swapped(h)
    OBVIOUS
  <2>2. s \in Holders /\ Begun(s)
    BY <1>5, <2>1, SwappedBegins
  <2>3. s.buf[Operation(s)] = <<>>
    <3>1. PICK op \in 0 .. 1 : op = Operation(h)
      BY OperationBuffer
    <3>2. s = [h EXCEPT !.avail = op, !.signal = TRUE, !.buf = [@ EXCEPT ![1 - op] = <<>>]]
      BY <2>1, <3>1 DEF Swapped
    <3>3. s.avail = op /\ s.buf[1 - op] = <<>>
      BY <3>2 DEF Holders
    <3> QED BY <3>3 DEF Operation
  <2>4. Push(h, node) = Pushed(s)
    BY <1>5, <2>1 DEF Push
  <2> QED BY <1>2, <1>5, <2>2, <2>3, <2>4
<1> QED BY <1>1, <1>3, <1>4, <1>5

\* A scan that was available stays so.
LEMMA PushAvail ==
    ASSUME NEW h \in Holders, NEW node \in Nodes
    PROVE  h.avail >= 0 => Push(h, node).avail >= 0
<1>1. PICK op \in 0 .. 1 : op = Operation(h)
  BY OperationBuffer
<1>2. Swapped(h) = [h EXCEPT !.avail = op, !.signal = TRUE, !.buf = [@ EXCEPT ![1 - op] = <<>>]]
  BY <1>1 DEF Swapped
<1>3. Swapped(h).avail = op
  BY <1>2 DEF Holders
<1> DEFINE Pushed(s) == [s EXCEPT !.buf[Operation(s)] = Stored(@, node),
                                  !.ts[Operation(s)] = IF Sync(node) THEN <<node>> ELSE @]
<1>4. ASSUME NEW s, s.avail >= 0, Push(h, node) = Pushed(s) PROVE Push(h, node).avail >= 0
  BY <1>4
<1> HIDE DEF Pushed
<1>5. Push(h, node) \in {h, Pushed(h), Pushed(Swapped(h))}
  BY DEF Push, Pushed
<1> QED BY <1>1, <1>3, <1>4, <1>5

LEMMA WaitedBegins ==
    ASSUME NEW h \in Holders, Begun(h)
    PROVE  Waited(h) \in Holders /\ Begun(Waited(h))
  BY DEF Holders, Begun, Waited

LEMMA EmptyBegins == Empty \in Holders /\ Begun(Empty)
  BY DEF Holders, Begun, Empty

\* What happens to the holder when a scan starts: its samples are old ones.
AgedHolder(h) == [h EXCEPT !.buf = [b \in 0 .. 1 |-> Old(@[b])],
                           !.ts = [b \in 0 .. 1 |-> Old(@[b])]]

LEMMA OldNodes ==
    ASSUME NEW nodes \in Seq(Nodes)
    PROVE  /\ Old(nodes) \in Seq(Nodes) /\ Len(Old(nodes)) = Len(nodes)
           /\ \A i \in 1 .. Len(nodes) :
                 /\ Old(nodes)[i] = [nodes[i] EXCEPT !.now = FALSE]
                 /\ Sync(nodes[i]) => Sync(Old(nodes)[i])
<1>1. DOMAIN nodes = 1 .. Len(nodes) /\ Len(nodes) \in Nat
  OBVIOUS
<1>2. ASSUME NEW i \in 1 .. Len(nodes)
      PROVE  /\ [nodes[i] EXCEPT !.now = FALSE] \in Nodes
             /\ Sync(nodes[i]) => Sync([nodes[i] EXCEPT !.now = FALSE])
  <2>1. nodes[i] \in Nodes
    OBVIOUS
  <2> QED BY <2>1 DEF Nodes, Sync
<1>3. Old(nodes) = [i \in 1 .. Len(nodes) |-> [nodes[i] EXCEPT !.now = FALSE]]
  BY <1>1 DEF Old
<1>4. Old(nodes) \in [1 .. Len(nodes) -> Nodes]
  BY <1>2, <1>3
<1>5. Old(nodes) \in Seq(Nodes) /\ Len(Old(nodes)) = Len(nodes)
  BY <1>1, <1>4
<1> QED BY <1>2, <1>3, <1>5

LEMMA AgedBegins ==
    ASSUME NEW h \in Holders, Begun(h)
    PROVE  AgedHolder(h) \in Holders /\ Begun(AgedHolder(h))
<1>1. \A b \in 0 .. 1 : h.buf[b] \in Seq(Nodes) /\ h.ts[b] \in Seq(Nodes)
  BY DEF Holders
<1>2. /\ \A b \in 0 .. 1 : AgedHolder(h).buf[b] = Old(h.buf[b]) /\ AgedHolder(h).ts[b] = Old(h.ts[b])
      /\ AgedHolder(h).avail = h.avail /\ AgedHolder(h).signal = h.signal
  BY DEF AgedHolder, Holders
<1>3. AgedHolder(h) \in Holders
  BY <1>1, OldNodes DEF AgedHolder, Holders
<1>4. \A b \in 0 .. 1 : Old(h.buf[b]) = <<>> <=> h.buf[b] = <<>>
  BY <1>1, OldNodes
<1>5. ASSUME NEW b \in 0 .. 1, h.buf[b] # <<>>
      PROVE  Sync(Old(h.buf[b])[1]) /\ Old(h.ts[b]) = <<Old(h.buf[b])[1]>>
  <2>1. Sync(h.buf[b][1]) /\ h.ts[b] = <<h.buf[b][1]>>
    BY <1>5 DEF Begun
  <2>2. Len(h.buf[b]) >= 1
    BY <1>1, <1>5
  <2>3. Sync(Old(h.buf[b])[1]) /\ Old(h.buf[b])[1] = [h.buf[b][1] EXCEPT !.now = FALSE]
    <3>1. 1 \in 1 .. Len(h.buf[b])
      BY <1>1, <2>2
    <3> QED BY <1>1, <2>1, <3>1, OldNodes
  <2>4. Old(h.ts[b]) = <<[h.buf[b][1] EXCEPT !.now = FALSE]>>
    <3>1. Old(h.ts[b]) \in Seq(Nodes) /\ Len(Old(h.ts[b])) = 1
          /\ Old(h.ts[b])[1] = [h.buf[b][1] EXCEPT !.now = FALSE]
      <4>1. Len(h.ts[b]) = 1 /\ h.ts[b][1] = h.buf[b][1]
        BY <2>1
      <4>2. 1 \in 1 .. Len(h.ts[b])
        BY <4>1
      <4>3. h.ts[b] \in Seq(Nodes)
        BY <1>1
      <4>4. Old(h.ts[b])[1] = [h.ts[b][1] EXCEPT !.now = FALSE]
        BY <4>2, <4>3, OldNodes
      <4>5. Old(h.ts[b]) \in Seq(Nodes) /\ Len(Old(h.ts[b])) = Len(h.ts[b])
        BY <4>3, OldNodes
      <4> QED BY <4>1, <4>4, <4>5
    <3> QED BY <3>1
  <2> QED BY <2>3, <2>4
<1> QED BY <1>2, <1>3, <1>4, <1>5 DEF Begun, Holders

LEMMA NextSamples ==
    ASSUME NEW n \in Nodes
    PROVE  /\ \A pos \in 0 .. RevLen - 1 : [n EXCEPT !.rev = 0, !.pos = pos] \in Nodes
           /\ Following(n) \in Nodes
<1>1. n.now \in BOOLEAN /\ n.rev \in 0 .. 1 /\ n.pos \in -1 .. RevLen - 1 /\ RevLen \in Nat \ {0}
  BY SizeAssumption DEF Nodes
<1>2. ASSUME NEW pos \in 0 .. RevLen - 1, NEW rev \in 0 .. 1
      PROVE  [now |-> n.now, rev |-> rev, pos |-> pos] \in Nodes
  BY <1>1 DEF Nodes
<1>3. ASSUME NEW pos \in 0 .. RevLen - 1
      PROVE  [n EXCEPT !.rev = 0, !.pos = pos] \in Nodes
  <2>1. [n EXCEPT !.rev = 0, !.pos = pos] = [now |-> n.now, rev |-> 0, pos |-> pos]
    <3>1. n = [now |-> n.now, rev |-> n.rev, pos |-> n.pos]
      BY DEF Nodes
    <3> DEFINE r == [n EXCEPT !.rev = 0]
    <3>2. r = [now |-> n.now, rev |-> 0, pos |-> n.pos]
      BY <3>1
    <3>3. [r EXCEPT !.pos = pos] = [now |-> n.now, rev |-> 0, pos |-> pos]
      <4> HIDE DEF r
      <4> QED BY <3>2
    <3>4. [n EXCEPT !.rev = 0, !.pos = pos] = [r EXCEPT !.pos = pos]
      OBVIOUS
    <3> QED BY <3>3, <3>4
  <2>2. [now |-> n.now, rev |-> 0, pos |-> pos] \in Nodes
    <3>1. 0 \in 0 .. 1
      OBVIOUS
    <3> QED BY <1>2, <3>1
  <2> QED BY <2>1, <2>2
<1>4. ASSUME n.pos < RevLen - 1 PROVE Following(n) \in Nodes
  <2>1. Following(n) = [now |-> n.now, rev |-> n.rev, pos |-> n.pos + 1]
    BY <1>4 DEF Following, Nodes
  <2>2. n.pos + 1 \in 0 .. RevLen - 1
    BY <1>1, <1>4
  <2> QED BY <1>1, <1>2, <2>1, <2>2
<1>5. ASSUME ~(n.pos < RevLen - 1) PROVE Following(n) \in Nodes
  <2>1. Following(n) = [now |-> n.now, rev |-> 1 - n.rev, pos |-> 0]
    BY <1>5 DEF Following, Nodes
  <2>2. 1 - n.rev \in 0 .. 1 /\ 0 \in 0 .. RevLen - 1
    BY <1>1
  <2> QED BY <1>1, <1>2, <2>1, <2>2
<1> QED BY <1>3, <1>4, <1>5

(***************************************************************************)
(* Types, and what is left of a program.                                   *)
(***************************************************************************)
Left == todo \in Seq(Steps) /\ \A i \in DOMAIN todo : Placed(todo, i)
CopyInv == At("copy") => hold.avail >= 0
ShapeInv == TypeOK /\ Begun(hold) /\ Left /\ CopyInv

\* the first two steps
ArmsNext == Len(todo) > 1 /\ todo[2].op = "arm"

LEMMA CallBegins ==
    ASSUME NEW program, Good(program), todo' = program
    PROVE  /\ Left'
           /\ \A op \in {"exitLoop", "arm", "send", "await", "copy", "enable"} : ~At(op)'
           /\ ~ArmsNext'
           /\ At("tell")' => Moves(Arg')
<1>1. program \in Seq(Steps) /\ Left'
  BY DEF Good, Sound, Left
<1>2. CASE program = <<>>
  BY <1>1, <1>2 DEF At, Idle, ArmsNext
<1>3. CASE program # <<>>
  <2>1. Opens(program[1]) /\ Head(todo') = program[1]
    BY <1>3, <1>1 DEF Good, Sound
  <2> QED BY <1>1, <2>1 DEF At, Opens, ArmsNext, Good, Sound, Arg
<1> QED BY <1>2, <1>3

LEMMA EndsIdle ==
    ASSUME Fails
    PROVE  Left' /\ Idle' /\ ~ArmsNext' /\ \A op : ~At(op)'
  BY DEF Fails, Left, Idle, ArmsNext, At

\* A step is followed by the next, and which that may be is known.
LEMMA Onward ==
    ASSUME Left, ~Idle, Goes
    PROVE  /\ Left'
           /\ \A i \in DOMAIN todo' : i + 1 \in DOMAIN todo /\ todo'[i] = todo[i + 1]
           /\ At("exitLoop")' => At("lock") \/ At("disable")
           /\ At("arm")' => At("exitLoop")
           /\ ArmsNext' => At("lock")
           /\ At("send")' => At("arm")
           /\ At("await")' => At("send")
           /\ At("copy")' => At("wait")
           /\ At("enable")' => At("reset")
           /\ At("tell")' => \/ Moves(Arg')
                             \/ Scans(Arg') /\ At("enable")
                             \/ ~Scans(Arg') /\ At("exitLoop")
           /\ At("tell") /\ Scans(Arg) => At("delay")'
<1>1. /\ todo \in Seq(Steps) /\ todo # <<>> /\ todo' = Tail(todo)
      /\ \A i \in DOMAIN todo : Placed(todo, i)
  BY DEF Left, Idle, Goes
<1>2. /\ Len(todo) \in Nat \ {0} /\ DOMAIN todo = 1 .. Len(todo)
      /\ todo' \in Seq(Steps) /\ Len(todo') = Len(todo) - 1 /\ DOMAIN todo' = 1 .. Len(todo) - 1
      /\ \A i \in 1 .. Len(todo) - 1 : todo'[i] = todo[i + 1]
      /\ Head(todo) = todo[1]
  BY <1>1
<1>3. \A i \in DOMAIN todo' : i + 1 \in DOMAIN todo /\ todo'[i] = todo[i + 1]
  BY <1>2
<1>4. ASSUME NEW i \in DOMAIN todo' PROVE Placed(todo', i)
  <2>1. Placed(todo, i + 1) /\ todo'[i] = todo[i + 1] /\ i \in 1 .. Len(todo) - 1
    BY <1>1, <1>2, <1>3
  <2>2. /\ i > 1 => todo'[i - 1] = todo[i] /\ i - 1 \in 1 .. Len(todo) - 1
        /\ i > 2 => todo'[i - 2] = todo[i - 1]
        /\ i < Len(todo) - 1 => todo'[i + 1] = todo[i + 2]
    BY <1>2, <2>1
  <2>3. \A op, before : After(todo, i + 1, op, before) => After(todo', i, op, before)
    BY <1>2, <2>1, <2>2 DEF After
  <2> QED BY <1>2, <2>1, <2>2, <2>3 DEF Placed
<1>5. Left'
  BY <1>2, <1>4 DEF Left
<1>6. ASSUME NEW op, At(op)' PROVE Len(todo) > 1 /\ todo[2].op = op /\ Placed(todo, 2)
  <2>1. todo' # <<>> /\ Head(todo') = todo'[1] /\ Head(todo').op = op
    BY <1>2, <1>6 DEF At, Idle
  <2>2. Len(todo) - 1 > 0
    BY <1>2, <2>1
  <2> QED BY <1>1, <1>2, <2>1, <2>2
<1>7. \A op : At(op) <=> todo[1].op = op
  BY <1>1, <1>2 DEF At, Idle
<1>8. \A op, before : At(op)' /\ After(todo, 2, op, before) => todo[1].op \in before
  BY <1>6 DEF After
<1>9. /\ At("exitLoop")' => At("lock") \/ At("disable")
      /\ At("arm")' => At("exitLoop")
      /\ At("send")' => At("arm")
      /\ At("await")' => At("send")
      /\ At("copy")' => At("wait")
      /\ At("enable")' => At("reset")
  BY <1>6, <1>7, <1>8 DEF Placed
<1>10. ArmsNext' => At("lock")
  <2> SUFFICES ASSUME ArmsNext' PROVE At("lock")
    OBVIOUS
  <2>1. Len(todo) > 2 /\ todo[3].op = "arm"
    BY <1>2 DEF ArmsNext
  <2>2. Placed(todo, 3)
    BY <1>1, <1>2, <2>1
  <2> QED BY <1>7, <2>1, <2>2 DEF Placed
<1>11. At("tell")' => Arg' = todo[2].arg
  <2> SUFFICES ASSUME At("tell")' PROVE Arg' = todo[2].arg
    OBVIOUS
  <2>1. Len(todo) > 1
    BY <1>6
  <2>2. todo'[1] = todo[2] /\ Head(todo') = todo'[1]
    BY <1>2, <2>1
  <2> QED BY <2>2 DEF Arg
<1>12. At("tell")' => \/ Moves(Arg')
                      \/ Scans(Arg') /\ At("enable")
                      \/ ~Scans(Arg') /\ At("exitLoop")
  BY <1>6, <1>7, <1>8, <1>11 DEF Placed
<1>13. At("tell") /\ Scans(Arg) => At("delay")'
  <2> SUFFICES ASSUME At("tell"), Scans(Arg) PROVE At("delay")'
    OBVIOUS
  <2>1. todo[1].op = "tell" /\ Scans(todo[1].arg) /\ Placed(todo, 1)
    BY <1>1, <1>2, <1>7 DEF Arg
  <2>2. 1 < Len(todo) /\ todo[2].op = "delay"
    BY <2>1 DEF Placed
  <2>3. todo' # <<>> /\ Head(todo') = todo[2]
    BY <1>2, <2>2
  <2> QED BY <2>2, <2>3 DEF At, Idle
<1> QED BY <1>3, <1>5, <1>9, <1>10, <1>12, <1>13

LEMMA ArgTypes ==
    ASSUME todo \in Seq(Steps)
    PROVE  /\ At("arm") \/ At("send") \/ At("await") => Arg \in Commands(Requests)
           /\ At("tell") => Arg \in Commands(Tellings)
           /\ At("support") => Arg \in Supports
<1>1. ~Idle => Head(todo) \in Steps
  BY DEF Idle
<1>2. ASSUME NEW s \in Steps
      PROVE  /\ s.op \in {"arm", "send", "await"} => s.arg \in Commands(Requests)
             /\ s.op = "tell" => s.arg \in Commands(Tellings)
             /\ s.op = "support" => s.arg \in Supports
  BY DEF Steps
<1> QED BY <1>1, <1>2 DEF At, Arg

LEMMA NothingTyped ==
    /\ NoNode \in Nodes /\ Nothing \in Messages /\ Header \in Messages
    /\ Nothing.kind = "nothing" /\ ~Nothing.own
    /\ Header.kind = "header" /\ ~Header.own
<1>1. NoNode \in Nodes
  BY SizeAssumption DEF NoNode, Nodes
<1> QED BY <1>1 DEF Nothing, Header, Messages, Keys

LEMMA MessagesTyped ==
    /\ \A m \in Messages :
          /\ Foreign(m) \in Messages /\ Foreign(m).kind = m.kind /\ Foreign(m).node = m.node
          /\ ~Foreign(m).own
          /\ Aged(m) \in Messages /\ Aged(m).kind = m.kind /\ Aged(m).own = m.own
    /\ \A node \in Nodes :
          /\ Sample(node) \in Messages /\ Sample(node).kind = "sample" /\ Sample(node).node = node
    /\ \A kind \in Requests, key \in Keys :
          /\ Answer(kind, key) \in Messages /\ Answer(kind, key).kind = kind
          /\ Answer(kind, key).own
<1>1. ASSUME NEW m \in Messages
      PROVE  /\ Foreign(m) \in Messages /\ Foreign(m).kind = m.kind /\ Foreign(m).node = m.node
             /\ ~Foreign(m).own
  BY DEF Foreign, Messages
<1>2. ASSUME NEW m \in Messages
      PROVE  Aged(m) \in Messages /\ Aged(m).kind = m.kind /\ Aged(m).own = m.own
  <2>1. [m.node EXCEPT !.now = FALSE] \in Nodes
    BY DEF Messages, Nodes
  <2>2. Aged(m) = [m EXCEPT !.node = [m.node EXCEPT !.now = FALSE]]
    BY DEF Aged
  <2> QED BY <2>1, <2>2 DEF Messages
<1>3. ASSUME NEW node \in Nodes
      PROVE  Sample(node) \in Messages /\ Sample(node).kind = "sample" /\ Sample(node).node = node
  BY NothingTyped DEF Sample, Header, Messages, Keys
<1>4. ASSUME NEW kind \in Requests, NEW key \in Keys
      PROVE  /\ Answer(kind, key) \in Messages /\ Answer(kind, key).kind = kind
             /\ Answer(kind, key).own
  BY NothingTyped DEF Answer, Messages
<1> QED BY <1>1, <1>2, <1>3, <1>4

\* The line after a request begins, and after a scan does
ForeignLine == [i \in DOMAIN line |-> Foreign(line[i])]
AgedLine == [i \in DOMAIN line |-> Aged(line[i])]

LEMMA LinesMapped ==
    ASSUME line \in Seq(Messages)
    PROVE  /\ ForeignLine \in Seq(Messages) /\ AgedLine \in Seq(Messages)
           /\ Len(ForeignLine) = Len(line) /\ Len(AgedLine) = Len(line)
           /\ DOMAIN ForeignLine = DOMAIN line /\ DOMAIN AgedLine = DOMAIN line
<1>1. DOMAIN line = 1 .. Len(line) /\ Len(line) \in Nat
  OBVIOUS
<1>2. /\ ForeignLine \in [1 .. Len(line) -> Messages]
      /\ AgedLine \in [1 .. Len(line) -> Messages]
  BY <1>1, MessagesTyped DEF ForeignLine, AgedLine
<1> QED BY <1>1, <1>2

LEMMA InitShape == Init => ShapeInv
<1> SUFFICES ASSUME Init PROVE ShapeInv
  OBVIOUS
<1>1. dev \in [kind : Devices, scanning : BOOLEAN, next : Nodes]
  BY NothingTyped DEF Init, DeviceInit
<1>2. Empty \in Holders /\ Begun(Empty)
  BY EmptyBegins
<1>3. got \in [nodes : Seq(Nodes), ts : Seq(Nodes), fresh : BOOLEAN]
  BY DEF Init, NoGrab
<1>4. Idle
  BY DEF Init, Idle
<1>5. TypeOK
  <2>1. todo \in Seq(Steps) /\ line \in Seq(Messages)
        /\ cmds \in Seq(Commands(Requests \cup Tellings))
    BY DEF Init
  <2>2. faults \in 0 .. MaxFaults
    BY SizeAssumption DEF Init
  <2> QED BY <1>1, <1>2, <1>3, <2>1, <2>2, NothingTyped DEF Init, TypeOK, Supports
<1> QED BY <1>2, <1>4, <1>5 DEF ShapeInv, Left, CopyInv, At, Init, Idle

LEMMA CallsShape == ShapeInv /\ Calls => ShapeInv'
<1> SUFFICES ASSUME ShapeInv, Calls PROVE ShapeInv'
  OBVIOUS
<1> USE DEF ShapeInv
<1>1. ASSUME NEW program, Good(program), Call(program) PROVE ShapeInv'
  <2>1. Left' /\ CopyInv'
    BY <1>1, CallBegins DEF Call, CopyInv
  <2>2. NoGrab \in [nodes : Seq(Nodes), ts : Seq(Nodes), fresh : BOOLEAN]
    BY DEF NoGrab
  <2>3. TypeOK'
    BY <1>1, <2>1, <2>2 DEF Call, TypeOK, Left, shared, decoder, history
  <2> QED BY <1>1, <2>1, <2>3 DEF Call, shared
<1>2. CASE Connect
  <2>1. Left' /\ CopyInv'
    BY <1>2, CallBegins, Programs DEF Connect, CopyInv
  <2>2. TypeOK'
    BY <1>2, <2>1, NothingTyped DEF Connect, TypeOK, Left, shared, decoder, history, Supports
  <2> QED BY <1>2, <2>1, <2>2 DEF Connect, shared
<1>3. CASE Disconnect
  <2>1. Left' /\ CopyInv'
    BY <1>3 DEF Disconnect, Left, CopyInv, At, Idle
  <2>2. TypeOK'
    <3>1. line' \in Seq(Messages)
      BY <1>3 DEF Disconnect
    <3> QED BY <1>3, <3>1 DEF Disconnect, TypeOK, decoder, history
  <2> QED BY <1>3, <2>1, <2>2 DEF Disconnect
<1> QED BY <1>1, <1>2, <1>3, Programs DEF Calls

LEMMA CallerShape == ShapeInv /\ Caller => ShapeInv'
<1> SUFFICES ASSUME ShapeInv, Caller PROVE ShapeInv'
  OBVIOUS
<1> USE DEF ShapeInv
<1>1. ~Idle
  BY DEF Caller, At, Lock, Disable, ExitLoop, Arm, Send, Tells, AwaitAnswer, AwaitTimeout, Wakes,
     SendFails, TellFails, Delay,
         SetDtr, Support, ResetHolder, Enable, GrabWait, GrabCopy
<1>2. ASSUME Goes \/ Fails, UNCHANGED hold, ~At("wait")
      PROVE  Left' /\ CopyInv' /\ todo' \in Seq(Steps)
  <2>1. CASE Goes
    BY <1>1, <1>2, <2>1, Onward DEF CopyInv, Left, Goes, TypeOK
  <2>2. CASE Fails
    BY <2>2, EndsIdle DEF CopyInv, Left, Fails
  <2> QED BY <1>2, <2>1, <2>2
<1>4. \A a, b : At(a) /\ At(b) => a = b
  BY DEF At
<1>5. CASE Lock
  <2>1. ForeignLine \in Seq(Messages) /\ Foreign(taken) \in Messages /\ Foreign(answer) \in Messages
    BY LinesMapped, MessagesTyped DEF TypeOK
  <2>2. Left' /\ CopyInv' /\ todo' \in Seq(Steps)
    BY <1>2, <1>4, <1>5 DEF Lock
  <2>3. TypeOK'
    BY <1>5, <2>1, <2>2 DEF Lock, TypeOK, ForeignLine
  <2> QED BY <1>5, <2>2, <2>3 DEF Lock
<1>6. CASE Disable \/ ExitLoop \/ Enable
  <2>1. Left' /\ CopyInv' /\ todo' \in Seq(Steps)
    BY <1>2, <1>4, <1>6 DEF Disable, ExitLoop, Enable
  <2>2. TypeOK'
    BY <1>6, <2>1 DEF Disable, ExitLoop, Enable, TypeOK, decoder, history
  <2> QED BY <1>6, <2>1, <2>2 DEF Disable, ExitLoop, Enable
<1>7. CASE Arm
  <2>1. Left' /\ CopyInv' /\ todo' \in Seq(Steps)
    BY <1>2, <1>4, <1>7 DEF Arm
  <2>2. Arg.kind \in Requests
    BY <1>7, ArgTypes DEF Arm, TypeOK, Commands
  <2>3. TypeOK'
    BY <1>7, <2>1, <2>2 DEF Arm, ResetEvent, TypeOK, decoder, history
  <2> QED BY <1>7, <2>1, <2>3 DEF Arm
<1>8. CASE Send \/ Tells
  <2>1. Left' /\ CopyInv' /\ todo' \in Seq(Steps)
    BY <1>2, <1>4, <1>8 DEF Send, Tells, Sends
  <2>2. Arg \in Commands(Requests \cup Tellings)
    BY <1>8, ArgTypes DEF Send, Tells, TypeOK, Commands
  <2>3. cmds' \in Seq(Commands(Requests \cup Tellings))
    <3>1. cmds \in Seq(Commands(Requests \cup Tellings)) /\ cmds' = Append(cmds, Arg)
      BY <1>8 DEF Send, Tells, Sends, TypeOK
    <3> QED BY <2>2, <3>1
  <2>4. TypeOK'
    BY <1>8, <2>1, <2>3, NothingTyped DEF Send, Tells, Sends, ResetEvent, TypeOK, decoder, history
  <2> QED BY <1>8, <2>1, <2>4 DEF Send, Tells, Sends
<1>9. CASE AwaitAnswer \/ AwaitTimeout \/ Wakes \/ SendFails \/ TellFails
  <2>1. Goes \/ Fails
    BY <1>9 DEF AwaitAnswer, AwaitTimeout, Wakes, SendFails, TellFails
  <2>2. Left' /\ CopyInv' /\ todo' \in Seq(Steps)
    BY <1>2, <1>4, <1>9, <2>1 DEF AwaitAnswer, AwaitTimeout, Wakes, SendFails, TellFails, shared
  <2>3. faults' \in 0 .. MaxFaults
    <3>1. \A n \in {0, 1} : Fault(n) => faults' \in 0 .. MaxFaults
      BY SizeAssumption DEF Fault, TypeOK
    <3> QED BY <1>9, <3>1 DEF AwaitAnswer, AwaitTimeout, Wakes, SendFails, TellFails, TypeOK,
       history
  <2>4. TypeOK'
    <3>1. CASE AwaitAnswer
      BY <2>2, <3>1, NothingTyped DEF AwaitAnswer, TypeOK, decoder, history
    <3>2. CASE AwaitTimeout \/ Wakes \/ SendFails
      BY <2>2, <2>3, <3>2 DEF AwaitTimeout, Wakes, SendFails, TypeOK, shared, decoder
    <3>3. CASE TellFails
      BY <2>2, <2>3, <3>3, NothingTyped DEF TellFails, ResetEvent, TypeOK, decoder
    <3> QED BY <1>9, <3>1, <3>2, <3>3
  <2> QED BY <1>9, <2>2, <2>4 DEF AwaitAnswer, AwaitTimeout, Wakes, SendFails, TellFails, shared
<1>10. CASE Delay \/ SetDtr \/ Support
  <2>1. Left' /\ CopyInv' /\ todo' \in Seq(Steps)
    BY <1>2, <1>4, <1>10 DEF Delay, SetDtr, Support, shared
  <2>2. TypeOK'
    <3>1. CASE Delay
      <4>1. timely' \in BOOLEAN /\ faults' \in 0 .. MaxFaults
        <5>1. \A n \in {0, 1} : Fault(n) => faults' \in 0 .. MaxFaults
          BY SizeAssumption DEF Fault, TypeOK
        <5>2. CASE UNCHANGED <<timely, faults>>
          BY <5>2 DEF TypeOK
        <5>3. CASE timely' = FALSE /\ \E n \in {0, 1} : Fault(n)
          BY <5>1, <5>3
        <5> QED BY <3>1, <5>2, <5>3 DEF Delay
      <4> QED BY <2>1, <3>1, <4>1 DEF Delay, TypeOK, shared, decoder
    <3>2. CASE SetDtr
      BY <2>1, <3>2 DEF SetDtr, TypeOK, shared, decoder, history
    <3>3. CASE Support
      BY <2>1, <3>3, ArgTypes DEF Support, TypeOK, shared, decoder, history
    <3> QED BY <1>10, <3>1, <3>2, <3>3
  <2> QED BY <1>10, <2>1, <2>2 DEF Delay, SetDtr, Support, shared
<1>11. CASE ResetHolder
  <2>1. Goes /\ At("reset")
    BY <1>11 DEF ResetHolder
  <2>2. Left' /\ CopyInv' /\ todo' \in Seq(Steps)
    BY <1>1, <1>4, <2>1, Onward DEF CopyInv, Left, Goes, TypeOK
  <2>3. TypeOK'
    BY <1>11, <2>2, EmptyBegins DEF ResetHolder, TypeOK, decoder, history
  <2> QED BY <1>11, <2>2, <2>3, EmptyBegins DEF ResetHolder
<1>12. CASE GrabWait
  <2>1. /\ hold' = Waited(hold) /\ Waited(hold) \in Holders /\ Begun(Waited(hold))
        /\ Waited(hold).avail = hold.avail
    BY <1>12, WaitedBegins DEF GrabWait, TypeOK, Waited, Holders
  <2>2. CASE Signalled(hold)
    <3>1. Goes /\ hold.avail >= 0
      BY <1>12, <2>2 DEF GrabWait, Signalled, Begun
    <3>2. Left' /\ CopyInv' /\ todo' \in Seq(Steps)
      BY <1>1, <2>1, <3>1, Onward DEF CopyInv, Left, Goes, TypeOK
    <3>3. TypeOK'
      BY <1>12, <2>1, <3>2 DEF GrabWait, TypeOK, decoder, history
    <3> QED BY <2>1, <3>2, <3>3
  <2>3. CASE ~Signalled(hold)
    <3>1. Fails
      BY <1>12, <2>3 DEF GrabWait
    <3>2. Left' /\ CopyInv' /\ todo' \in Seq(Steps)
      BY <3>1, EndsIdle DEF CopyInv, Left, Fails
    <3>3. TypeOK'
      BY <1>12, <2>1, <3>2 DEF GrabWait, TypeOK, decoder, history
    <3> QED BY <2>1, <3>2, <3>3
  <2> QED BY <2>2, <2>3
<1>13. CASE GrabCopy
  <2>1. Left' /\ CopyInv' /\ todo' \in Seq(Steps)
    BY <1>2, <1>4, <1>13 DEF GrabCopy, shared
  <2>2. hold.avail \in 0 .. 1
    BY <1>13 DEF GrabCopy, CopyInv, TypeOK, Holders
  <2>3. Available(hold) \in Seq(Nodes) /\ BeginTs(hold) \in Seq(Nodes)
    BY <2>2 DEF Available, BeginTs, TypeOK, Holders
  <2>4. got' \in [nodes : Seq(Nodes), ts : Seq(Nodes), fresh : BOOLEAN]
    BY <1>13, <2>3 DEF GrabCopy
  <2>5. TypeOK'
    BY <1>13, <2>1, <2>4 DEF GrabCopy, TypeOK, shared, decoder, history
  <2> QED BY <1>13, <2>1, <2>5 DEF GrabCopy, shared
<1> QED BY <1>5, <1>6, <1>7, <1>8, <1>9, <1>10, <1>11, <1>12, <1>13 DEF Caller

LEMMA DecoderShape == ShapeInv /\ Decoder => ShapeInv'
<1> SUFFICES ASSUME ShapeInv, Decoder PROVE ShapeInv'
  OBVIOUS
<1> USE DEF ShapeInv
<1>1. UNCHANGED <<dev, todo, timely, connected, dataLocked, motor, waiting, clean, cmds, faults,
                got>>
  BY DEF Decoder, Decode, Unlock, ToUnpacker, ToWaiter, Store, callerIdle, caller, history
<1>2. hold' \in Holders /\ Begun(hold') /\ (hold.avail >= 0 => hold'.avail >= 0)
  <2>1. CASE hold' = hold
    BY <2>1 DEF TypeOK
  <2>2. CASE hold' = Push(hold, taken.node)
    <3>1. taken.node \in Nodes
      BY DEF TypeOK, Messages
    <3>2. hold.avail >= 0 => Push(hold, taken.node).avail >= 0
      BY PushAvail, <3>1 DEF TypeOK
    <3> QED BY <2>2, <3>1, <3>2, PushBegins DEF TypeOK
  <2> QED BY <2>1, <2>2 DEF Decoder, Decode, Unlock, ToUnpacker, ToWaiter, Store, shared
<1>3. Left' /\ CopyInv'
  BY <1>1, <1>2 DEF Left, CopyInv, At, Idle
<1>4. /\ taken' \in Messages /\ answer' \in Messages /\ line' \in Seq(Messages)
      /\ phase' \in {"idle", "decoding", "listening", "storing"}
      /\ unpacking' \in BOOLEAN /\ loop' \in BOOLEAN /\ answered' \in BOOLEAN
  <2>1. CASE Decode
    <3>1. line \in Seq(Messages) /\ line # <<>>
      BY <2>1 DEF Decode, TypeOK
    <3>2. Head(line) \in Messages /\ Tail(line) \in Seq(Messages)
      BY <3>1
    <3> QED BY <2>1, <3>2, NothingTyped DEF Decode, TypeOK
  <2>2. CASE Unlock \/ ToUnpacker \/ ToWaiter \/ Store
    BY <2>2, NothingTyped DEF Unlock, ToUnpacker, ToWaiter, Store, TypeOK, shared
  <2> QED BY <2>1, <2>2 DEF Decoder
<1>5. TypeOK'
  BY <1>1, <1>2, <1>4 DEF TypeOK
<1> QED BY <1>2, <1>3, <1>5

LEMMA DeviceShape == ShapeInv /\ Device => ShapeInv'
<1> SUFFICES ASSUME ShapeInv, Device PROVE ShapeInv'
  OBVIOUS
<1> USE DEF ShapeInv
<1>1. UNCHANGED <<todo, timely, connected, dataLocked, motor, got, unpacking, loop, waiting,
                  answered, answer, phase, clean>>
  BY DEF Device, DeviceTakes, DeviceLoses, DeviceSamples, caller, shared, decoder, history
<1>2. cmds' \in Seq(Commands(Requests \cup Tellings))
  <2>1. cmds \in Seq(Commands(Requests \cup Tellings))
    BY DEF TypeOK
  <2> QED BY <2>1 DEF Device, DeviceTakes, DeviceLoses, DeviceSamples
<1>3. faults' \in 0 .. MaxFaults
  BY SizeAssumption DEF Device, DeviceTakes, DeviceLoses, DeviceSamples, Fault, TypeOK, history
<1>4. ASSUME dev' \in [kind : Devices, scanning : BOOLEAN, next : Nodes],
             hold' \in Holders, Begun(hold'), hold'.avail = hold.avail, taken' \in Messages,
             line' \in Seq(Messages)
      PROVE  ShapeInv'
  <2>1. TypeOK'
    BY <1>1, <1>2, <1>3, <1>4 DEF TypeOK
  <2>2. Left' /\ CopyInv'
    BY <1>1, <1>4 DEF Left, CopyInv, At, Idle
  <2> QED BY <1>4, <2>1, <2>2
<1>5. dev.next \in Nodes
  BY DEF TypeOK
<1>6. CASE DeviceTakes
  <2>1. cmds # <<>> /\ Obeys(Head(cmds)) /\ Head(cmds) \in Commands(Requests \cup Tellings)
    BY <1>6 DEF DeviceTakes, TypeOK
  <2>2. ASSUME NEW pos \in 0 .. RevLen - 1, ScanStarts(pos) PROVE ShapeInv'
    <3>1. dev' = [dev EXCEPT !.scanning = TRUE,
                             !.next = [dev.next EXCEPT !.rev = 0, !.pos = pos]]
      BY <2>2 DEF ScanStarts
    <3>2. [dev.next EXCEPT !.rev = 0, !.pos = pos] \in Nodes
      BY <1>5, NextSamples
    <3>3. dev' \in [kind : Devices, scanning : BOOLEAN, next : Nodes]
      BY <3>1, <3>2 DEF TypeOK
    <3>4. taken' = Aged(taken) /\ hold' = AgedHolder(hold) /\ line' = Append(AgedLine, Header)
      BY <2>2 DEF ScanStarts, AgedHolder, AgedLine
    <3>5. AgedLine \in Seq(Messages) /\ Aged(taken) \in Messages
      BY LinesMapped, MessagesTyped DEF TypeOK
    <3>6. line' \in Seq(Messages)
      BY <3>4, <3>5, NothingTyped
    <3>7. hold' \in Holders /\ Begun(hold') /\ hold'.avail = hold.avail
      <4>1. AgedHolder(hold).avail = hold.avail
        BY DEF AgedHolder, TypeOK, Holders
      <4> QED BY <3>4, <4>1, AgedBegins DEF TypeOK
    <3> QED BY <1>4, <3>3, <3>4, <3>5, <3>6, <3>7
  <2>3. Ended(dev) \in [kind : Devices, scanning : BOOLEAN, next : Nodes]
    <3>1. [dev.next EXCEPT !.rev = 0, !.pos = 0] \in Nodes
      <4>1. 0 \in 0 .. RevLen - 1
        BY SizeAssumption
      <4> QED BY <1>5, <4>1, NextSamples
    <3>2. Ended(dev) = [dev EXCEPT !.scanning = FALSE,
                                   !.next = [dev.next EXCEPT !.rev = 0, !.pos = 0]]
      BY DEF Ended
    <3> QED BY <3>1, <3>2 DEF TypeOK
  <2>4. CASE dev' \in {dev, Ended(dev)} /\ UNCHANGED <<line, taken, hold>>
    BY <1>4, <2>3, <2>4 DEF TypeOK
  <2>5. CASE /\ Head(cmds).kind \notin Tellings
             /\ dev' = Ended(dev) /\ UNCHANGED <<taken, hold>>
             /\ line' = Append(line, Answer(Head(cmds).kind, Head(cmds).key))
    <3>1. Head(cmds).kind \in Requests /\ Head(cmds).key \in Keys
      BY <2>1, <2>5 DEF Commands
    <3>2. Answer(Head(cmds).kind, Head(cmds).key) \in Messages /\ line \in Seq(Messages)
      BY <3>1, MessagesTyped DEF TypeOK
    <3>3. line' \in Seq(Messages)
      BY <2>5, <3>2
    <3> QED BY <1>4, <2>3, <2>5, <3>3 DEF TypeOK
  <2> QED BY <2>1, <2>2, <2>4, <2>5 DEF Obeys, Tellings
<1>7. CASE DeviceLoses
  BY <1>4, <1>7 DEF DeviceLoses, shared, decoder, TypeOK
<1>8. CASE DeviceSamples
  <2>1. Following(dev.next) \in Nodes /\ Sample(dev.next) \in Messages
    BY <1>5, NextSamples, MessagesTyped
  <2>2. dev' = [dev EXCEPT !.next = Following(dev.next)] /\ UNCHANGED <<hold, taken>>
        /\ line' = Append(line, Sample(dev.next)) /\ line \in Seq(Messages)
    BY <1>8 DEF DeviceSamples, shared, decoder, TypeOK
  <2>3. line' \in Seq(Messages)
    BY <2>1, <2>2
  <2>4. dev' \in [kind : Devices, scanning : BOOLEAN, next : Nodes]
    BY <2>1, <2>2 DEF TypeOK
  <2> QED BY <1>4, <2>2, <2>3, <2>4 DEF TypeOK
<1> QED BY <1>6, <1>7, <1>8 DEF Device

LEMMA Shape == Spec => []ShapeInv
<1>1. ShapeInv /\ UNCHANGED vars => ShapeInv'
  BY DEF ShapeInv, TypeOK, Left, CopyInv, At, Idle, vars, caller, shared, decoder, history
<1>2. ShapeInv /\ [Next]_vars => ShapeInv'
  BY <1>1, CallsShape, CallerShape, DecoderShape, DeviceShape DEF Next
<1> QED BY InitShape, <1>2, PTL DEF Spec

\* What the variables may hold, whatever the calls and the device do
THEOREM TypeCorrect == Spec => []TypeOK
<1>1. ShapeInv => TypeOK
  BY DEF ShapeInv
<1> QED BY <1>1, Shape, PTL

\* What may be grabbed begins with a sync node whose time was kept, whatever the caller
\* and the decoder do to the holder in between (ScanDataHolder).
THEOREM HolderCorrect == Spec => []HolderBegins
<1>1. ShapeInv => HolderBegins
  BY DEF ShapeInv, Begun, HolderBegins
<1> QED BY <1>1, Shape, PTL

(***************************************************************************)
(* The answers.  A request is made with the codec out of the loop mode,    *)
(* with no answer stored, and with what is under way known to be old; a    *)
(* scan begins only while its call is in the delay after the command.      *)
(***************************************************************************)
NoStart == \A i \in DOMAIN cmds : ~Scans(cmds[i])
NoHeader == \A i \in DOMAIN line : line[i].kind # "header"
Armed == At("arm") \/ At("send") \/ At("await")

ThreadInv ==
    /\ ~connected => Idle /\ ~unpacking
    /\ phase = "idle" => taken.kind = "nothing"
    /\ phase = "storing" => IsAnswer(taken)
LockInv ==
    /\ ArmsNext \/ At("arm") => dataLocked
    /\ dataLocked => ~answer.own
LoopInv ==
    timely =>
        /\ Armed => ~loop
        /\ ~NoStart \/ ~NoHeader => At("delay")
OwnInv ==
    /\ At("send") \/ At("await") =>
          (answer.own => answered) /\ (clean /\ answered => answer.own)
    /\ clean => /\ IsAnswer(taken) => taken.own
                /\ \A i \in DOMAIN line : IsAnswer(line[i]) => line[i].own
AnswerInv == ThreadInv /\ LockInv /\ LoopInv /\ OwnInv

\* A step that the caller does, or that ends its call
LEMMA Afterwards ==
    ASSUME Left, ~Idle, Goes \/ Fails
    PROVE  /\ Left'
           /\ At("exitLoop")' => At("lock") \/ At("disable")
           /\ At("arm")' => At("exitLoop") /\ ArmsNext
           /\ ArmsNext' => At("lock")
           /\ At("send")' => At("arm")
           /\ At("await")' => At("send")
           /\ At("copy")' => At("wait")
           /\ At("enable")' => At("reset")
           /\ At("tell")' => \/ Moves(Arg')
                             \/ Scans(Arg') /\ At("enable")
                             \/ ~Scans(Arg') /\ At("exitLoop")
<1>1. CASE Goes
  <2>1. At("arm")' => ArmsNext
    <3> SUFFICES ASSUME At("arm")' PROVE ArmsNext
      OBVIOUS
    <3>1. todo \in Seq(Steps) /\ todo # <<>> /\ todo' = Tail(todo)
      BY <1>1 DEF Left, Idle, Goes
    <3>2. todo' # <<>> /\ Head(todo').op = "arm"
      BY DEF At, Idle
    <3>3. Len(todo) > 1 /\ Head(todo') = todo[2]
      BY <3>1, <3>2
    <3> QED BY <3>2, <3>3 DEF ArmsNext
  <2> QED BY <1>1, <2>1, Onward
<1>2. CASE Fails
  BY <1>2, EndsIdle
<1> QED BY <1>1, <1>2

LEMMA InitAnswer == Init => AnswerInv
  BY NothingTyped DEF Init, AnswerInv, ThreadInv, LockInv, LoopInv, OwnInv, Armed, At, Idle,
     ArmsNext, NoStart, NoHeader, IsAnswer

LEMMA CallsAnswer == ShapeInv /\ AnswerInv /\ Calls => AnswerInv'
<1> SUFFICES ASSUME ShapeInv, AnswerInv, Calls PROVE AnswerInv'
  OBVIOUS
<1> USE DEF ShapeInv, AnswerInv
<1>1. Idle /\ \A op : ~At(op)
  BY DEF Calls, Call, Connect, Disconnect, At
<1>2. timely => NoStart /\ NoHeader
  BY <1>1 DEF LoopInv
<1>3. ASSUME NEW program, Good(program), Call(program) PROVE AnswerInv'
  <2>1. connected' /\ ~Armed' /\ ~ArmsNext' /\ ~At("arm")' /\ ~At("send")' /\ ~At("await")'
    BY <1>3, CallBegins DEF Call, Armed
  <2>2. ThreadInv' /\ LockInv'
    BY <1>3, <2>1 DEF Call, ThreadInv, LockInv, shared, decoder
  <2>3. LoopInv' /\ OwnInv'
    BY <1>2, <1>3, <2>1 DEF Call, LoopInv, OwnInv, NoStart, NoHeader, shared, decoder, history
  <2> QED BY <2>2, <2>3
<1>4. CASE Connect
  <2>1. connected' /\ ~Armed' /\ ~ArmsNext' /\ ~At("arm")' /\ ~At("send")' /\ ~At("await")'
    BY <1>4, CallBegins, Programs DEF Connect, Armed
  <2>2. ThreadInv' /\ LockInv'
    BY <1>4, <2>1, NothingTyped DEF Connect, ThreadInv, LockInv, shared
  <2>3. LoopInv'
    BY <1>2, <1>4, <2>1 DEF Connect, LoopInv, NoStart, NoHeader, history
  <2>4. OwnInv'
    BY <1>4, <2>1, NothingTyped DEF Connect, OwnInv, IsAnswer
  <2> QED BY <2>2, <2>3, <2>4
<1>5. CASE Disconnect
  <2>1. Idle' /\ ~ArmsNext' /\ \A op : ~At(op)'
    BY <1>1, <1>5 DEF Disconnect, Idle, At, ArmsNext
  <2>2. ThreadInv' /\ LockInv'
    BY <1>5, <2>1 DEF Disconnect, ThreadInv, LockInv, decoder
  <2>3. LoopInv'
    BY <1>2, <1>5, <2>1 DEF Disconnect, LoopInv, NoStart, NoHeader, Armed, history
  <2>4. OwnInv'
    BY <1>5, <2>1 DEF Disconnect, OwnInv, decoder, history
  <2> QED BY <2>2, <2>3, <2>4
<1> QED BY <1>3, <1>4, <1>5, Programs DEF Calls

LEMMA CallerAnswer == ShapeInv /\ AnswerInv /\ Caller => AnswerInv'
<1> SUFFICES ASSUME ShapeInv, AnswerInv, Caller PROVE AnswerInv'
  OBVIOUS
<1> USE DEF ShapeInv, AnswerInv
<1>1. ~Idle /\ connected
  BY DEF Caller, At, Lock, Disable, ExitLoop, Arm, Send, Tells, AwaitAnswer, AwaitTimeout, Wakes,
     SendFails, TellFails, Delay,
         SetDtr, Support, ResetHolder, Enable, GrabWait, GrabCopy, ThreadInv
<1>2. Goes \/ Fails
  BY DEF Caller, Lock, Disable, ExitLoop, Arm, Send, Tells, Sends, AwaitAnswer, AwaitTimeout,
     Wakes, SendFails, TellFails,
         Delay, SetDtr, Support, ResetHolder, Enable, GrabWait, GrabCopy
<1>3. /\ At("arm")' => At("exitLoop") /\ ArmsNext
      /\ ArmsNext' => At("lock")
      /\ At("send")' => At("arm")
      /\ At("await")' => At("send")
  BY <1>1, <1>2, Afterwards
<1>4. \A a, b : At(a) /\ At(b) => a = b
  BY DEF At
<1>5. /\ connected' = connected /\ phase' = phase /\ (timely' => timely)
      /\ cmds \in Seq(Commands(Requests \cup Tellings))
  BY DEF Caller, Lock, Disable, ExitLoop, Arm, Send, Tells, Sends, AwaitAnswer, AwaitTimeout,
     Wakes, SendFails, TellFails, Delay,
         SetDtr, Support, ResetHolder, Enable, GrabWait, GrabCopy, decoder, history, TypeOK
\* a step that is not one of a request
<1>6. ASSUME UNCHANGED <<cmds, line, taken, clean, answer, dataLocked>>,
             ~At("lock"), ~At("arm"), ~At("send"), ~At("exitLoop"),
             timely' => NoStart /\ NoHeader
      PROVE  AnswerInv'
  <2>1. ~Armed' /\ ~ArmsNext' /\ ~At("arm")' /\ ~At("send")' /\ ~At("await")'
    BY <1>3, <1>6 DEF Armed
  <2>2. ThreadInv' /\ LockInv'
    BY <1>1, <1>5, <1>6, <2>1 DEF ThreadInv, LockInv
  <2>3. LoopInv' /\ OwnInv'
    BY <1>5, <1>6, <2>1 DEF LoopInv, OwnInv, NoStart, NoHeader
  <2> QED BY <2>2, <2>3
<1>7. timely /\ ~At("delay") => NoStart /\ NoHeader
  BY DEF LoopInv
<1>8. CASE Lock
  <2>1. /\ At("lock") /\ dataLocked' = TRUE /\ answer' = Foreign(answer)
        /\ clean' = ~AnswerUnderWay /\ taken' = Foreign(taken) /\ line' = ForeignLine
        /\ cmds' = cmds /\ taken \in Messages /\ answer \in Messages /\ line \in Seq(Messages)
    BY <1>8 DEF Lock, ForeignLine, TypeOK
  <2>2. ~At("arm")' /\ ~At("send")' /\ ~At("await")' /\ ~Armed' /\ (timely => NoStart /\ NoHeader)
    BY <1>3, <1>4, <1>7, <2>1 DEF Armed
  <2>3. /\ taken'.kind = taken.kind /\ ~answer'.own
        /\ \A i \in DOMAIN line' : i \in DOMAIN line /\ line'[i].kind = line[i].kind
    <3>1. \A i \in DOMAIN line' : i \in DOMAIN line /\ line'[i] = Foreign(line[i]) /\ line[i] \in Messages
      BY <2>1, LinesMapped DEF ForeignLine
    <3> QED BY <2>1, <3>1, MessagesTyped
  <2>4. ThreadInv' /\ LockInv'
    BY <1>1, <1>5, <2>1, <2>3 DEF ThreadInv, LockInv, IsAnswer
  <2>5. LoopInv'
    BY <1>5, <2>1, <2>2, <2>3 DEF LoopInv, NoStart, NoHeader
  <2>6. OwnInv'
    BY <2>1, <2>2, <2>3 DEF OwnInv, AnswerUnderWay, IsAnswer
  <2> QED BY <2>4, <2>5, <2>6
<1>9. CASE ExitLoop
  <2>1. /\ At("exitLoop") /\ loop' = FALSE
        /\ UNCHANGED <<dataLocked, answer, cmds, line, taken, clean>>
    BY <1>9 DEF ExitLoop, decoder, history
  <2>2. ~At("send")' /\ ~At("await")' /\ (timely => NoStart /\ NoHeader) /\ ~ArmsNext'
    BY <1>3, <1>4, <1>7, <2>1
  <2>3. ThreadInv' /\ LockInv'
    BY <1>1, <1>3, <1>5, <2>1, <2>2 DEF ThreadInv, LockInv
  <2>4. LoopInv' /\ OwnInv'
    BY <1>5, <2>1, <2>2 DEF LoopInv, OwnInv, NoStart, NoHeader
  <2> QED BY <2>3, <2>4
<1>10. CASE Arm
  <2>1. /\ At("arm") /\ dataLocked' = FALSE /\ answered' = FALSE
        /\ UNCHANGED <<loop, answer, cmds, line, taken, clean>>
    BY <1>10 DEF Arm, ResetEvent, decoder, history
  <2>2. /\ ~At("arm")' /\ ~At("await")' /\ (timely => NoStart /\ NoHeader) /\ ~ArmsNext'
        /\ dataLocked /\ ~answer.own /\ (timely => ~loop)
    BY <1>3, <1>4, <1>7, <2>1 DEF LockInv, LoopInv, Armed
  <2>3. ThreadInv' /\ LockInv'
    BY <1>1, <1>5, <2>1, <2>2 DEF ThreadInv, LockInv
  <2>4. LoopInv' /\ OwnInv'
    BY <1>5, <2>1, <2>2 DEF LoopInv, OwnInv, NoStart, NoHeader
  <2> QED BY <2>3, <2>4
<1>11. CASE Send
  <2>1. /\ At("send") /\ cmds' = Append(cmds, Arg) /\ Arg \in Commands(Requests)
        /\ UNCHANGED <<loop, dataLocked, answered, answer, line, taken, clean>>
    BY <1>11, ArgTypes DEF Send, Sends, decoder, history, TypeOK
  <2>2. /\ ~At("arm")' /\ ~At("send")' /\ (timely => NoStart /\ NoHeader) /\ ~ArmsNext'
        /\ (timely => ~loop)
    BY <1>3, <1>4, <1>7, <2>1 DEF LoopInv, Armed
  <2>3. ~Scans(Arg)
    BY <2>1 DEF Commands, Requests, Scans
  <2>4. timely => NoStart'
    BY <1>5, <2>1, <2>2, <2>3 DEF NoStart
  <2>5. ThreadInv' /\ LockInv'
    BY <1>1, <1>5, <2>1, <2>2 DEF ThreadInv, LockInv
  <2>6. LoopInv' /\ OwnInv'
    BY <1>5, <2>1, <2>2, <2>4 DEF LoopInv, OwnInv, NoHeader
  <2> QED BY <2>5, <2>6
<1>12. CASE Tells
  <2>1. /\ At("tell") /\ cmds' = Append(cmds, Arg) /\ answer' = Nothing
        /\ UNCHANGED <<dataLocked, line, taken, clean>>
    BY <1>12 DEF Tells, Sends, decoder, history
  <2>2. /\ ~At("arm")' /\ ~At("send")' /\ ~At("await")' /\ ~ArmsNext'
        /\ (timely => NoStart /\ NoHeader)
        /\ ~Armed'
    BY <1>3, <1>4, <1>7, <2>1 DEF Armed
  <2>3. timely /\ ~Scans(Arg) => NoStart'
    BY <1>5, <2>1, <2>2 DEF NoStart
  <2>4. Scans(Arg) => At("delay")'
    BY <1>1, <1>12, <2>1, Onward DEF Tells, Sends
  <2>5. ThreadInv' /\ LockInv'
    BY <1>1, <1>5, <2>1, <2>2, NothingTyped DEF ThreadInv, LockInv
  <2>6. LoopInv' /\ OwnInv'
    BY <1>5, <2>1, <2>2, <2>3, <2>4 DEF LoopInv, OwnInv, NoHeader
  <2> QED BY <2>5, <2>6
<1>13. CASE AwaitAnswer
  <2>1. /\ At("await") /\ answer' = Nothing
        /\ UNCHANGED <<loop, dataLocked, cmds, line, taken, clean>>
    BY <1>13 DEF AwaitAnswer, decoder, history
  <2>2. /\ ~At("arm")' /\ ~At("send")' /\ ~At("await")' /\ ~ArmsNext'
        /\ (timely => NoStart /\ NoHeader)
        /\ ~Armed'
    BY <1>3, <1>4, <1>7, <2>1 DEF Armed
  <2>3. ThreadInv' /\ LockInv'
    BY <1>1, <1>5, <2>1, <2>2, NothingTyped DEF ThreadInv, LockInv
  <2>4. LoopInv' /\ OwnInv'
    BY <1>5, <2>1, <2>2 DEF LoopInv, OwnInv, NoStart, NoHeader
  <2> QED BY <2>3, <2>4
<1>14. CASE Delay
  <2>1. timely' => NoStart /\ NoHeader
    BY <1>14 DEF Delay, Settled, NoStart, NoHeader
  <2>2. UNCHANGED <<cmds, line, taken, clean, answer, dataLocked>> /\ At("delay")
    BY <1>14 DEF Delay, shared, decoder
  <2> QED BY <1>4, <1>6, <2>1, <2>2
<1>15. CASE \/ Disable \/ AwaitTimeout \/ Wakes \/ SetDtr \/ Support \/ ResetHolder \/ Enable
            \/ GrabWait \/ GrabCopy
  <2>1. /\ UNCHANGED <<cmds, line, taken, clean, answer, dataLocked>>
        /\ \E op \in {"disable", "await", "dtr", "support", "reset", "enable", "wait", "copy"} : At(op)
    BY <1>15 DEF Disable, AwaitTimeout, Wakes, SetDtr, Support, ResetHolder, Enable, GrabWait,
       GrabCopy, shared, decoder, history
  <2>2. timely' => NoStart /\ NoHeader
    BY <1>4, <1>5, <1>7, <2>1
  <2> QED BY <1>4, <1>6, <2>1, <2>2
\* a message that is not sent
<1>16. CASE SendFails
  <2>1. /\ At("send")
        /\ UNCHANGED <<loop, dataLocked, answered, answer, cmds, line, taken, clean>>
    BY <1>16 DEF SendFails, shared, decoder
  <2>2. /\ ~At("arm")' /\ ~At("send")' /\ (timely => NoStart /\ NoHeader) /\ ~ArmsNext'
        /\ (timely => ~loop)
    BY <1>3, <1>4, <1>7, <2>1 DEF LoopInv, Armed
  <2>3. ThreadInv' /\ LockInv'
    BY <1>1, <1>5, <2>1, <2>2 DEF ThreadInv, LockInv
  <2>4. LoopInv' /\ OwnInv'
    BY <1>5, <2>1, <2>2 DEF LoopInv, OwnInv, NoStart, NoHeader
  <2> QED BY <2>3, <2>4
<1>17. CASE TellFails
  <2>1. /\ At("tell") /\ answer' = Nothing /\ ~timely'
        /\ UNCHANGED <<dataLocked, line, taken, clean>>
    BY <1>17 DEF TellFails, decoder
  <2>2. ~At("arm")' /\ ~At("send")' /\ ~At("await")' /\ ~ArmsNext'
    BY <1>3, <1>4, <2>1
  <2>3. ThreadInv' /\ LockInv'
    BY <1>1, <1>5, <2>1, <2>2, NothingTyped DEF ThreadInv, LockInv
  <2>4. LoopInv' /\ OwnInv'
    BY <2>1, <2>2 DEF LoopInv, OwnInv
  <2> QED BY <2>3, <2>4
<1> QED BY <1>8, <1>9, <1>10, <1>11, <1>12, <1>13, <1>14, <1>15, <1>16, <1>17 DEF Caller

LEMMA DecoderAnswer == ShapeInv /\ AnswerInv /\ Decoder => AnswerInv'
<1> SUFFICES ASSUME ShapeInv, AnswerInv, Decoder PROVE AnswerInv'
  OBVIOUS
<1> USE DEF ShapeInv, AnswerInv
<1>1. /\ UNCHANGED <<todo, connected, dataLocked, clean, timely, cmds, unpacking>>
      /\ taken \in Messages /\ line \in Seq(Messages)
  BY DEF Decoder, Decode, Unlock, ToUnpacker, ToWaiter, Store, callerIdle, caller, history, shared,
     TypeOK
<1>2. (Idle' <=> Idle) /\ (ArmsNext' <=> ArmsNext) /\ (NoStart' <=> NoStart)
      /\ \A op : At(op)' <=> At(op)
  BY <1>1 DEF Idle, ArmsNext, NoStart, At
<1>3. CASE Decode
  <2>1. /\ phase = "idle" /\ line # <<>> /\ line' = Tail(line) /\ UNCHANGED <<answered, answer>>
        /\ loop' = (loop \/ Head(line).kind = "header")
        /\ phase' = "decoding" \/ (phase' = "idle" /\ taken' = Nothing)
        /\ taken' \in {Head(line), Nothing}
    <3> DEFINE passes == IF loop THEN Head(line).kind = "sample" ELSE IsAnswer(Head(line))
    <3>1. /\ phase = "idle" /\ line # <<>> /\ line' = Tail(line) /\ UNCHANGED <<answered, answer>>
          /\ loop' = (loop \/ Head(line).kind = "header")
          /\ phase' = IF passes THEN "decoding" ELSE "idle"
          /\ taken' = IF passes THEN Head(line) ELSE Nothing
      BY <1>3 DEF Decode
    <3> HIDE DEF passes
    <3> QED BY <3>1
  <2>2. /\ Head(line) = line[1] /\ 1 \in DOMAIN line
        /\ \A i \in DOMAIN line' : i + 1 \in DOMAIN line /\ line'[i] = line[i + 1]
    BY <1>1, <2>1
  <2>3. ~NoHeader' => ~NoHeader
    BY <2>2 DEF NoHeader
  <2>4. ThreadInv'
    BY <1>1, <1>2, <2>1, NothingTyped DEF ThreadInv
  <2>5. LockInv'
    BY <1>1, <1>2, <2>1 DEF LockInv
  <2>6. LoopInv'
    <3>1. timely /\ Armed' => ~loop'
      <4> SUFFICES ASSUME timely, Armed' PROVE ~loop'
        OBVIOUS
      <4>1. Armed /\ ~At("delay")
        BY <1>2 DEF Armed, At
      <4>2. NoHeader /\ ~loop
        BY <4>1 DEF LoopInv
      <4> QED BY <2>1, <2>2, <4>2 DEF NoHeader
    <3> QED BY <1>1, <1>2, <2>3, <3>1 DEF LoopInv
  <2>7. OwnInv'
    BY <1>1, <1>2, <2>1, <2>2, NothingTyped DEF OwnInv, IsAnswer
  <2> QED BY <2>4, <2>5, <2>6, <2>7
<1>4. CASE Unlock \/ ToUnpacker \/ ToWaiter
  <2>1. UNCHANGED <<line, loop, answered, answer>>
    BY <1>4 DEF Unlock, ToUnpacker, ToWaiter, shared
  <2>2. \/ phase' = "listening" /\ taken' = taken
        \/ phase' = "storing" /\ taken' = taken /\ IsAnswer(taken)
        \/ phase' = "idle" /\ taken' = Nothing
    BY <1>4 DEF Unlock, ToUnpacker, ToWaiter
  <2>3. ThreadInv'
    BY <1>1, <1>2, <2>2, NothingTyped DEF ThreadInv
  <2>4. LockInv' /\ LoopInv'
    BY <1>1, <1>2, <2>1 DEF LockInv, LoopInv, Armed, NoHeader
  <2>5. OwnInv'
    BY <1>1, <1>2, <2>1, <2>2, NothingTyped DEF OwnInv, IsAnswer
  <2> QED BY <2>3, <2>4, <2>5
<1>5. CASE Store
  <2>1. /\ phase = "storing" /\ ~dataLocked /\ answer' = taken /\ answered' = TRUE
        /\ phase' = "idle" /\ taken' = Nothing /\ UNCHANGED <<line, loop>>
    BY <1>5 DEF Store
  <2>2. ThreadInv' /\ LockInv' /\ LoopInv'
    BY <1>1, <1>2, <2>1, NothingTyped DEF ThreadInv, LockInv, LoopInv, Armed, NoHeader
  <2>3. OwnInv'
    BY <1>1, <1>2, <2>1, NothingTyped DEF ThreadInv, OwnInv, IsAnswer
  <2> QED BY <2>2, <2>3
<1> QED BY <1>3, <1>4, <1>5 DEF Decoder

LEMMA DeviceAnswer == ShapeInv /\ AnswerInv /\ Device => AnswerInv'
<1> SUFFICES ASSUME ShapeInv, AnswerInv, Device PROVE AnswerInv'
  OBVIOUS
<1> USE DEF ShapeInv, AnswerInv
<1>1. /\ UNCHANGED <<todo, connected, dataLocked, clean, timely, unpacking, loop, answered, answer,
                   phase>>
      /\ taken \in Messages /\ line \in Seq(Messages)
      /\ cmds \in Seq(Commands(Requests \cup Tellings))
  BY DEF Device, DeviceTakes, DeviceLoses, DeviceSamples, caller, history, shared, decoder, TypeOK
<1>2. (Idle' <=> Idle) /\ (ArmsNext' <=> ArmsNext) /\ \A op : At(op)' <=> At(op)
  BY <1>1 DEF Idle, ArmsNext, At
<1>3. LockInv'
  BY <1>1, <1>2 DEF LockInv
<1>4. NoStart => NoStart'
  BY <1>1 DEF Device, DeviceTakes, DeviceLoses, DeviceSamples, NoStart
<1>5. ASSUME taken'.kind = taken.kind, taken'.own = taken.own,
             \A i \in DOMAIN line' :
                 \/ i \in DOMAIN line /\ line'[i].kind = line[i].kind /\ line'[i].own = line[i].own
                 \/ line'[i].kind = "sample"
                 \/ line'[i].kind = "header" /\ ~NoStart
                 \/ line'[i].kind # "header" /\ line'[i].own
      PROVE  AnswerInv'
  <2>1. ThreadInv'
    BY <1>1, <1>2, <1>5 DEF ThreadInv, IsAnswer
  <2>2. NoHeader /\ NoStart => NoHeader'
    BY <1>5 DEF NoHeader
  <2>3. LoopInv'
    BY <1>1, <1>2, <1>4, <2>2 DEF LoopInv, Armed
  <2>4. OwnInv'
    BY <1>1, <1>2, <1>5 DEF OwnInv, IsAnswer
  <2> QED BY <1>3, <2>1, <2>3, <2>4
<1>6. CASE DeviceTakes
  <2>1. cmds # <<>> /\ Obeys(Head(cmds)) /\ Head(cmds) \in Commands(Requests \cup Tellings)
        /\ Head(cmds) = cmds[1] /\ 1 \in DOMAIN cmds
    BY <1>1, <1>6 DEF DeviceTakes
  <2>2. ASSUME NEW pos \in 0 .. RevLen - 1, ScanStarts(pos), Scans(Head(cmds)) PROVE AnswerInv'
    <3>1. taken' = Aged(taken) /\ line' = Append(AgedLine, Header) /\ ~NoStart
      BY <2>1, <2>2 DEF ScanStarts, AgedLine, NoStart
    <3>2. /\ AgedLine \in Seq(Messages) /\ DOMAIN AgedLine = DOMAIN line
          /\ \A i \in DOMAIN line : AgedLine[i] = Aged(line[i]) /\ line[i] \in Messages
      BY <1>1, LinesMapped DEF AgedLine
    <3>3. \A i \in DOMAIN line' : \/ i \in DOMAIN line /\ line'[i] = Aged(line[i])
                                  \/ line'[i] = Header
      BY <1>1, <3>1, <3>2
    <3>4. \A i \in DOMAIN line' :
             \/ i \in DOMAIN line /\ line'[i].kind = line[i].kind /\ line'[i].own = line[i].own
             \/ line'[i].kind = "header" /\ ~NoStart
      BY <3>1, <3>2, <3>3, MessagesTyped, NothingTyped
    <3>5. taken'.kind = taken.kind /\ taken'.own = taken.own
      BY <1>1, <3>1, MessagesTyped
    <3> QED BY <1>5, <3>4, <3>5
  <2>3. CASE UNCHANGED <<line, taken>>
    BY <1>5, <2>3
  <2>4. CASE /\ Head(cmds).kind \notin Tellings /\ UNCHANGED taken
             /\ line' = Append(line, Answer(Head(cmds).kind, Head(cmds).key))
    <3>1. Head(cmds).kind \in Requests /\ Head(cmds).key \in Keys
      BY <2>1, <2>4 DEF Commands
    <3> DEFINE m == Answer(Head(cmds).kind, Head(cmds).key)
    <3>2. m.kind \in Requests /\ m.own /\ line' = Append(line, m)
      BY <2>4, <3>1, MessagesTyped
    <3> HIDE DEF m
    <3>3. \A i \in DOMAIN line' : (i \in DOMAIN line /\ line'[i] = line[i]) \/ line'[i] = m
      BY <1>1, <3>2
    <3>4. m.kind # "header"
      BY <3>2 DEF Requests
    <3> QED BY <1>5, <2>4, <3>2, <3>3, <3>4
  <2> QED BY <2>1, <2>2, <2>3, <2>4 DEF Obeys, Tellings, Scans
<1>7. CASE DeviceLoses
  BY <1>5, <1>7 DEF DeviceLoses, decoder
<1>8. CASE DeviceSamples
  <2>1. dev.next \in Nodes /\ taken' = taken /\ line' = Append(line, Sample(dev.next))
    BY <1>8 DEF DeviceSamples, TypeOK, decoder
  <2>2. Sample(dev.next).kind = "sample"
    BY <2>1, MessagesTyped
  <2>3. \A i \in DOMAIN line' :
           (i \in DOMAIN line /\ line'[i] = line[i]) \/ line'[i] = Sample(dev.next)
    BY <1>1, <2>1
  <2> QED BY <1>5, <2>1, <2>2, <2>3
<1> QED BY <1>6, <1>7, <1>8 DEF Device

LEMMA Answers == Spec => []AnswerInv
<1>1. AnswerInv /\ UNCHANGED vars => AnswerInv'
  BY DEF AnswerInv, ThreadInv, LockInv, LoopInv, OwnInv, Armed, ArmsNext, NoStart, NoHeader, At,
     Idle, vars, caller, shared, decoder, history
<1>2. ShapeInv /\ AnswerInv /\ [Next]_vars => AnswerInv'
  BY <1>1, CallsAnswer, CallerAnswer, DecoderAnswer, DeviceAnswer DEF Next
<1> QED BY InitAnswer, <1>2, Shape, PTL DEF Spec

\* While a call waits for an answer the codec is not in the loop mode that would take
\* the answer for a sample, whatever was lost, late or not sent, as long as no delay was
\* too short: the header of a stream is under way only while the call that
\* started the scan waits in its delay (_sendCommandWithResponse, startScanNormal).
THEOREM HeardCorrect == Spec => []AnswerHeard
<1>1. AnswerInv => AnswerHeard
  BY DEF AnswerInv, LoopInv, Armed, AnswerHeard
<1> QED BY <1>1, Answers, PTL

\* The event is reset under the lock under which an answer is stored, before the request
\* is sent: an answer that is stored for a call has set the event.
THEOREM WakesCorrect == Spec => []AnswerWakes
<1>1. AnswerInv => AnswerWakes
  BY DEF AnswerInv, OwnInv, AnswerWakes
<1> QED BY <1>1, Answers, PTL

\* A call whose request began with no earlier answer under way takes only its own.
THEOREM OwnCorrect == Spec => []AnswerIsOwn
<1>1. AnswerInv => AnswerIsOwn
  BY DEF AnswerInv, OwnInv, AnswerIsOwn
<1> QED BY <1>1, Answers, PTL

(***************************************************************************)
(* The stream of samples.  A scan begins with the holder empty, the codec  *)
(* out of the loop mode and no sample in the decoder's hands; from then on *)
(* what the holder has, what the decoder has taken, what is on the line    *)
(* and what the device sends next are one run of samples.                  *)
(***************************************************************************)
Quiet == ~loop /\ NoStart /\ NoHeader
Still == Quiet /\ taken.kind # "sample"

\* What comes before the holder is reset has made the stream still, or will.
ResetInv ==
    \A i \in DOMAIN todo : todo[i].op = "reset" =>
        \/ SettledBefore(todo, i)
        \/ (\A k \in 1 .. i : ~Starts(todo[k])) /\ i > 1 /\ At("delay") /\ Quiet
        \/ (\A k \in 1 .. i : ~Starts(todo[k])) /\ Still

StepInv ==
    /\ At("exitLoop") \/ Armed => ~unpacking
    /\ At("tell") => Moves(Arg) \/ Scans(Arg) \/ ~unpacking
    /\ At("enable") \/ (At("tell") /\ Scans(Arg)) => Still /\ hold = Empty
    /\ At("tell") /\ Scans(Arg) => unpacking

\* A sample of the scan that was started last; the one that follows a message
Placeable(n) == n.now /\ n.pos >= 0
NextAfter(j) == IF j < Len(line) THEN line[j + 1].node ELSE dev.next
RunsFrom(i) ==
    \A j \in i .. Len(line) :
        line[j].kind = "sample" /\ Placeable(line[j].node) /\ NextAfter(j) = Following(line[j].node)

StartInv ==
    /\ ~NoStart \/ ~NoHeader => unpacking /\ ~loop
    /\ \A i \in DOMAIN cmds : Scans(cmds[i]) => i = Len(cmds) /\ NoHeader
    /\ \A i \in DOMAIN line : line[i].kind = "header" => cmds = <<>> /\ RunsFrom(i + 1)
    /\ unpacking /\ ~loop => hold = Empty /\ taken.kind # "sample"

Upcoming == IF line = <<>> THEN dev.next ELSE line[1].node
Pending == IF taken.kind = "sample" THEN taken.node ELSE Upcoming
Filled(h) == h.buf[Operation(h)]
FlowInv ==
    unpacking /\ loop =>
        /\ \A i \in DOMAIN cmds : Moves(cmds[i])
        /\ RunsFrom(1)
        /\ taken.kind = "sample" => Placeable(taken.node) /\ Upcoming = Following(taken.node)
        /\ Filled(hold) # <<>> => Following(Filled(hold)[Len(Filled(hold))]) = Pending

OneScan(s) ==
    \A i \in 1 .. Len(s) :
        Placeable(s[i]) /\ s[i].rev = s[1].rev /\ (i > 1 => s[i].pos > s[i - 1].pos)
Whole(h) ==
    /\ \A b \in 0 .. 1 : OneScan(h.buf[b])
    /\ h.avail >= 0 => h.buf[h.avail][Len(h.buf[h.avail])].pos = RevLen - 1
SourceInv == dev.next.now /\ (dev.scanning => dev.next.pos >= 0)

StreamInv ==
    ResetInv /\ StepInv /\ StartInv /\ FlowInv /\ Whole(hold) /\ SourceInv /\ GrabbedIsOneScan

\* A sample that follows another is the next of its revolution, or the first of the next.
LEMMA FollowingStep ==
    ASSUME NEW n \in Nodes, n.pos >= 0
    PROVE  /\ Following(n).now = n.now /\ Following(n).pos >= 0
           /\ Following(n).pos = 0 => n.pos = RevLen - 1
           /\ Following(n).pos # 0 => Following(n).pos = n.pos + 1 /\ Following(n).rev = n.rev
<1>1. n.pos \in -1 .. RevLen - 1 /\ RevLen \in Nat \ {0}
  BY SizeAssumption DEF Nodes
<1>2. CASE n.pos < RevLen - 1
  <2>1. Following(n) = [now |-> n.now, rev |-> n.rev, pos |-> n.pos + 1]
    BY <1>2 DEF Following, Nodes
  <2> QED BY <1>1, <2>1
<1>3. CASE ~(n.pos < RevLen - 1)
  <2>1. Following(n) = [now |-> n.now, rev |-> 1 - n.rev, pos |-> 0]
    BY <1>3 DEF Following, Nodes
  <2> QED BY <1>1, <1>3, <2>1
<1> QED BY <1>2, <1>3

\* The last entry of the buffer becomes the node, whether the buffer was full or not.
LEMMA StoredScan ==
    ASSUME NEW seq \in Seq(Nodes), seq # <<>>, OneScan(seq),
           NEW node \in Nodes, Following(seq[Len(seq)]) = node, node.pos # 0
    PROVE  OneScan(Stored(seq, node)) /\ Stored(seq, node)[Len(Stored(seq, node))] = node
<1>1. Len(seq) \in Nat \ {0} /\ \A i \in 1 .. Len(seq) : seq[i] \in Nodes
  OBVIOUS
<1> DEFINE last == seq[Len(seq)]
<1>2. Placeable(last) /\ last \in Nodes /\ last.rev = seq[1].rev
  BY <1>1 DEF OneScan
<1>3. Placeable(node) /\ node.rev = seq[1].rev /\ node.pos = last.pos + 1
  BY <1>2, FollowingStep DEF Placeable
<1>4. last.pos \in Int /\ node.pos \in Int
  BY <1>2 DEF Nodes
<1>5. CASE Len(seq) < Cap
  <2> DEFINE s == Append(seq, node)
  <2>1. Stored(seq, node) = s
    BY <1>5 DEF Stored
  <2>2. Len(s) = Len(seq) + 1 /\ s[Len(s)] = node /\ \A i \in 1 .. Len(seq) : s[i] = seq[i]
    OBVIOUS
  <2> HIDE DEF s
  <2>3. ASSUME NEW i \in 1 .. Len(s)
        PROVE  Placeable(s[i]) /\ s[i].rev = s[1].rev /\ (i > 1 => s[i].pos > s[i - 1].pos)
    <3>1. CASE i \in 1 .. Len(seq)
      BY <1>1, <2>2, <3>1 DEF OneScan
    <3>2. CASE i = Len(seq) + 1
      BY <1>1, <1>3, <1>4, <2>2, <3>2
    <3> QED BY <1>1, <2>2, <3>1, <3>2
  <2> QED BY <2>1, <2>2, <2>3 DEF OneScan
<1>6. CASE ~(Len(seq) < Cap)
  <2>1. Len(seq) >= 2
    BY <1>1, <1>6, CapAssumption
  <2> DEFINE s == [seq EXCEPT ![Len(seq)] = node]
  <2>2. Stored(seq, node) = s
    BY <1>6 DEF Stored
  <2>3. /\ Len(s) = Len(seq) /\ s[Len(seq)] = node
        /\ \A i \in 1 .. Len(seq) - 1 : s[i] = seq[i]
    BY <1>1
  <2> HIDE DEF s
  <2>4. ASSUME NEW i \in 1 .. Len(s)
        PROVE  Placeable(s[i]) /\ s[i].rev = s[1].rev /\ (i > 1 => s[i].pos > s[i - 1].pos)
    <3>1. CASE i \in 1 .. Len(seq) - 1
      BY <1>1, <2>1, <2>3, <3>1 DEF OneScan
    <3>2. CASE i = Len(seq)
      <4>1. /\ last.pos > seq[Len(seq) - 1].pos /\ s[i] = node /\ s[1] = seq[1]
            /\ s[i - 1] = seq[Len(seq) - 1] /\ seq[Len(seq) - 1] \in Nodes
        BY <1>1, <2>1, <2>3, <3>2 DEF OneScan
      <4>2. seq[Len(seq) - 1].pos \in Int
        BY <4>1 DEF Nodes
      <4> QED BY <1>3, <1>4, <4>1, <4>2
    <3> QED BY <1>1, <2>3, <3>1, <3>2
  <2> QED BY <2>2, <2>3, <2>4 DEF OneScan
<1> QED BY <1>5, <1>6

LEMMA NewScan ==
    ASSUME NEW node \in Nodes, Placeable(node)
    PROVE  OneScan(<<node>>) /\ <<node>>[Len(<<node>>)] = node /\ OneScan(<<>>)
<1>1. Len(<<node>>) = 1 /\ <<node>>[1] = node /\ 1 .. 1 = {1} /\ 1 .. 0 = {}
  OBVIOUS
<1> QED BY <1>1 DEF OneScan

\* The holder keeps whole scans, if every node follows the one before it.
LEMMA PushWhole ==
    ASSUME NEW h \in Holders, Begun(h), Whole(h), NEW node \in Nodes, Placeable(node),
           Filled(h) # <<>> => Following(Filled(h)[Len(Filled(h))]) = node,
           NEW p, p = Push(h, node)
    PROVE  Whole(p) /\ (Filled(p) # <<>> => Filled(p)[Len(Filled(p))] = node)
<1> DEFINE begun == h.buf[Operation(h)] # <<>>
           Pushed(s) == [s EXCEPT !.buf[Operation(s)] = Stored(@, node),
                                  !.ts[Operation(s)] = IF Sync(node) THEN <<node>> ELSE @]
<1>1. PICK op \in 0 .. 1 : op = Operation(h)
  BY OperationBuffer
<1>2. ASSUME NEW s \in Holders, NEW o \in 0 .. 1, o = Operation(s), p = Pushed(s)
      PROVE  /\ p.avail = s.avail /\ Operation(p) = o
             /\ p.buf[o] = Stored(s.buf[o], node) /\ p.buf[1 - o] = s.buf[1 - o]
  <2> DEFINE ts == IF Sync(node) THEN <<node>> ELSE s.ts[o]
             stored == Stored(s.buf[o], node)
  <2>1. p = [s EXCEPT !.buf = [s.buf EXCEPT ![o] = stored], !.ts = [s.ts EXCEPT ![o] = ts]]
    BY <1>2
  <2> HIDE DEF ts, stored
  <2>2. p.avail = s.avail /\ p.buf[o] = stored /\ p.buf[1 - o] = s.buf[1 - o]
    BY <2>1 DEF Holders
  <2> QED BY <1>2, <2>2 DEF Operation, stored
<1>3. \A b \in 0 .. 1 : b = op \/ b = 1 - op
  OBVIOUS
<1>4. CASE ~Sync(node) /\ ~begun
  BY <1>4 DEF Push, Filled
<1>5. CASE ~begun /\ Sync(node)
  <2>1. p = Pushed(h)
    BY <1>5 DEF Push
  <2>2. p.avail = h.avail /\ Operation(p) = op /\ p.buf[op] = <<node>> /\ p.buf[1 - op] = h.buf[1 - op]
    BY <1>1, <1>2, <1>5, <2>1, StoredFirst
  <2>3. h.avail >= 0 => h.avail = 1 - op
    BY <1>1, OperationBuffer DEF Holders
  <2> HIDE DEF Pushed
  <2>4. \A b \in 0 .. 1 : OneScan(p.buf[b])
    <3>1. OneScan(p.buf[op])
      BY <2>2, NewScan
    <3>2. OneScan(p.buf[1 - op])
      BY <2>2 DEF Whole
    <3> QED BY <1>3, <3>1, <3>2
  <2>5. p.avail >= 0 => p.buf[p.avail][Len(p.buf[p.avail])].pos = RevLen - 1
    BY <2>2, <2>3 DEF Whole
  <2>6. Filled(p)[Len(Filled(p))] = node
    BY <2>2, NewScan DEF Filled
  <2> QED BY <2>4, <2>5, <2>6 DEF Whole
<1>6. CASE begun /\ ~Sync(node)
  <2>1. p = Pushed(h)
    BY <1>6 DEF Push
  <2>2. /\ p.avail = h.avail /\ Operation(p) = op
        /\ p.buf[op] = Stored(h.buf[op], node) /\ p.buf[1 - op] = h.buf[1 - op]
    BY <1>1, <1>2, <2>1
  <2>3. h.avail >= 0 => h.avail = 1 - op
    BY <1>1, OperationBuffer DEF Holders
  <2>4. h.buf[op] \in Seq(Nodes) /\ h.buf[op] # <<>> /\ OneScan(h.buf[op])
        /\ Following(h.buf[op][Len(h.buf[op])]) = node /\ node.pos # 0
    BY <1>1, <1>6 DEF Holders, Whole, Filled, Sync
  <2>5. OneScan(p.buf[op]) /\ p.buf[op][Len(p.buf[op])] = node
    BY <2>2, <2>4, StoredScan
  <2> HIDE DEF Pushed
  <2>6. \A b \in 0 .. 1 : OneScan(p.buf[b])
    BY <1>3, <2>2, <2>5 DEF Whole
  <2>7. p.avail >= 0 => p.buf[p.avail][Len(p.buf[p.avail])].pos = RevLen - 1
    BY <2>2, <2>3 DEF Whole
  <2> QED BY <2>2, <2>5, <2>6, <2>7 DEF Whole, Filled
<1>7. CASE begun /\ Sync(node)
  <2>1. PICK s : s = Swapped(h)
    OBVIOUS
  <2>2. s \in Holders
    BY <1>7, <2>1, SwappedBegins
  <2>3. s.avail = op /\ s.buf[op] = h.buf[op] /\ s.buf[1 - op] = <<>>
    <3>1. s = [h EXCEPT !.avail = op, !.signal = TRUE, !.buf = [h.buf EXCEPT ![1 - op] = <<>>]]
      BY <1>1, <2>1 DEF Swapped
    <3> QED BY <3>1 DEF Holders
  <2>4. p = Pushed(s)
    BY <1>7, <2>1 DEF Push
  <2>5. PICK other \in 0 .. 1 : other = 1 - op /\ op = 1 - other
    OBVIOUS
  <2>6. /\ p.avail = op /\ Operation(p) = other
        /\ p.buf[other] = <<node>> /\ p.buf[op] = h.buf[op]
    <3>1. Operation(s) = other
      BY <2>3, <2>5 DEF Operation
    <3>2. /\ p.avail = s.avail /\ Operation(p) = other
          /\ p.buf[other] = Stored(s.buf[other], node) /\ p.buf[op] = s.buf[op]
      BY <1>2, <2>2, <2>4, <2>5, <3>1
    <3> QED BY <2>3, <2>5, <3>2, StoredFirst
  <2>7. h.buf[op] \in Seq(Nodes) /\ h.buf[op] # <<>> /\ OneScan(h.buf[op])
        /\ Following(h.buf[op][Len(h.buf[op])]) = node /\ node.pos = 0
    BY <1>1, <1>7 DEF Holders, Whole, Filled, Sync
  <2>8. h.buf[op][Len(h.buf[op])].pos = RevLen - 1
    <3>1. Len(h.buf[op]) \in 1 .. Len(h.buf[op]) /\ h.buf[op][Len(h.buf[op])] \in Nodes
      BY <2>7
    <3>2. h.buf[op][Len(h.buf[op])].pos >= 0
      BY <2>7, <3>1 DEF OneScan, Placeable
    <3> QED BY <2>7, <3>1, <3>2, FollowingStep
  <2>9. \A b \in 0 .. 1 : b = op \/ b = other
    BY <2>5
  <2> HIDE DEF Pushed
  <2>10. \A b \in 0 .. 1 : OneScan(p.buf[b])
    BY <2>6, <2>7, <2>9, NewScan
  <2>11. p.buf[p.avail][Len(p.buf[p.avail])].pos = RevLen - 1
    BY <2>6, <2>8
  <2> QED BY <2>6, <2>10, <2>11, NewScan DEF Whole, Filled
<1> QED BY <1>4, <1>5, <1>6, <1>7

\* The run of samples, when the decoder takes the first message and when the device sends
LEMMA RunsTail ==
    ASSUME line \in Seq(Messages), line # <<>>, line' = Tail(line), dev' = dev,
           NEW i \in Nat, i >= 1, RunsFrom(i + 1)
    PROVE  RunsFrom(i)'
<1>1. /\ Len(line) \in Nat /\ Len(line) >= 1 /\ Len(line') = Len(line) - 1
      /\ \A j \in 1 .. Len(line) - 1 : line'[j] = line[j + 1]
  OBVIOUS
<1>2. ASSUME NEW j \in i .. Len(line')
      PROVE  line'[j] = line[j + 1] /\ NextAfter(j)' = NextAfter(j + 1) /\ j + 1 \in i + 1 .. Len(line)
  BY <1>1 DEF NextAfter
<1> QED BY <1>2 DEF RunsFrom

LEMMA RunsAppend ==
    ASSUME line \in Seq(Messages), dev.next \in Nodes, Placeable(dev.next),
           line' = Append(line, Sample(dev.next)), dev'.next = Following(dev.next),
           NEW i \in Nat, i >= 1, RunsFrom(i)
    PROVE  RunsFrom(i)'
<1> DEFINE m == Sample(dev.next)
<1>1. m.kind = "sample" /\ m.node = dev.next
  BY MessagesTyped
<1>2. line' = Append(line, m)
  OBVIOUS
<1> HIDE DEF m
<1>3. /\ Len(line) \in Nat /\ Len(line') = Len(line) + 1 /\ line'[Len(line) + 1] = m
      /\ \A j \in 1 .. Len(line) : line'[j] = line[j]
  BY <1>2
<1>4. ASSUME NEW j \in i .. Len(line)
      PROVE  line'[j] = line[j] /\ NextAfter(j)' = NextAfter(j)
  <2>1. line'[j] = line[j] /\ j < Len(line')
    BY <1>3
  <2>2. NextAfter(j)' = line'[j + 1].node
    BY <2>1 DEF NextAfter
  <2>3. CASE j < Len(line)
    BY <1>3, <2>1, <2>2, <2>3 DEF NextAfter
  <2>4. CASE j = Len(line)
    BY <1>1, <1>3, <2>1, <2>2, <2>4 DEF NextAfter
  <2> QED BY <1>3, <2>3, <2>4
<1>5. ASSUME NEW j \in {Len(line) + 1}
      PROVE  /\ line'[j].kind = "sample" /\ Placeable(line'[j].node)
             /\ NextAfter(j)' = Following(line'[j].node)
  BY <1>1, <1>3 DEF NextAfter
<1>6. \A j \in i .. Len(line') : j \in i .. Len(line) \/ j \in {Len(line) + 1}
  BY <1>3
<1> QED BY <1>4, <1>5, <1>6 DEF RunsFrom

\* What the caller's steps leave alone
LEMMA CallerKeeps ==
    ASSUME ShapeInv, Caller
    PROVE  /\ ~Idle /\ Head(todo) = todo[1] /\ (Goes \/ Fails)
           /\ dev' = dev /\ (loop' => loop)
           /\ taken'.kind = taken.kind /\ (NoHeader => NoHeader')
           /\ NoStart /\ ~Starts(Head(todo)) => NoStart'
           /\ \/ unpacking' = FALSE
              \/ UNCHANGED <<line, taken>> /\ (unpacking' => unpacking \/ At("enable"))
<1>1. ~Idle
  BY DEF Caller, At, Lock, Disable, ExitLoop, Arm, Send, Tells, AwaitAnswer, AwaitTimeout, Wakes,
     SendFails, TellFails, Delay,
         SetDtr, Support, ResetHolder, Enable, GrabWait, GrabCopy
<1>2. Goes \/ Fails
  BY DEF Caller, Lock, Disable, ExitLoop, Arm, Send, Tells, Sends, AwaitAnswer, AwaitTimeout,
     Wakes, SendFails, TellFails,
         Delay, SetDtr, Support, ResetHolder, Enable, GrabWait, GrabCopy
<1>3. dev' = dev /\ (loop' => loop)
  BY DEF Caller, Lock, Disable, ExitLoop, Arm, Send, Tells, Sends, AwaitAnswer, AwaitTimeout,
     Wakes, SendFails, TellFails,
         Delay, SetDtr, Support, ResetHolder, Enable, GrabWait, GrabCopy, shared, decoder
<1>4. Head(todo) = todo[1]
  BY <1>1 DEF Idle, ShapeInv, Left
<1>5. CASE Lock
  <2>1. taken' = Foreign(taken) /\ line' = ForeignLine /\ cmds' = cmds /\ unpacking' = FALSE
    BY <1>5 DEF Lock, ForeignLine
  <2>2. taken \in Messages /\ line \in Seq(Messages)
    BY DEF ShapeInv, TypeOK
  <2>3. \A i \in DOMAIN line' : i \in DOMAIN line /\ line'[i].kind = line[i].kind
    <3>1. \A i \in DOMAIN line' : i \in DOMAIN line /\ line'[i] = Foreign(line[i]) /\ line[i] \in Messages
      BY <2>1, <2>2, LinesMapped DEF ForeignLine
    <3> QED BY <3>1, MessagesTyped
  <2>4. taken'.kind = taken.kind
    BY <2>1, <2>2, MessagesTyped
  <2> QED BY <1>1, <1>2, <1>3, <1>4, <2>1, <2>3, <2>4 DEF NoHeader, NoStart
<1>6. CASE ~Lock
  <2>1. UNCHANGED <<line, taken>> /\ (unpacking' => unpacking \/ At("enable"))
    BY <1>6 DEF Caller, Disable, ExitLoop, Arm, Send, Tells, Sends, AwaitAnswer, AwaitTimeout,
       Wakes, SendFails, TellFails,
         Delay, SetDtr, Support, ResetHolder, Enable, GrabWait, GrabCopy, shared, decoder
  <2>2. CASE Send \/ Tells
    <3>1. cmds' = Append(cmds, Arg) /\ cmds \in Seq(Commands(Requests \cup Tellings))
      BY <2>2 DEF Send, Tells, Sends, ShapeInv, TypeOK
    <3>2. ~Starts(Head(todo)) => ~Scans(Arg)
      <4>1. At("tell") => (~Starts(Head(todo)) => ~Scans(Arg))
        BY DEF At, Arg, Starts
      <4>2. At("send") => ~Scans(Arg)
        BY ArgTypes DEF ShapeInv, TypeOK, Commands, Requests, Scans
      <4> QED BY <2>2, <4>1, <4>2 DEF Send, Tells
    <3> QED BY <1>1, <1>2, <1>3, <1>4, <2>1, <3>1, <3>2 DEF NoHeader, NoStart
  <2>3. CASE ~Send /\ ~Tells
    <3>1. cmds' = cmds
      BY <1>6, <2>3 DEF Caller, Disable, ExitLoop, Arm, AwaitAnswer, AwaitTimeout, Wakes,
         SendFails, TellFails,
         Delay, SetDtr, Support, ResetHolder, Enable, GrabWait, GrabCopy
    <3> QED BY <1>1, <1>2, <1>3, <1>4, <2>1, <3>1 DEF NoHeader, NoStart
  <2> QED BY <2>2, <2>3
<1> QED BY <1>5, <1>6

\* What the decoder and the device leave alone
LEMMA OthersKeep ==
    ASSUME ShapeInv, AnswerInv, Decoder \/ Device
    PROVE  /\ UNCHANGED <<todo, connected, unpacking, got>>
           /\ \A op : At(op)' <=> At(op)
           /\ NoStart => NoStart'
           /\ Quiet => Quiet'
           /\ Still => Still' /\ hold' = hold
<1> USE DEF ShapeInv
<1>1. UNCHANGED <<todo, connected, unpacking, got>>
  BY DEF Decoder, Decode, Unlock, ToUnpacker, ToWaiter, Store, Device, DeviceTakes, DeviceLoses,
     DeviceSamples, callerIdle, caller, shared
<1>2. \A op : At(op)' <=> At(op)
  BY <1>1 DEF At, Idle
<1>3. line \in Seq(Messages) /\ cmds \in Seq(Commands(Requests \cup Tellings)) /\ taken \in Messages
  BY DEF TypeOK
<1>4. NoStart => NoStart'
  BY <1>3 DEF NoStart, Decoder, Decode, Unlock, ToUnpacker, ToWaiter, Store, Device, DeviceTakes,
     DeviceLoses, DeviceSamples, callerIdle
<1>5. ASSUME Quiet PROVE Quiet' /\ (Still => Still' /\ hold' = hold)
  <2>1. CASE Decode
    <3>1. /\ line # <<>> /\ line' = Tail(line) /\ loop' = (loop \/ Head(line).kind = "header")
          /\ hold' = hold
      BY <2>1 DEF Decode
    <3>2. /\ Head(line) = line[1] /\ 1 \in DOMAIN line
          /\ \A i \in DOMAIN line' : i + 1 \in DOMAIN line /\ line'[i] = line[i + 1]
      BY <1>3, <3>1
    <3>3. ~loop' /\ NoHeader'
      BY <1>5, <3>1, <3>2 DEF Quiet, NoHeader
    <3>4. taken' = Nothing \/ (IsAnswer(Head(line)) /\ taken' = Head(line))
      BY <1>5, <2>1 DEF Decode, Quiet
    <3> QED BY <1>4, <1>5, <3>1, <3>3, <3>4, NothingTyped DEF Quiet, Still, IsAnswer
  <2>2. CASE Unlock \/ ToUnpacker \/ ToWaiter \/ Store
    <3>1. UNCHANGED <<line, loop>> /\ taken' \in {taken, Nothing}
          /\ (taken.kind # "sample" => hold' = hold)
      BY <2>2 DEF Unlock, ToUnpacker, ToWaiter, Store, shared
    <3> QED BY <1>4, <1>5, <3>1, NothingTyped DEF Quiet, Still, NoHeader
  <2>3. CASE DeviceTakes
    <3>1. /\ cmds # <<>> /\ Obeys(Head(cmds)) /\ loop' = loop /\ Head(cmds) = cmds[1]
          /\ 1 \in DOMAIN cmds /\ Head(cmds) \in Commands(Requests \cup Tellings)
      BY <1>3, <2>3 DEF DeviceTakes
    <3>2. ~Scans(Head(cmds))
      BY <1>5, <3>1 DEF Quiet, NoStart
    <3>3. UNCHANGED <<taken, hold>>
          /\ (line' = line \/ (/\ line' = Append(line, Answer(Head(cmds).kind, Head(cmds).key))
                               /\ Head(cmds).kind \in Requests /\ Head(cmds).key \in Keys))
      BY <3>1, <3>2 DEF Obeys, Scans, Commands, Tellings
    <3>4. NoHeader'
      <4>1. CASE line' = line
        BY <1>5, <4>1 DEF Quiet, NoHeader
      <4>2. CASE line' # line
        <5> DEFINE m == Answer(Head(cmds).kind, Head(cmds).key)
        <5>1. m.kind \in Requests /\ line' = Append(line, m)
          BY <3>3, <4>2, MessagesTyped
        <5> HIDE DEF m
        <5>2. m.kind # "header"
          BY <5>1 DEF Requests
        <5>3. \A i \in DOMAIN line' : (i \in DOMAIN line /\ line'[i] = line[i]) \/ line'[i] = m
          BY <1>3, <5>1
        <5> QED BY <1>5, <5>2, <5>3 DEF Quiet, NoHeader
      <4> QED BY <4>1, <4>2
    <3> QED BY <1>4, <1>5, <3>1, <3>3, <3>4 DEF Quiet, Still
  <2>4. CASE DeviceLoses
    BY <1>4, <1>5, <2>4 DEF DeviceLoses, shared, decoder, Quiet, Still, NoHeader
  <2>5. CASE DeviceSamples
    <3>1. Header \in ToSet(line)
      BY <1>5, <2>5 DEF DeviceSamples, Quiet
    <3>2. \E i \in DOMAIN line : line[i] = Header
      BY <3>1 DEF ToSet
    <3> QED BY <1>5, <3>2, NothingTyped DEF Quiet, NoHeader
  <2> QED BY <2>1, <2>2, <2>3, <2>4, <2>5 DEF Decoder, Device
<1>6. Still => Quiet
  BY DEF Still
<1> QED BY <1>1, <1>2, <1>4, <1>5, <1>6

LEMMA OthersReset ==
    ASSUME ShapeInv, AnswerInv, ResetInv, Decoder \/ Device
    PROVE  ResetInv'
<1>1. /\ todo' = todo /\ (At("delay")' <=> At("delay")) /\ (Quiet => Quiet') /\ (Still => Still')
  BY OthersKeep
<1>2. \A i : SettledBefore(todo', i) <=> SettledBefore(todo, i)
  BY <1>1
<1> QED BY <1>1, <1>2 DEF ResetInv

LEMMA CallerReset ==
    ASSUME ShapeInv, AnswerInv, ResetInv, timely, timely', Caller
    PROVE  ResetInv'
<1>1. CASE Fails
  <2>1. todo' = <<>>
    BY <1>1 DEF Fails
  <2> QED BY <2>1 DEF ResetInv
<1>2. CASE Goes
  <2>1. /\ ~Idle /\ Head(todo) = todo[1] /\ taken'.kind = taken.kind /\ (loop' => loop)
        /\ (NoHeader => NoHeader') /\ (NoStart /\ ~Starts(todo[1]) => NoStart')
    BY CallerKeeps
  <2>2. /\ todo \in Seq(Steps) /\ todo # <<>> /\ todo' = Tail(todo)
    BY <1>2, <2>1 DEF ShapeInv, Left, Goes, Idle
  <2>3. /\ Len(todo) \in Nat /\ DOMAIN todo = 1 .. Len(todo) /\ DOMAIN todo' = 1 .. Len(todo) - 1
        /\ \A i \in 1 .. Len(todo) - 1 : todo'[i] = todo[i + 1]
    BY <2>2
  <2>4. Still /\ ~Starts(todo[1]) => Still'
    BY <2>1 DEF Still, Quiet
  <2>5. \A op : At(op) <=> todo[1].op = op
    BY <2>1 DEF At
  <2>6. ASSUME NEW i \in DOMAIN todo', todo'[i].op = "reset"
        PROVE  \/ SettledBefore(todo', i)
               \/ (\A k \in 1 .. i : ~Starts(todo'[k])) /\ i > 1 /\ At("delay")' /\ Quiet'
               \/ (\A k \in 1 .. i : ~Starts(todo'[k])) /\ Still'
    <3>1. i \in 1 .. Len(todo) - 1 /\ i + 1 \in DOMAIN todo /\ todo[i + 1].op = "reset"
      BY <2>3, <2>6
    <3>2. (\A k \in 1 .. i + 1 : ~Starts(todo[k])) => \A k \in 1 .. i : ~Starts(todo'[k])
      <4>1. \A k \in 1 .. i : k + 1 \in 1 .. i + 1 /\ todo'[k] = todo[k + 1]
        BY <2>3, <3>1
      <4> QED BY <4>1
    <3>3. CASE SettledBefore(todo, i + 1)
      <4>1. PICK j \in 1 .. i :
              /\ j + 1 < i + 1 /\ todo[j].op = "exitLoop" /\ todo[j + 1].op = "delay"
              /\ \A k \in j .. i + 1 : ~Starts(todo[k])
        BY <3>1, <3>3 DEF SettledBefore
      <4>2. CASE j > 1
        <5>1. /\ j - 1 \in 1 .. i - 1 /\ (j - 1) + 1 < i
              /\ todo'[j - 1].op = "exitLoop" /\ todo'[(j - 1) + 1].op = "delay"
          BY <2>3, <3>1, <4>1, <4>2
        <5>2. \A k \in j - 1 .. i : ~Starts(todo'[k])
          <6>1. \A k \in j - 1 .. i : k + 1 \in j .. i + 1 /\ todo'[k] = todo[k + 1]
            BY <2>3, <3>1, <4>1, <4>2
          <6> QED BY <4>1, <6>1
        <5>3. SettledBefore(todo', i)
          BY <5>1, <5>2 DEF SettledBefore
        <5> QED BY <5>3
      <4>3. CASE j = 1
        <5>1. At("exitLoop") /\ ~At("delay") /\ i > 1 /\ \A k \in 1 .. i + 1 : ~Starts(todo[k])
          BY <2>5, <3>1, <4>1, <4>3
        <5>2. At("delay")'
          <6>1. todo' # <<>> /\ Head(todo') = todo[2] /\ todo[2].op = "delay"
            BY <2>2, <2>3, <3>1, <4>1, <4>3
          <6> QED BY <6>1 DEF At, Idle
        <5>3. NoStart /\ NoHeader
          BY <5>1 DEF AnswerInv, LoopInv
        <5>4. ExitLoop
          BY <5>1 DEF Caller, At, Lock, Disable, ExitLoop, Arm, Send, Tells, AwaitAnswer,
             AwaitTimeout, Wakes, SendFails, TellFails, Delay, SetDtr, Support, ResetHolder,
                Enable, GrabWait, GrabCopy
        <5>5. loop' = FALSE /\ cmds' = cmds /\ line' = line
          BY <5>4 DEF ExitLoop
        <5>6. Quiet'
          BY <5>3, <5>5 DEF Quiet, NoStart, NoHeader
        <5> QED BY <3>2, <5>1, <5>2, <5>6
      <4> QED BY <4>1, <4>2, <4>3
    <3>4. CASE (\A k \in 1 .. i + 1 : ~Starts(todo[k])) /\ At("delay") /\ Quiet
      <4>1. Delay
        BY <3>4 DEF Caller, At, Lock, Disable, ExitLoop, Arm, Send, Tells, AwaitAnswer,
           AwaitTimeout, Wakes, SendFails, TellFails, Delay, SetDtr, Support, ResetHolder, Enable,
              GrabWait, GrabCopy
      <4>2. phase = "idle"
        BY <3>4, <4>1 DEF Delay, Settled, Quiet
      <4>3. Still
        BY <3>4, <4>2 DEF Still, AnswerInv, ThreadInv
      <4>4. ~Starts(todo[1])
        BY <3>1, <3>4
      <4> QED BY <2>4, <3>2, <3>4, <4>3, <4>4
    <3>5. CASE (\A k \in 1 .. i + 1 : ~Starts(todo[k])) /\ Still
      <4>1. ~Starts(todo[1])
        BY <3>1, <3>5
      <4> QED BY <2>4, <3>2, <3>5, <4>1
    <3> QED BY <3>1, <3>3, <3>4, <3>5 DEF ResetInv
  <2> QED BY <2>6 DEF ResetInv
<1> QED BY <1>1, <1>2, CallerKeeps

LEMMA EmptyHolder ==
    /\ Whole(Empty) /\ Filled(Empty) = <<>> /\ Waited(Empty) = Empty /\ AgedHolder(Empty) = Empty
    /\ \A h \in Holders : /\ Filled(Waited(h)) = Filled(h)
                          /\ Whole(h) => Whole(Waited(h))
<1>1. \A b \in 0 .. 1 : Empty.buf[b] = <<>> /\ Empty.ts[b] = <<>>
  BY DEF Empty
<1>2. Empty.avail = -1 /\ Empty.signal = FALSE
  BY DEF Empty
<1>3. Whole(Empty)
  <2>1. OneScan(<<>>)
    BY DEF OneScan
  <2> QED BY <1>1, <1>2, <2>1 DEF Whole
<1>4. Filled(Empty) = <<>>
  BY <1>1, <1>2 DEF Filled, Operation
<1>5. Waited(Empty) = Empty
  <2>1. PICK none : none = [b \in 0 .. 1 |-> <<>>]
    OBVIOUS
  <2>2. PICK e : e = [buf |-> none, avail |-> -1, ts |-> none, signal |-> FALSE]
    OBVIOUS
  <2>3. Empty = e
    BY <2>1, <2>2, Zenon DEF Empty
  <2>4. [e EXCEPT !.signal = FALSE] = e
    <3> DEFINE r == [e EXCEPT !.signal = FALSE]
    <3>1. e \in [buf : {none}, avail : {-1}, ts : {none}, signal : {FALSE}]
      BY <2>2
    <3>2. r \in [buf : {none}, avail : {-1}, ts : {none}, signal : {FALSE}]
      BY <3>1
    <3> HIDE DEF r
    <3>3. r = [buf |-> none, avail |-> -1, ts |-> none, signal |-> FALSE]
      BY <3>2
    <3> QED BY <2>2, <3>3 DEF r
  <2> QED BY <2>3, <2>4 DEF Waited
<1>6. AgedHolder(Empty) = Empty
  <2>1. Old(<<>>) = <<>>
    <3>1. Old(<<>>) \in Seq(Nodes) /\ Len(Old(<<>>)) = Len(<<>>)
      <4>1. <<>> \in Seq(Nodes)
        OBVIOUS
      <4> QED BY <4>1, OldNodes
    <3> QED BY <3>1
  <2>2. /\ [b \in 0 .. 1 |-> Old(Empty.buf[b])] = [b \in 0 .. 1 |-> <<>>]
        /\ [b \in 0 .. 1 |-> Old(Empty.ts[b])] = [b \in 0 .. 1 |-> <<>>]
    BY <1>1, <2>1
  <2>3. AgedHolder(Empty) = [Empty EXCEPT !.buf = [b \in 0 .. 1 |-> <<>>],
                                         !.ts = [b \in 0 .. 1 |-> <<>>]]
    BY <2>2 DEF AgedHolder
  <2> QED BY <2>3 DEF Empty
<1>7. ASSUME NEW h \in Holders
      PROVE  Filled(Waited(h)) = Filled(h) /\ (Whole(h) => Whole(Waited(h)))
  <2>1. Waited(h).buf = h.buf /\ Waited(h).avail = h.avail
    BY DEF Waited, Holders
  <2> QED BY <2>1 DEF Filled, Operation, Whole
<1> QED BY <1>3, <1>4, <1>5, <1>6, <1>7

LEMMA InitStream == Init => StreamInv
<1> SUFFICES ASSUME Init PROVE StreamInv
  OBVIOUS
<1>1. todo = <<>> /\ hold = Empty /\ cmds = <<>> /\ line = <<>> /\ ~unpacking /\ ~got.fresh
      /\ \A op : ~At(op)
  BY DEF Init, NoGrab, At, Idle
<1>2. dev.next.now /\ ~dev.scanning
  BY DEF Init, DeviceInit, NoNode
<1>3. ResetInv /\ StepInv
  BY <1>1 DEF ResetInv, StepInv, Armed
<1>4. StartInv /\ FlowInv
  BY <1>1 DEF StartInv, FlowInv, NoStart, NoHeader
<1> QED BY <1>1, <1>2, <1>3, <1>4, EmptyHolder DEF StreamInv, SourceInv, GrabbedIsOneScan

LEMMA CallsStream ==
    ShapeInv /\ AnswerInv /\ StreamInv /\ Calls /\ timely /\ timely' => StreamInv'
<1> SUFFICES ASSUME ShapeInv, AnswerInv, StreamInv, Calls, timely, timely' PROVE StreamInv'
  OBVIOUS
<1> USE DEF ShapeInv, StreamInv
<1>1. Idle /\ \A op : ~At(op)
  BY DEF Calls, Call, Connect, Disconnect, At
<1>2. NoStart /\ NoHeader
  BY <1>1 DEF AnswerInv, LoopInv
<1>3. ASSUME NEW program, Good(program), todo' = program
      PROVE  ResetInv' /\ StepInv'
  <2>1. ResetInv'
    BY <1>3 DEF ResetInv, Good
  <2>2. ~At("exitLoop")' /\ ~Armed' /\ ~At("enable")' /\ (At("tell")' => Moves(Arg'))
    BY <1>3, CallBegins DEF Armed
  <2>3. At("tell")' => ~Scans(Arg')
    BY <2>2 DEF Moves, Scans
  <2> QED BY <2>1, <2>2, <2>3 DEF StepInv
<1>4. ASSUME NEW program, Good(program), Call(program) PROVE StreamInv'
  <2>1. /\ UNCHANGED <<unpacking, loop, hold, cmds, line, taken, dev>> /\ got' = NoGrab
        /\ todo' = program
    BY <1>4 DEF Call, shared, decoder
  <2>2. StartInv' /\ FlowInv' /\ Whole(hold') /\ SourceInv'
    BY <2>1 DEF StartInv, FlowInv, SourceInv, NoStart, NoHeader, RunsFrom, NextAfter, Pending,
       Upcoming
  <2>3. GrabbedIsOneScan'
    BY <2>1 DEF GrabbedIsOneScan, NoGrab
  <2> QED BY <1>3, <1>4, <2>1, <2>2, <2>3
<1>5. CASE Connect
  <2>1. /\ UNCHANGED <<unpacking, hold, cmds, got, dev>> /\ line' = <<>> /\ todo' = CheckMotor
        /\ ~unpacking
    BY <1>5 DEF Connect, shared, AnswerInv, ThreadInv
  <2>2. ResetInv' /\ StepInv'
    BY <1>3, <2>1, Programs
  <2>3. StartInv' /\ FlowInv'
    BY <1>2, <2>1 DEF StartInv, FlowInv, NoStart, NoHeader
  <2> QED BY <2>1, <2>2, <2>3 DEF SourceInv, GrabbedIsOneScan
<1>6. CASE Disconnect
  <2>1. /\ UNCHANGED <<todo, hold, cmds, got, dev>> /\ line' = <<>> /\ unpacking' = FALSE
    BY <1>6 DEF Disconnect
  <2>2. ResetInv' /\ StepInv'
    BY <1>1, <2>1 DEF Idle, ResetInv, StepInv, At, Armed
  <2>3. StartInv' /\ FlowInv'
    BY <1>2, <2>1 DEF StartInv, FlowInv, NoStart, NoHeader
  <2> QED BY <2>1, <2>2, <2>3 DEF SourceInv, GrabbedIsOneScan
<1> QED BY <1>4, <1>5, <1>6, Programs DEF Calls

\* The caller's thread: the only step that makes the unpacker run is the one before the
\* command that starts the scan.
LEMMA CallerStream ==
    ShapeInv /\ AnswerInv /\ StreamInv /\ Caller /\ timely /\ timely' => StreamInv'
<1> SUFFICES ASSUME ShapeInv, AnswerInv, StreamInv, Caller, timely, timely' PROVE StreamInv'
  OBVIOUS
<1> USE DEF ShapeInv, StreamInv
<1>1. /\ ~Idle /\ Head(todo) = todo[1] /\ (Goes \/ Fails)
      /\ dev' = dev /\ (loop' => loop)
      /\ taken'.kind = taken.kind /\ (NoHeader => NoHeader')
      /\ (NoStart /\ ~Starts(Head(todo)) => NoStart')
      /\ (unpacking' => UNCHANGED <<line, taken>> /\ (unpacking \/ At("enable")))
  BY CallerKeeps DEF TypeOK
<1>2. \A a, b : At(a) /\ At(b) => a = b
  BY DEF At
<1>3. /\ At("lock") => Lock /\ unpacking' = FALSE
      /\ At("disable") => Disable /\ unpacking' = FALSE
      /\ At("exitLoop") => ExitLoop
      /\ At("tell") => Tells
      /\ At("reset") => ResetHolder
      /\ At("enable") => Enable
      /\ At("delay") => Delay
  BY DEF Caller, At, Lock, Disable, ExitLoop, Arm, Send, Tells, AwaitAnswer, AwaitTimeout, Wakes,
     SendFails, TellFails, Delay,
         SetDtr, Support, ResetHolder, Enable, GrabWait, GrabCopy
<1>4. NoStart /\ NoHeader
  <2>1. At("delay") => NoStart /\ NoHeader
    BY <1>3 DEF Delay, Settled, NoStart, NoHeader
  <2> QED BY <2>1 DEF AnswerInv, LoopInv
<1>5. hold' \in {hold, Empty, Waited(hold)} /\ (hold' # hold => At("reset") \/ At("wait"))
      /\ (At("reset") => hold' = Empty)
  BY <1>2 DEF Caller, Lock, Disable, ExitLoop, Arm, Send, Tells, Sends, AwaitAnswer, AwaitTimeout,
     Wakes, SendFails, TellFails, Delay,
         SetDtr, Support, ResetHolder, Enable, GrabWait, GrabCopy, shared
<1>6. Whole(hold')
  BY <1>5, EmptyHolder DEF TypeOK
<1>7. SourceInv'
  BY <1>1 DEF SourceInv
<1>8. /\ At("exitLoop")' => At("lock") \/ At("disable")
      /\ At("arm")' => At("exitLoop")
      /\ At("send")' => At("arm")
      /\ At("await")' => At("send")
      /\ At("copy")' => At("wait")
      /\ At("enable")' => At("reset")
      /\ At("tell")' => \/ Moves(Arg')
                        \/ Scans(Arg') /\ At("enable")
                        \/ ~Scans(Arg') /\ At("exitLoop")
  BY <1>1, Afterwards
<1>9. At("reset") => Still
  <2> SUFFICES ASSUME At("reset") PROVE Still
    OBVIOUS
  <2>1. todo[1].op = "reset" /\ 1 \in DOMAIN todo
    BY <1>1 DEF At, Idle, Left
  <2>2. ~SettledBefore(todo, 1)
    BY DEF SettledBefore
  <2> QED BY <2>1, <2>2 DEF ResetInv
<1>10. StepInv'
  <2>1. At("exitLoop")' \/ Armed' => ~unpacking'
    BY <1>1, <1>2, <1>3, <1>8 DEF Armed, StepInv
  <2>2. At("tell")' => Moves(Arg') \/ Scans(Arg') \/ ~unpacking'
    BY <1>1, <1>2, <1>8 DEF StepInv
  <2>3. At("enable")' => Still' /\ hold' = Empty
    <3> SUFFICES ASSUME At("enable")' PROVE Still' /\ hold' = Empty
      OBVIOUS
    <3>1. At("reset") /\ Still
      BY <1>8, <1>9
    <3>2. ~Starts(Head(todo))
      BY <3>1 DEF At, Starts
    <3> QED BY <1>1, <1>5, <3>1, <3>2 DEF Still, Quiet
  <2>4. At("tell")' /\ Scans(Arg') => Still' /\ hold' = Empty /\ unpacking'
    <3> SUFFICES ASSUME At("tell")', Scans(Arg') PROVE Still' /\ hold' = Empty /\ unpacking'
      OBVIOUS
    <3>1. At("enable") /\ Enable
      BY <1>3, <1>8 DEF Moves, Scans
    <3>2. Still /\ hold = Empty
      BY <3>1 DEF StepInv
    <3>3. UNCHANGED <<loop, cmds, line, taken, hold>> /\ unpacking' = TRUE
      BY <3>1 DEF Enable, decoder
    <3> QED BY <3>2, <3>3 DEF Still, Quiet, NoStart, NoHeader
  <2> QED BY <2>1, <2>2, <2>3, <2>4 DEF StepInv
<1>11. StartInv'
  <2>1. NoHeader'
    BY <1>1, <1>4
  <2>2. /\ ~NoStart' => unpacking' /\ ~loop'
        /\ \A i \in DOMAIN cmds' : Scans(cmds'[i]) => i = Len(cmds')
    <3>1. CASE At("tell") /\ Scans(Arg)
      <4>1. unpacking /\ ~loop
        BY <3>1 DEF StepInv, Still, Quiet
      <4>2. unpacking' = unpacking /\ loop' = loop /\ cmds' = Append(cmds, Arg)
            /\ cmds \in Seq(Commands(Requests \cup Tellings))
        BY <1>3, <3>1 DEF Tells, Sends, TypeOK
      <4>3. /\ \A i \in DOMAIN cmds : ~Scans(cmds[i])
            /\ \A i \in DOMAIN cmds' : i = Len(cmds') \/ (i \in DOMAIN cmds /\ cmds'[i] = cmds[i])
        BY <1>4, <4>2 DEF NoStart
      <4> QED BY <4>1, <4>2, <4>3
    <3>2. CASE ~(At("tell") /\ Scans(Arg))
      <4>1. NoStart'
        <5>1. CASE Starts(Head(todo))
          <6>1. At("enable")
            BY <1>1, <3>2, <5>1 DEF Starts, At, Arg
          <6>2. cmds' = cmds
            BY <1>3, <6>1 DEF Enable
          <6> QED BY <1>4, <6>2 DEF NoStart
        <5>2. CASE ~Starts(Head(todo))
          BY <1>1, <1>4, <5>2
        <5> QED BY <5>1, <5>2
      <4> QED BY <4>1 DEF NoStart
    <3> QED BY <3>1, <3>2
  <2>3. unpacking' /\ ~loop' => hold' = Empty /\ taken'.kind # "sample"
    <3> SUFFICES ASSUME unpacking', ~loop' PROVE hold' = Empty /\ taken'.kind # "sample"
      OBVIOUS
    <3>1. CASE At("enable")
      <4>1. Still /\ hold = Empty
        BY <3>1 DEF StepInv
      <4> QED BY <1>1, <1>2, <1>5, <3>1, <4>1 DEF Still
    <3>2. CASE ~At("enable")
      <4>1. unpacking /\ ~At("exitLoop")
        BY <1>1, <3>2 DEF StepInv
      <4>2. loop' = loop
        BY <4>1 DEF Caller, Lock, Disable, ExitLoop, Arm, Send, Tells, Sends, AwaitAnswer,
           AwaitTimeout, Wakes, SendFails, TellFails, Delay, SetDtr, Support, ResetHolder, Enable,
              GrabWait, GrabCopy, shared
      <4>3. hold = Empty /\ taken.kind # "sample"
        BY <4>1, <4>2 DEF StartInv
      <4> QED BY <1>1, <1>5, <4>3, EmptyHolder
    <3> QED BY <3>1, <3>2
  <2> QED BY <2>1, <2>2, <2>3 DEF StartInv, NoHeader
<1>12. FlowInv'
  <2> SUFFICES ASSUME unpacking', loop'
               PROVE  /\ \A i \in DOMAIN cmds' : Moves(cmds'[i])
                      /\ RunsFrom(1)'
                      /\ taken'.kind = "sample" => Placeable(taken'.node) /\ Upcoming' = Following(taken'.node)
                      /\ Filled(hold') # <<>> => Following(Filled(hold')[Len(Filled(hold'))]) = Pending'
    BY DEF FlowInv
  <2>1. loop /\ ~At("enable")
    BY <1>1 DEF StepInv, Still, Quiet
  <2>2. unpacking /\ line' = line /\ taken' = taken /\ dev' = dev
    BY <1>1, <2>1
  <2>3. /\ \A i \in DOMAIN cmds : Moves(cmds[i])
        /\ RunsFrom(1)
        /\ taken.kind = "sample" => Placeable(taken.node) /\ Upcoming = Following(taken.node)
        /\ Filled(hold) # <<>> => Following(Filled(hold)[Len(Filled(hold))]) = Pending
    BY <2>1, <2>2 DEF FlowInv
  <2>4. \A i \in DOMAIN cmds' : Moves(cmds'[i])
    <3>1. ~At("send")
      BY <2>2 DEF StepInv, Armed
    <3>2. CASE Tells
      <4>1. Moves(Arg)
        BY <2>1, <2>2, <3>2 DEF Tells, StepInv, Still, Quiet
      <4>2. cmds' = Append(cmds, Arg) /\ cmds \in Seq(Commands(Requests \cup Tellings))
        BY <3>2 DEF Tells, Sends, TypeOK
      <4>3. \A i \in DOMAIN cmds' : cmds'[i] = Arg \/ (i \in DOMAIN cmds /\ cmds'[i] = cmds[i])
        BY <4>2
      <4> QED BY <2>3, <4>1, <4>3
    <3>3. CASE ~Tells
      <4>1. cmds' = cmds
        BY <3>1, <3>3 DEF Caller, Lock, Disable, ExitLoop, Arm, Send, AwaitAnswer, AwaitTimeout,
           Wakes, SendFails, TellFails,
           Delay, SetDtr, Support, ResetHolder, Enable, GrabWait, GrabCopy
      <4> QED BY <2>3, <4>1
    <3> QED BY <3>2, <3>3
  <2>5. RunsFrom(1)' /\ Upcoming' = Upcoming /\ Pending' = Pending
    BY <2>2, <2>3 DEF RunsFrom, NextAfter, Upcoming, Pending
  <2>6. Filled(hold') # <<>> => Filled(hold') = Filled(hold)
    BY <1>5, EmptyHolder DEF TypeOK
  <2> QED BY <2>2, <2>3, <2>4, <2>5, <2>6
<1>13. GrabbedIsOneScan'
  <2>1. CASE GrabCopy
    <3>1. hold.avail \in 0 .. 1 /\ hold.avail >= 0
      BY <2>1 DEF GrabCopy, CopyInv, TypeOK, Holders
    <3>2. PICK s \in Seq(Nodes) : s = hold.buf[hold.avail]
      BY <3>1 DEF TypeOK, Holders
    <3>3. got' = [nodes |-> s, ts |-> hold.ts[hold.avail], fresh |-> TRUE]
      BY <2>1, <3>2 DEF GrabCopy, Available, BeginTs
    <3>4. s # <<>> /\ Sync(s[1]) /\ hold.ts[hold.avail] = <<s[1]>>
      BY <3>1, <3>2 DEF Begun
    <3>5. OneScan(s) /\ s[Len(s)].pos = RevLen - 1
      BY <3>1, <3>2 DEF Whole
    <3>6. 1 \in 1 .. Len(s) /\ \A i \in 2 .. Len(s) : i \in 1 .. Len(s) /\ i > 1
      BY <3>4
    <3>7. s[1].now /\ \A i \in 2 .. Len(s) :
             s[i].now /\ s[i].rev = s[1].rev /\ s[i].pos > s[i - 1].pos
      BY <3>5, <3>6 DEF OneScan, Placeable
    <3>8. got'.nodes = s /\ got'.ts = <<s[1]>>
      BY <3>3, <3>4
    <3> QED BY <3>4, <3>5, <3>7, <3>8 DEF GrabbedIsOneScan
  <2>2. CASE ~GrabCopy
    <3>1. got' = got
      BY <2>2 DEF Caller, Lock, Disable, ExitLoop, Arm, Send, Tells, Sends, AwaitAnswer,
         AwaitTimeout, Wakes, SendFails, TellFails, Delay, SetDtr, Support, ResetHolder, Enable,
            GrabWait
    <3> QED BY <3>1 DEF GrabbedIsOneScan
  <2> QED BY <2>1, <2>2
<1> QED BY <1>6, <1>7, <1>10, <1>11, <1>12, <1>13, CallerReset

\* The decoder: what it takes, and what it hands to the holder, is the next sample.
LEMMA DecoderStream ==
    ShapeInv /\ AnswerInv /\ StreamInv /\ Decoder /\ timely /\ timely' => StreamInv'
<1> SUFFICES ASSUME ShapeInv, AnswerInv, StreamInv, Decoder, timely, timely' PROVE StreamInv'
  OBVIOUS
<1> USE DEF ShapeInv, StreamInv
<1>1. /\ UNCHANGED <<todo, unpacking, got, dev, cmds>>
      /\ \A op : At(op)' <=> At(op)
      /\ (Still => Still' /\ hold' = hold)
      /\ line \in Seq(Messages) /\ taken \in Messages
  BY OthersKeep DEF TypeOK, Decoder, Decode, Unlock, ToUnpacker, ToWaiter, Store, callerIdle
<1>2. StepInv'
  <2>1. Arg' = Arg
    BY <1>1 DEF Arg
  <2> QED BY <1>1, <2>1 DEF StepInv, Armed
<1>3. SourceInv' /\ GrabbedIsOneScan'
  BY <1>1 DEF SourceInv, GrabbedIsOneScan
<1>4. ASSUME StartInv', FlowInv', Whole(hold') PROVE StreamInv'
  BY <1>2, <1>3, <1>4, OthersReset
<1>5. CASE Decode
  <2>1. /\ phase = "idle" /\ line # <<>> /\ line' = Tail(line) /\ hold' = hold
        /\ loop' = (loop \/ Head(line).kind = "header")
        /\ Head(line) = line[1] /\ 1 \in DOMAIN line /\ Len(line) >= 1
        /\ \A i \in DOMAIN line' : i + 1 \in DOMAIN line /\ line'[i] = line[i + 1]
    BY <1>1, <1>5 DEF Decode
  <2>2. taken.kind = "nothing"
    BY <2>1 DEF AnswerInv, ThreadInv
  <2>3. /\ loop /\ line[1].kind = "sample" => taken' = line[1]
        /\ ~loop => taken'.kind # "sample"
    BY <1>5, <2>1, NothingTyped DEF Decode, IsAnswer
  <2>4. ASSUME NEW i \in Nat, i >= 1, RunsFrom(i + 1) PROVE RunsFrom(i)'
    BY <1>1, <2>1, <2>4, RunsTail
  <2>5. StartInv'
    <3>1. NoHeader' => NoHeader \/ line[1].kind = "header"
      <4>1. ASSUME NEW i \in DOMAIN line, i # 1 PROVE i - 1 \in DOMAIN line' /\ line'[i - 1] = line[i]
        BY <1>1, <2>1, <4>1
      <4> QED BY <4>1 DEF NoHeader
    <3>2. line[1].kind = "header" => NoHeader' /\ NoStart /\ cmds = <<>>
      <4> SUFFICES ASSUME line[1].kind = "header" PROVE NoHeader' /\ NoStart /\ cmds = <<>>
        OBVIOUS
      <4>1. cmds = <<>> /\ RunsFrom(2)
        BY <2>1 DEF StartInv
      <4>2. \A i \in DOMAIN line' : line'[i].kind = "sample"
        <5>1. \A i \in DOMAIN line' : i + 1 \in 2 .. Len(line) /\ line'[i] = line[i + 1]
          BY <1>1, <2>1
        <5> QED BY <4>1, <5>1 DEF RunsFrom
      <4> QED BY <4>1, <4>2 DEF NoHeader, NoStart
    <3>3. NoHeader => NoHeader'
      BY <2>1 DEF NoHeader
    <3>4. ~NoStart' \/ ~NoHeader' => unpacking' /\ ~loop'
      <4> SUFFICES ASSUME ~NoStart' \/ ~NoHeader' PROVE unpacking' /\ ~loop'
        OBVIOUS
      <4>1. ~NoStart \/ ~NoHeader
        BY <1>1, <3>3 DEF NoStart
      <4>2. line[1].kind # "header"
        BY <1>1, <3>2 DEF NoStart
      <4> QED BY <1>1, <2>1, <4>1, <4>2 DEF StartInv
    <3>5. \A i \in DOMAIN cmds' : Scans(cmds'[i]) => i = Len(cmds') /\ NoHeader'
      BY <1>1, <3>3 DEF StartInv
    <3>6. ASSUME NEW i \in DOMAIN line', line'[i].kind = "header"
          PROVE  cmds' = <<>> /\ RunsFrom(i + 1)'
      <4>1. i \in Nat /\ i >= 1 /\ line[i + 1].kind = "header" /\ i + 1 \in DOMAIN line
        BY <1>1, <2>1, <3>6
      <4>2. cmds = <<>> /\ RunsFrom(i + 1 + 1)
        BY <4>1 DEF StartInv
      <4> QED BY <1>1, <2>4, <4>1, <4>2
    <3>7. unpacking' /\ ~loop' => hold' = Empty /\ taken'.kind # "sample"
      BY <1>1, <2>1, <2>3 DEF StartInv
    <3> QED BY <3>4, <3>5, <3>6, <3>7 DEF StartInv
  <2>6. FlowInv'
    <3> SUFFICES ASSUME unpacking', loop'
                 PROVE  /\ \A i \in DOMAIN cmds' : Moves(cmds'[i])
                        /\ RunsFrom(1)'
                        /\ taken'.kind = "sample" => Placeable(taken'.node) /\ Upcoming' = Following(taken'.node)
                        /\ Filled(hold') # <<>> => Following(Filled(hold')[Len(Filled(hold'))]) = Pending'
      BY DEF FlowInv
    <3>1. unpacking
      BY <1>1
    <3>2. CASE loop
      <4>1. /\ \A i \in DOMAIN cmds : Moves(cmds[i])
            /\ RunsFrom(1)
            /\ Filled(hold) # <<>> => Following(Filled(hold)[Len(Filled(hold))]) = Pending
        BY <3>1, <3>2 DEF FlowInv
      <4>2. line[1].kind = "sample" /\ Placeable(line[1].node) /\ NextAfter(1) = Following(line[1].node)
        BY <2>1, <4>1 DEF RunsFrom
      <4>3. RunsFrom(1)'
        <5>1. RunsFrom(1 + 1)
          BY <4>1 DEF RunsFrom
        <5> QED BY <2>4, <5>1
      <4>4. taken' = line[1]
        BY <2>3, <3>2, <4>2
      <4>5. Upcoming' = NextAfter(1)
        <5>1. CASE Len(line) = 1
          <6>1. line' = <<>> /\ dev' = dev
            BY <1>1, <2>1, <5>1
          <6> QED BY <5>1, <6>1 DEF Upcoming, NextAfter
        <5>2. CASE Len(line) > 1
          <6>1. Tail(line) # <<>> /\ Tail(line)[1] = line[2]
            BY <1>1, <5>2
          <6>2. line' # <<>> /\ line'[1] = line[2]
            BY <2>1, <6>1
          <6> QED BY <5>2, <6>2 DEF Upcoming, NextAfter
        <5>3. Len(line) = 1 \/ Len(line) > 1
          <6>1. Len(line) \in Nat /\ Len(line) >= 1
            BY <1>1, <2>1
          <6>2. \A n \in Nat : n >= 1 => n = 1 \/ n > 1
            OBVIOUS
          <6> QED BY <6>1, <6>2, Zenon
        <5> QED BY <5>1, <5>2, <5>3, Zenon
      <4>6. Pending' = Pending
        BY <2>1, <2>2, <4>2, <4>4 DEF Pending, Upcoming
      <4> QED BY <1>1, <2>1, <4>1, <4>2, <4>3, <4>4, <4>5, <4>6
    <3>3. CASE ~loop
      <4>1. line[1].kind = "header"
        BY <2>1, <3>3
      <4>2. cmds = <<>> /\ RunsFrom(1 + 1)
        BY <2>1, <4>1 DEF StartInv
      <4>3. RunsFrom(1)'
        BY <2>4, <4>2
      <4>4. hold = Empty
        BY <3>1, <3>3 DEF StartInv
      <4> QED BY <1>1, <2>1, <2>3, <3>3, <4>2, <4>3, <4>4, EmptyHolder
    <3> QED BY <3>2, <3>3
  <2> QED BY <1>4, <2>1, <2>5, <2>6
<1>6. CASE Unlock \/ ToWaiter \/ Store
  <2>1. /\ UNCHANGED <<line, loop, hold>>
        /\ taken' = taken \/ (IsAnswer(taken) /\ taken' = Nothing)
    BY <1>6 DEF Unlock, ToWaiter, Store, AnswerInv, ThreadInv, shared
  <2>2. /\ (taken'.kind = "sample") = (taken.kind = "sample")
        /\ taken.kind = "sample" => taken' = taken
    BY <2>1, NothingTyped DEF IsAnswer
  <2>3. StartInv'
    BY <1>1, <2>1, <2>2 DEF StartInv, NoStart, NoHeader, RunsFrom, NextAfter
  <2>4. Upcoming' = Upcoming /\ Pending' = Pending /\ (RunsFrom(1) => RunsFrom(1)')
    BY <1>1, <2>1, <2>2 DEF Upcoming, Pending, RunsFrom, NextAfter
  <2>5. FlowInv'
    BY <1>1, <2>1, <2>2, <2>4 DEF FlowInv
  <2> QED BY <1>4, <2>1, <2>3, <2>5
<1>7. CASE ToUnpacker
  <2>1. /\ taken.kind = "sample" /\ taken' = Nothing /\ UNCHANGED <<line, loop>>
        /\ hold' = (IF unpacking THEN Push(hold, taken.node) ELSE hold)
    BY <1>7 DEF ToUnpacker
  <2>2. taken'.kind = "nothing"
    BY <2>1, NothingTyped
  <2>3. unpacking => loop
    BY <2>1 DEF StartInv
  <2>4. StartInv'
    BY <1>1, <2>1, <2>2, <2>3 DEF StartInv, NoStart, NoHeader, RunsFrom, NextAfter
  <2>5. CASE unpacking
    <3>1. /\ \A i \in DOMAIN cmds : Moves(cmds[i])
          /\ RunsFrom(1) /\ Placeable(taken.node) /\ Upcoming = Following(taken.node)
          /\ Filled(hold) # <<>> => Following(Filled(hold)[Len(Filled(hold))]) = taken.node
      BY <2>1, <2>3, <2>5 DEF FlowInv, Pending
    <3>2. taken.node \in Nodes /\ hold' = Push(hold, taken.node) /\ hold \in Holders
      BY <1>1, <2>1, <2>5 DEF Messages, TypeOK
    <3>3. Whole(hold') /\ (Filled(hold') # <<>> => Filled(hold')[Len(Filled(hold'))] = taken.node)
      BY <3>1, <3>2, PushWhole
    <3>4. Pending' = Upcoming /\ Upcoming' = Upcoming
      BY <1>1, <2>1, <2>2 DEF Pending, Upcoming
    <3>5. RunsFrom(1)'
      BY <1>1, <2>1, <3>1 DEF RunsFrom, NextAfter
    <3>6. FlowInv'
      BY <1>1, <2>2, <3>1, <3>3, <3>4, <3>5 DEF FlowInv
    <3> QED BY <1>4, <2>4, <3>3, <3>6
  <2>6. CASE ~unpacking
    <3>1. hold' = hold /\ unpacking' = unpacking
      BY <1>1, <2>1, <2>6
    <3>2. FlowInv'
      BY <2>6, <3>1 DEF FlowInv
    <3> QED BY <1>4, <2>4, <3>1, <3>2
  <2> QED BY <2>5, <2>6
<1> QED BY <1>5, <1>6, <1>7 DEF Decoder

\* The device: what it sends next follows what it sent before, and while the samples run
\* it is told nothing that changes that.
LEMMA DeviceStream ==
    ShapeInv /\ AnswerInv /\ StreamInv /\ Device /\ timely /\ timely' => StreamInv'
<1> SUFFICES ASSUME ShapeInv, AnswerInv, StreamInv, Device, timely, timely' PROVE StreamInv'
  OBVIOUS
<1> USE DEF ShapeInv, StreamInv
<1>1. /\ UNCHANGED <<todo, unpacking, got, loop, phase>>
      /\ \A op : At(op)' <=> At(op)
      /\ (Still => Still' /\ hold' = hold) /\ (NoStart => NoStart')
      /\ line \in Seq(Messages) /\ taken \in Messages
      /\ cmds \in Seq(Commands(Requests \cup Tellings))
      /\ dev \in [kind : Devices, scanning : BOOLEAN, next : Nodes]
  BY OthersKeep DEF TypeOK, Device, DeviceTakes, DeviceLoses, DeviceSamples, decoder, shared
<1>2. StepInv'
  <2>1. Arg' = Arg
    BY <1>1 DEF Arg
  <2> QED BY <1>1, <2>1 DEF StepInv, Armed
<1>3. GrabbedIsOneScan'
  BY <1>1 DEF GrabbedIsOneScan
<1>4. ASSUME StartInv', FlowInv', Whole(hold'), SourceInv' PROVE StreamInv'
  BY <1>2, <1>3, <1>4, OthersReset
\* a command is gone
<1>5. ASSUME cmds # <<>>, cmds' = Tail(cmds)
      PROVE  /\ NoHeader /\ 1 \in DOMAIN cmds /\ Head(cmds) = cmds[1]
             /\ Head(cmds) \in Commands(Requests \cup Tellings)
             /\ \A i \in DOMAIN cmds' : i + 1 \in DOMAIN cmds /\ cmds'[i] = cmds[i + 1]
             /\ Len(cmds') = Len(cmds) - 1 /\ Len(cmds) \in Nat
  <2>1. NoHeader
    BY <1>5 DEF StartInv, NoHeader
  <2> QED BY <1>1, <1>5, <2>1
<1>6. ASSUME cmds # <<>>, cmds' = Tail(cmds), UNCHANGED <<line, taken, hold>>,
             dev' = dev \/ (dev' = Ended(dev) /\ ~Moves(Head(cmds)))
      PROVE  StreamInv'
  <2>1. StartInv'
    <3>1. NoHeader'
      BY <1>5, <1>6 DEF NoHeader
    <3>2. ~NoStart' => unpacking' /\ ~loop'
      BY <1>1 DEF StartInv
    <3>3. \A i \in DOMAIN cmds' : Scans(cmds'[i]) => i = Len(cmds')
      BY <1>5, <1>6 DEF StartInv
    <3> QED BY <1>1, <1>6, <3>1, <3>2, <3>3 DEF StartInv, NoHeader
  <2>2. FlowInv'
    <3> SUFFICES ASSUME unpacking', loop' PROVE FlowInv'
      BY DEF FlowInv
    <3>1. unpacking /\ loop
      BY <1>1
    <3>2. Moves(Head(cmds)) /\ \A i \in DOMAIN cmds' : Moves(cmds'[i])
      BY <1>5, <1>6, <3>1 DEF FlowInv
    <3>3. dev' = dev
      BY <1>6, <3>2
    <3>4. Upcoming' = Upcoming /\ Pending' = Pending /\ (RunsFrom(1) => RunsFrom(1)')
      BY <1>6, <3>3 DEF Upcoming, Pending, RunsFrom, NextAfter
    <3> QED BY <1>6, <3>1, <3>2, <3>4 DEF FlowInv
  <2>3. SourceInv'
    <3>1. Ended(dev).next.now = dev.next.now /\ Ended(dev).scanning = FALSE
      <4>1. [dev.next EXCEPT !.rev = 0, !.pos = 0].now = dev.next.now
        BY <1>1 DEF Nodes
      <4>2. Ended(dev) = [dev EXCEPT !.scanning = FALSE, !.next = [dev.next EXCEPT !.rev = 0, !.pos = 0]]
        BY DEF Ended
      <4> QED BY <1>1, <4>1, <4>2
    <3> QED BY <1>6, <3>1 DEF SourceInv
  <2> QED BY <1>4, <1>6, <2>1, <2>2, <2>3
<1>7. CASE DeviceTakes
  <2>1. cmds # <<>> /\ cmds' = Tail(cmds) /\ Obeys(Head(cmds))
    BY <1>7 DEF DeviceTakes
  \* a scan starts
  <2>2. ASSUME NEW pos \in 0 .. RevLen - 1, ScanStarts(pos), Scans(Head(cmds)) PROVE StreamInv'
    <3>1. /\ Len(cmds) = 1 /\ NoHeader /\ unpacking /\ ~loop /\ hold = Empty /\ taken.kind # "sample"
      <4>1. ~NoStart /\ Len(cmds) = 1 /\ NoHeader
        BY <1>5, <2>1, <2>2 DEF StartInv, NoStart
      <4>2. unpacking /\ ~loop
        BY <4>1 DEF StartInv
      <4> QED BY <4>1, <4>2 DEF StartInv
    <3>2. /\ dev' = [dev EXCEPT !.scanning = TRUE, !.next = [dev.next EXCEPT !.rev = 0, !.pos = pos]]
          /\ line' = Append(AgedLine, Header) /\ taken' = Aged(taken) /\ hold' = AgedHolder(hold)
      BY <2>2 DEF ScanStarts, AgedLine, AgedHolder
    <3>3. cmds' = <<>> /\ hold' = Empty /\ taken'.kind # "sample"
      <4>1. cmds' = <<>>
        BY <1>1, <2>1, <3>1
      <4> QED BY <1>1, <3>1, <3>2, <4>1, EmptyHolder, MessagesTyped
    <3>4. \A i \in DOMAIN line' : line'[i].kind = "header" => i = Len(line')
      <4>1. /\ AgedLine \in Seq(Messages) /\ DOMAIN AgedLine = DOMAIN line
            /\ \A i \in DOMAIN line : AgedLine[i] = Aged(line[i]) /\ line[i] \in Messages
        BY <1>1, LinesMapped DEF AgedLine
      <4>2. \A i \in DOMAIN line' : i = Len(line') \/ (i \in DOMAIN line /\ line'[i] = Aged(line[i]))
        BY <3>2, <4>1
      <4> QED BY <3>1, <4>1, <4>2, MessagesTyped DEF NoHeader
    <3>5. StartInv'
      <4>1. \A i \in DOMAIN line' : line'[i].kind = "header" => cmds' = <<>> /\ RunsFrom(i + 1)'
        <5>1. Len(line') \in Nat
          BY <1>1, <3>2, LinesMapped, NothingTyped
        <5> QED BY <3>3, <3>4, <5>1 DEF RunsFrom
      <4> QED BY <1>1, <3>1, <3>3, <4>1 DEF StartInv
    <3>6. FlowInv'
      BY <1>1, <3>1 DEF FlowInv
    <3>7. SourceInv'
      <4>1. [dev.next EXCEPT !.rev = 0, !.pos = pos].now = dev.next.now
            /\ [dev.next EXCEPT !.rev = 0, !.pos = pos].pos = pos
        BY <1>1 DEF Nodes
      <4>2. pos >= 0
        OBVIOUS
      <4> QED BY <1>1, <3>2, <4>1, <4>2 DEF SourceInv
    <3> QED BY <1>4, <3>3, <3>5, <3>6, <3>7, EmptyHolder
  <2>3. CASE Head(cmds).kind \in {"stop", "reset"} /\ dev' = Ended(dev) /\ UNCHANGED <<line, taken, hold>>
    BY <1>6, <2>1, <2>3 DEF Moves
  <2>4. CASE UNCHANGED <<dev, line, taken, hold>>
    BY <1>6, <2>1, <2>4
  \* a request is answered: there is no stream
  <2>5. CASE /\ Head(cmds).kind \notin Tellings
             /\ dev' = Ended(dev) /\ UNCHANGED <<taken, hold>>
             /\ line' = Append(line, Answer(Head(cmds).kind, Head(cmds).key))
    <3> DEFINE m == Answer(Head(cmds).kind, Head(cmds).key)
    <3>1. m.kind \in Requests /\ line' = Append(line, m)
      <4>1. Head(cmds).kind \in Requests /\ Head(cmds).key \in Keys
        BY <1>5, <2>1, <2>5 DEF Commands
      <4> QED BY <2>5, <4>1, MessagesTyped
    <3> HIDE DEF m
    <3>2. NoHeader'
      <4>1. m.kind # "header"
        BY <3>1 DEF Requests
      <4>2. \A i \in DOMAIN line' : (i \in DOMAIN line /\ line'[i] = line[i]) \/ line'[i] = m
        BY <1>1, <3>1
      <4> QED BY <1>5, <2>1, <4>1, <4>2 DEF NoHeader
    <3>3. ~(unpacking' /\ loop')
      <4>1. ~Moves(Head(cmds))
        BY <2>5 DEF Moves, Tellings
      <4> QED BY <1>1, <1>5, <2>1, <4>1 DEF FlowInv
    <3>4. StartInv'
      <4>1. \A i \in DOMAIN cmds' : Scans(cmds'[i]) => i = Len(cmds')
        BY <1>5, <2>1 DEF StartInv
      <4>2. ~NoStart' => unpacking' /\ ~loop'
        BY <1>1 DEF StartInv
      <4> QED BY <1>1, <2>5, <3>2, <4>1, <4>2 DEF StartInv, NoHeader
    <3>5. FlowInv'
      BY <3>3 DEF FlowInv
    <3>6. SourceInv'
      <4>1. [dev.next EXCEPT !.rev = 0, !.pos = 0].now = dev.next.now
        BY <1>1 DEF Nodes
      <4>2. dev' = [dev EXCEPT !.scanning = FALSE, !.next = [dev.next EXCEPT !.rev = 0, !.pos = 0]]
        BY <2>5 DEF Ended
      <4> QED BY <1>1, <4>1, <4>2 DEF SourceInv
    <3> QED BY <1>4, <2>5, <3>4, <3>5, <3>6
  <2> QED BY <2>1, <2>2, <2>3, <2>4, <2>5 DEF Obeys, Tellings, Scans
<1>8. CASE DeviceLoses
  BY <1>6, <1>8 DEF DeviceLoses, shared, decoder
<1>9. CASE DeviceSamples
  <2>1. /\ dev.scanning /\ line' = Append(line, Sample(dev.next)) /\ UNCHANGED <<hold, taken, cmds>>
        /\ dev' = [dev EXCEPT !.next = Following(dev.next)]
    BY <1>9 DEF DeviceSamples, shared, decoder
  <2>2. Placeable(dev.next) /\ dev.next \in Nodes /\ dev'.next = Following(dev.next)
        /\ dev'.scanning = dev.scanning
    BY <1>1, <2>1 DEF SourceInv, Placeable
  <2>3. \A i \in Nat : i >= 1 /\ RunsFrom(i) => RunsFrom(i)'
    BY <1>1, <2>1, <2>2, RunsAppend
  <2>4. Sample(dev.next).kind = "sample" /\ Sample(dev.next).node = dev.next
    BY <2>2, MessagesTyped
  <2>5. /\ Len(line') = Len(line) + 1 /\ line'[Len(line) + 1] = Sample(dev.next)
        /\ \A i \in DOMAIN line : i \in DOMAIN line' /\ line'[i] = line[i]
        /\ \A i \in DOMAIN line' : i \in DOMAIN line \/ i = Len(line) + 1
    BY <1>1, <2>1
  <2>6. NoHeader' <=> NoHeader
    BY <2>4, <2>5 DEF NoHeader
  <2>7. StartInv'
    <3>1. ASSUME NEW i \in DOMAIN line', line'[i].kind = "header"
          PROVE  cmds' = <<>> /\ RunsFrom(i + 1)'
      <4>1. i \in DOMAIN line /\ line[i].kind = "header"
        BY <2>4, <2>5, <3>1
      <4>2. cmds = <<>> /\ RunsFrom(i + 1) /\ i + 1 \in Nat /\ i + 1 >= 1
        BY <1>1, <4>1 DEF StartInv
      <4> QED BY <2>1, <2>3, <4>2
    <3> QED BY <1>1, <2>1, <2>6, <3>1 DEF StartInv, NoStart
  <2>8. Upcoming' = Upcoming
    <3>1. CASE line = <<>>
      <4>1. line' # <<>> /\ line'[1] = Sample(dev.next)
        BY <2>1, <2>5, <3>1
      <4> QED BY <2>4, <3>1, <4>1 DEF Upcoming
    <3>2. CASE line # <<>>
      <4>1. 1 \in DOMAIN line /\ line' # <<>> /\ line'[1] = line[1]
        BY <1>1, <2>1, <3>2
      <4> QED BY <3>2, <4>1 DEF Upcoming
    <3> QED BY <3>1, <3>2
  <2>9. FlowInv'
    <3>1. Pending' = Pending /\ (RunsFrom(1) => RunsFrom(1)')
      BY <2>1, <2>3, <2>8 DEF Pending
    <3> QED BY <1>1, <2>1, <2>8, <3>1 DEF FlowInv
  <2>10. SourceInv'
    BY <2>1, <2>2, FollowingStep DEF SourceInv, Placeable
  <2> QED BY <1>4, <2>1, <2>7, <2>9, <2>10
<1> QED BY <1>7, <1>8, <1>9 DEF Device

LEMMA Timely == [Next]_vars /\ timely' => timely
<1>1. UNCHANGED vars \/ UNCHANGED history => UNCHANGED timely
  BY DEF vars, history
<1>2. Calls \/ Decoder \/ Device => UNCHANGED timely
  BY DEF Calls, Call, Connect, Disconnect, Decoder, Decode, Unlock, ToUnpacker, ToWaiter, Store,
     callerIdle, Device, DeviceTakes, DeviceLoses, DeviceSamples, history
<1>3. Caller /\ timely' => timely
  BY DEF Caller, Lock, Disable, ExitLoop, Arm, Send, Tells, Sends, AwaitAnswer, AwaitTimeout, Wakes,
     SendFails, TellFails, Delay, SetDtr, Support, ResetHolder, Enable, GrabWait, GrabCopy, history
<1> QED BY <1>1, <1>2, <1>3 DEF Next

LEMMA Stream == Spec => [](timely => StreamInv)
<1>1. StreamInv /\ UNCHANGED vars => StreamInv'
  BY DEF StreamInv, ResetInv, StepInv, StartInv, FlowInv, SourceInv, GrabbedIsOneScan,
     SettledBefore,
     Armed, At, Idle, Arg, NoStart, NoHeader, RunsFrom, NextAfter, Upcoming, Pending, Quiet, Still,
     vars, caller, shared, decoder, history
<1>2. ShapeInv /\ AnswerInv /\ (timely => StreamInv) /\ [Next]_vars => (timely => StreamInv)'
  BY <1>1, Timely, CallsStream, CallerStream, DecoderStream, DeviceStream DEF Next
<1> QED BY InitStream, <1>2, Shape, Answers, PTL DEF Spec

\* What a caller grabs is one scan of the one that was started last, from its sync node to
\* its last one, whatever calls were made before, whatever was lost or late, and however
\* the decoder and the callers interleave, as long as no delay was too short (pushScanNodeData, grabScanDataHq and the order
\* of _disableDataGrabbing, the delay, reset and the start command).
THEOREM GrabbedCorrect == Spec => []GrabbedIsOneScan
<1>1. (timely => StreamInv) => GrabbedIsOneScan
  BY DEF StreamInv, GrabbedIsOneScan
<1> QED BY <1>1, Stream, PTL
=============================================================================

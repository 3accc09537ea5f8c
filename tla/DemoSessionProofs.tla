-------------------------- MODULE DemoSessionProofs --------------------------
(***************************************************************************)
(* Theorems about the demo session, for any drives, any workflows, any     *)
(* number of jobs and any length of the tick.                              *)
(*                                                                         *)
(* What a call of advance does is computed by three functions defined by   *)
(* recursion: over the jobs that were queued, over the jobs that run in a  *)
(* tick, and over the ticks.  Recursion and UpTo of JobManagerProofs say   *)
(* that such functions are there, and what is true of each of their values.*)
(***************************************************************************)
EXTENDS DemoSession, JobManagerProofs

-----------------------------------------------------------------------------
(* The three recursive functions.  What every step of one keeps, all of it keeps. *)

\* Any number of ticks.
TickKeeps(S) == \A t \in S : TickOnce(t) \in S

TickRuns(s, n, S) ==
    {g \in [0..n -> S] : g[0] = s /\ \A k \in 0..(n - 1) : g[k + 1] = TickOnce(g[k])}

LEMMA TicksAreSteps ==
    ASSUME NEW S, NEW s \in S, NEW n \in Nat, TickKeeps(S)
    PROVE  \E g : g \in TickRuns(s, n, S) /\ Ticks(s, n) = g[n]
  <1> DEFINE Step(f, k) == IF k = 0 THEN s ELSE TickOnce(f[k - 1])
             After == CHOOSE f : f = [k \in 0..n |-> Step(f, k)]
  <1>1. Ticks(s, n) = After[n]
    BY Zenon DEF Ticks
  <1>2. \E f : f = [k \in 0..n |-> Step(f, k)]
    <2> DEFINE F == [p \in S \X (1..n) |-> TickOnce(p[1])]
    <2>1. F \in Steppings(S, n)
      BY DEF Steppings, TickKeeps
    <2> HIDE DEF F
    <2>2. PICK g : g \in StepsOf(F, s, n, S)
      BY <2>1, Recursion
    <2>3. \A k \in 0..n : g[k] = Step(g, k)
      <3>1. ASSUME NEW k \in 1..n PROVE g[k] = TickOnce(g[k - 1])
        <4>1. g[k - 1] \in S /\ g[k] = F[<<g[k - 1], k>>]
          BY <2>2 DEF StepsOf
        <4>2. F[<<g[k - 1], k>>] = TickOnce(g[k - 1])
          BY <4>1 DEF F
        <4> QED
          BY <4>1, <4>2
      <3>2. \A k \in 0..n : k = 0 \/ (k # 0 /\ k \in 1..n)
        OBVIOUS
      <3> QED
        BY <2>2, <3>1, <3>2 DEF StepsOf
    <2>4. g = [k \in 0..n |-> Step(g, k)]
      BY <2>2, <2>3 DEF StepsOf
    <2> QED
      BY <2>4
  <1>3. After = [k \in 0..n |-> Step(After, k)]
    <2> HIDE DEF Step
    <2> QED
      BY <1>2
  <1> HIDE DEF After
  <1> DEFINE T == {k \in 0..n : After[k] \in S}
  <1>4. 0 \in T
    BY <1>3
  <1>5. ASSUME NEW m \in 0..(n - 1) PROVE After[m + 1] = TickOnce(After[m])
    <2>1. m + 1 \in 0..n /\ m + 1 # 0 /\ m + 1 - 1 = m
      OBVIOUS
    <2> QED
      BY <1>3, <2>1
  <1>6. ASSUME NEW m \in 0..(n - 1), m \in T PROVE m + 1 \in T
    BY <1>5, <1>6 DEF TickKeeps
  <1> HIDE DEF T
  <1>7. \A m \in 0..n : m \in T
    BY <1>4, <1>6, UpTo
  <1>8. After \in [0..n -> S]
    BY <1>3, <1>7 DEF T
  <1>9. After[0] = s
    BY <1>3
  <1> QED
    BY <1>1, <1>5, <1>8, <1>9 DEF TickRuns

LEMMA TicksStay ==
    ASSUME NEW S, NEW s \in S, NEW n \in Nat, TickKeeps(S)
    PROVE  Ticks(s, n) \in S
  BY TicksAreSteps DEF TickRuns

\* One tick more, and one tick after another.
LEMMA OneMoreTick ==
    ASSUME NEW S, NEW s \in S, NEW n \in Nat, TickKeeps(S)
    PROVE  Ticks(s, 0) = s /\ Ticks(s, n + 1) = TickOnce(Ticks(s, n))
  <1>1. PICK f : f \in TickRuns(s, n, S) /\ Ticks(s, n) = f[n]
    BY TicksAreSteps
  <1>2. PICK g : g \in TickRuns(s, n + 1, S) /\ Ticks(s, n + 1) = g[n + 1]
    <2>1. n + 1 \in Nat
      OBVIOUS
    <2> QED
      BY <2>1, TicksAreSteps
  <1>3. Ticks(s, 0) = s
    <2>1. PICK h : h \in TickRuns(s, 0, S) /\ Ticks(s, 0) = h[0]
      BY 0 \in Nat, TicksAreSteps
    <2> QED
      BY <2>1 DEF TickRuns
  <1> DEFINE T == {k \in 0..n : f[k] = g[k]}
  <1>4. 0 \in T
    BY <1>1, <1>2 DEF TickRuns
  <1>5. ASSUME NEW m \in 0..(n - 1), m \in T PROVE m + 1 \in T
    <2>1. f[m + 1] = TickOnce(f[m])
      BY <1>1 DEF TickRuns
    <2>2. g[m + 1] = TickOnce(g[m])
      BY <1>2 DEF TickRuns
    <2>3. m + 1 \in 0..n
      OBVIOUS
    <2> QED
      BY <1>5, <2>1, <2>2, <2>3
  <1> HIDE DEF T
  <1>6. n \in T
    BY <1>4, <1>5, UpTo
  <1>7. g[n + 1] = TickOnce(g[n])
    BY <1>2 DEF TickRuns
  <1> QED
    BY <1>1, <1>2, <1>3, <1>6, <1>7 DEF T

LEMMA TicksAdd ==
    ASSUME NEW S, NEW s \in S, NEW a \in Nat, NEW b \in Nat, TickKeeps(S)
    PROVE  Ticks(Ticks(s, a), b) = Ticks(s, a + b)
  <1> DEFINE t == Ticks(s, a)
             T == {k \in 0..b : Ticks(t, k) = Ticks(s, a + k)}
  <1>1. t \in S
    BY TicksStay
  <1> HIDE DEF t
  <1>2. 0 \in T
    <2>1. Ticks(t, 0) = t
      BY <1>1, OneMoreTick
    <2>2. a + 0 = a
      OBVIOUS
    <2> QED
      BY <2>1, <2>2 DEF t
  <1>3. ASSUME NEW m \in 0..(b - 1), m \in T PROVE m + 1 \in T
    <2>1. m \in Nat /\ a + m \in Nat /\ a + (m + 1) = (a + m) + 1 /\ m + 1 \in 0..b
      OBVIOUS
    <2>2. Ticks(t, m + 1) = TickOnce(Ticks(t, m))
      BY <1>1, <2>1, OneMoreTick
    <2>3. Ticks(s, (a + m) + 1) = TickOnce(Ticks(s, a + m))
      BY <2>1, OneMoreTick
    <2> QED
      BY <1>3, <2>1, <2>2, <2>3
  <1> HIDE DEF T
  <1>4. b \in T
    BY <1>2, <1>3, UpTo
  <1> QED
    BY <1>4 DEF T, t

-----------------------------------------------------------------------------
\* The jobs that run in one tick.
RunKeeps(s, S) ==
    \A t \in S : \A i \in 1..Len(s.jobs) :
        s.jobs[i].state = "Running" /\ t.jobs[i].state = "Running" => TickJob(t, i) \in S

LEMMA RunningStays ==
    ASSUME NEW S, NEW s \in S, Len(s.jobs) \in Nat, RunKeeps(s, S)
    PROVE  RunningTicked(s) \in S
  <1> DEFINE n == Len(s.jobs)
             Turn(now, i) == IF s.jobs[i].state = "Running" /\ now.jobs[i].state = "Running"
                             THEN TickJob(now, i) ELSE now
             Step(f, i) == IF i = 0 THEN s ELSE Turn(f[i - 1], i)
             After == CHOOSE f : f = [i \in 0..n |-> Step(f, i)]
  <1>0. n \in Nat
    OBVIOUS
  <1>1. RunningTicked(s) = After[n]
    BY Zenon DEF RunningTicked
  <1>2. \A t \in S : \A i \in 1..n : Turn(t, i) \in S
    BY DEF RunKeeps
  <1> HIDE DEF n, Turn
  <1>3. \E f : f = [i \in 0..n |-> Step(f, i)]
    <2> DEFINE F == [p \in S \X (1..n) |-> Turn(p[1], p[2])]
    <2>1. F \in Steppings(S, n)
      BY <1>2 DEF Steppings
    <2> HIDE DEF F
    <2>2. PICK g : g \in StepsOf(F, s, n, S)
      BY <1>0, <2>1, Recursion
    <2>3. \A k \in 0..n : g[k] = Step(g, k)
      <3>1. ASSUME NEW k \in 1..n PROVE g[k] = Turn(g[k - 1], k)
        <4>1. g[k - 1] \in S /\ g[k] = F[<<g[k - 1], k>>]
          BY <1>0, <2>2 DEF StepsOf
        <4>2. F[<<g[k - 1], k>>] = Turn(g[k - 1], k)
          BY <4>1 DEF F
        <4> QED
          BY <4>1, <4>2
      <3>2. \A k \in 0..n : k = 0 \/ (k # 0 /\ k \in 1..n)
        BY <1>0
      <3> QED
        BY <2>2, <3>1, <3>2 DEF StepsOf
    <2>4. g = [k \in 0..n |-> Step(g, k)]
      BY <2>2, <2>3 DEF StepsOf
    <2> QED
      BY <2>4
  <1>4. After = [k \in 0..n |-> Step(After, k)]
    <2> HIDE DEF Step
    <2> QED
      BY <1>3
  <1> HIDE DEF After
  <1> DEFINE T == {k \in 0..n : After[k] \in S}
  <1>5. 0 \in T
    BY <1>0, <1>4
  <1>6. ASSUME NEW m \in 0..(n - 1), m \in T PROVE m + 1 \in T
    <2>1. m + 1 \in 0..n /\ m + 1 # 0 /\ m + 1 - 1 = m /\ m + 1 \in 1..n
      BY <1>0
    <2>2. After[m + 1] = Turn(After[m], m + 1)
      <3>1. \A k \in 0..n : k # 0 => After[k] = Turn(After[k - 1], k)
        BY <1>4, Zenon
      <3> DEFINE k == m + 1
      <3>2. k \in 0..n /\ k # 0 /\ k - 1 = m
        BY <2>1
      <3> HIDE DEF k
      <3>3. After[k] = Turn(After[m], k)
        BY <3>1, <3>2
      <3> QED
        BY <3>3 DEF k
    <2> QED
      BY <1>2, <1>6, <2>1, <2>2
  <1> HIDE DEF T
  <1>7. \A m \in 0..n : m \in T
    BY <1>0, <1>5, <1>6, UpTo
  <1>8. n \in T
    BY <1>0, <1>7
  <1> QED
    BY <1>1, <1>8 DEF T

-----------------------------------------------------------------------------
\* The jobs that were queued and run now are reported as started, once each, and
\* nothing else is.
EventType == [kind : EventKinds, job : Nat]

Never(events, event) == \A k \in 1..Len(events) : events[k] # event

Once(events, event) ==
    \E k \in 1..Len(events) :
        events[k] = event /\ \A l \in 1..Len(events) : events[l] = event => l = k

LEMMA StartsAreReported ==
    ASSUME NEW js \in Seq(JobType), NEW after
    PROVE  LET told == Starts(js, after)
               started(i) == js[i].state = "Queued" /\ after[i].state = "Running"
           IN  /\ told \in Seq(EventType)
               /\ \A k \in 1..Len(told) : \E i \in 1..Len(js) :
                    started(i) /\ told[k] = Event("Started", i)
               /\ \A i \in 1..Len(js) : started(i) => Once(told, Event("Started", i))
  <1> DEFINE n == Len(js)
             started(i) == js[i].state = "Queued" /\ after[i].state = "Running"
             More(e, i) == IF started(i) THEN Append(e, Event("Started", i)) ELSE e
             Step(f, i) == IF i = 0 THEN <<>> ELSE More(f[i - 1], i)
             Before == CHOOSE f : f = [i \in 0..n |-> Step(f, i)]
             S == Seq(EventType)
  <1>0. n \in Nat
    BY LenProperties
  <1>1. Starts(js, after) = Before[n]
    BY Zenon DEF Starts
  <1>2. \A i \in 1..n : Event("Started", i) \in EventType
    BY <1>0 DEF Event, EventType, EventKinds
  <1>3. \A e \in S : \A i \in 1..n : More(e, i) \in S
    BY <1>2, AppendProperties
  <1>4. <<>> \in S
    OBVIOUS
  <1> HIDE DEF n, started, More, S
  <1>5. \E f : f = [i \in 0..n |-> Step(f, i)]
    <2> DEFINE F == [p \in S \X (1..n) |-> More(p[1], p[2])]
    <2>1. F \in Steppings(S, n)
      BY <1>3 DEF Steppings
    <2> HIDE DEF F
    <2>2. PICK g : g \in StepsOf(F, <<>>, n, S)
      BY <1>0, <1>4, <2>1, Recursion
    <2>3. \A k \in 0..n : g[k] = Step(g, k)
      <3>1. ASSUME NEW k \in 1..n PROVE g[k] = More(g[k - 1], k)
        <4>1. g[k - 1] \in S /\ g[k] = F[<<g[k - 1], k>>]
          BY <1>0, <2>2 DEF StepsOf
        <4>2. F[<<g[k - 1], k>>] = More(g[k - 1], k)
          BY <4>1 DEF F
        <4> QED
          BY <4>1, <4>2
      <3>2. \A k \in 0..n : k = 0 \/ (k # 0 /\ k \in 1..n)
        BY <1>0
      <3> QED
        BY <2>2, <3>1, <3>2 DEF StepsOf
    <2>4. g = [k \in 0..n |-> Step(g, k)]
      BY <2>2, <2>3 DEF StepsOf
    <2> QED
      BY <2>4
  <1>6. Before = [k \in 0..n |-> Step(Before, k)]
    <2> HIDE DEF Step
    <2> QED
      BY <1>5
  <1> HIDE DEF Before
  <1> DEFINE Told(e, m) ==
                /\ \A k \in 1..Len(e) : \E i \in 1..m :
                     started(i) /\ e[k] = Event("Started", i)
                /\ \A i \in 1..m : started(i) => Once(e, Event("Started", i))
             T == {m \in 0..n : Before[m] \in S /\ Told(Before[m], m)}
  <1>7. 0 \in T
    <2>1. Before[0] = <<>> /\ Len(<<>>) = 0 /\ 0 \in 0..n
      BY <1>0, <1>6
    <2> QED
      BY <1>4, <2>1
  <1>8. ASSUME NEW m \in 0..(n - 1), m \in T PROVE m + 1 \in T
    <2> DEFINE e == Before[m]
               x == Event("Started", m + 1)
    <2>1. m \in Nat /\ m + 1 \in 0..n /\ m + 1 # 0 /\ m + 1 - 1 = m /\ m + 1 \in 1..n
      BY <1>0
    <2>2. Before[m + 1] = More(e, m + 1)
      <3>1. \A k \in 0..n : k # 0 => Before[k] = More(Before[k - 1], k)
        BY <1>6, Zenon
      <3> DEFINE k == m + 1
      <3>2. k \in 0..n /\ k # 0 /\ k - 1 = m
        BY <2>1
      <3> HIDE DEF k
      <3>3. Before[k] = More(Before[m], k)
        BY <3>1, <3>2
      <3> QED
        BY <3>3 DEF k
    <2>3. e \in S /\ Told(e, m)
      BY <1>8
    <2>4. Before[m + 1] \in S
      BY <1>3, <2>1, <2>2, <2>3
    <2>5. \A i \in 1..(m + 1) : i \in 1..m \/ i = m + 1
      BY <2>1
    <2>6. \A i \in 1..m : i \in 1..(m + 1) /\ i # m + 1
      BY <2>1
    <2>7. \A i \in 1..m : Event("Started", i) # x
      BY <2>6 DEF Event
    <2>8. e \in Seq(EventType) /\ x \in EventType
      BY <1>2, <2>1, <2>3 DEF S
    <2> HIDE DEF e, x
    <2>9. CASE ~started(m + 1)
      <3>1. Before[m + 1] = e
        BY <2>2, <2>9 DEF More
      <3>2. Told(e, m + 1)
        BY <2>3, <2>5, <2>6, <2>9
      <3> QED
        BY <2>1, <2>4, <3>1, <3>2
    <2>10. CASE started(m + 1)
      <3> DEFINE longer == Append(e, x)
                 l == Len(e)
      <3>1. Before[m + 1] = longer
        BY <2>2, <2>10 DEF More, x
      <3>2. /\ Len(longer) = l + 1 /\ l \in Nat /\ longer[l + 1] = x
            /\ \A k \in 1..l : longer[k] = e[k]
        BY <2>8, AppendProperties, LenProperties
      <3> HIDE DEF longer, l
      <3>3. \A k \in 1..(l + 1) : k \in 1..l \/ k = l + 1
        BY <3>2
      <3>4. \A k \in 1..l : k \in 1..(l + 1) /\ k # l + 1
        BY <3>2
      <3>5. l + 1 \in 1..(l + 1)
        BY <3>2
      <3>6. \A k \in 1..l : e[k] # x
        BY <2>3, <2>7 DEF l
      <3>7. ASSUME NEW k \in 1..Len(longer)
            PROVE  \E i \in 1..(m + 1) : started(i) /\ longer[k] = Event("Started", i)
        <4>1. CASE k \in 1..l
          BY <2>3, <2>6, <3>2, <4>1 DEF l
        <4>2. CASE k = l + 1
          BY <2>1, <2>10, <3>2, <4>2 DEF x
        <4> QED
          BY <3>2, <3>3, <4>1, <4>2
      <3>8. Once(longer, x)
        BY <3>2, <3>3, <3>5, <3>6 DEF Once
      <3>9. ASSUME NEW i \in 1..m, started(i) PROVE Once(longer, Event("Started", i))
        <4>1. PICK k \in 1..l : /\ e[k] = Event("Started", i)
                                /\ \A j \in 1..l : e[j] = Event("Started", i) => j = k
          BY <2>3, <3>9 DEF Once, l
        <4>2. longer[k] = Event("Started", i) /\ k \in 1..(l + 1)
          BY <3>2, <3>4, <4>1
        <4>3. \A j \in 1..(l + 1) : longer[j] = Event("Started", i) => j = k
          BY <2>7, <3>2, <3>3, <4>1
        <4> QED
          BY <3>2, <4>2, <4>3 DEF Once
      <3>10. Told(longer, m + 1)
        BY <2>5, <3>7, <3>8, <3>9 DEF x
      <3> QED
        BY <2>1, <2>4, <3>1, <3>10
    <2> QED
      BY <2>9, <2>10
  <1> HIDE DEF T
  <1>9. \A m \in 0..n : m \in T
    BY <1>0, <1>7, <1>8, UpTo
  <1>10. n \in T
    BY <1>0, <1>9
  <1>11. Before[n] \in S /\ Told(Before[n], n)
    BY <1>10 DEF T
  <1> QED
    BY <1>1, <1>11 DEF S, n, started
\* Another event at the end, and other events after the end.
LEMMA AppendedOnce ==
    ASSUME NEW e \in Seq(EventType), NEW x \in EventType
    PROVE  /\ Never(e, x) => Once(Append(e, x), x)
           /\ \A y : y # x /\ Once(e, y) => Once(Append(e, x), y)
           /\ \A y : y # x /\ Never(e, y) => Never(Append(e, x), y)
           /\ \A k \in 1..Len(Append(e, x)) :
                \/ k \in 1..Len(e) /\ Append(e, x)[k] = e[k]
                \/ k = Len(e) + 1 /\ Append(e, x)[k] = x
           /\ \A k \in 1..Len(e) : k \in 1..Len(Append(e, x)) /\ Append(e, x)[k] = e[k]
           /\ Len(e) + 1 \in 1..Len(Append(e, x)) /\ Append(e, x)[Len(e) + 1] = x
  <1> DEFINE longer == Append(e, x)
             l == Len(e)
  <1>1. /\ Len(longer) = l + 1 /\ l \in Nat /\ longer[l + 1] = x
        /\ \A k \in 1..l : longer[k] = e[k]
    BY AppendProperties, LenProperties
  <1> HIDE DEF longer
  <1>2. /\ \A k \in 1..(l + 1) : k \in 1..l \/ k = l + 1
        /\ \A k \in 1..l : k \in 1..(l + 1) /\ k # l + 1
        /\ l + 1 \in 1..(l + 1)
    BY <1>1
  <1> HIDE DEF l
  <1>3. Never(e, x) => Once(longer, x)
    BY <1>1, <1>2 DEF Never, Once, l
  <1>4. ASSUME NEW y, y # x, Once(e, y) PROVE Once(longer, y)
    <2>1. PICK k \in 1..l : e[k] = y /\ \A j \in 1..l : e[j] = y => j = k
      BY <1>4 DEF Once, l
    <2>2. longer[k] = y /\ k \in 1..(l + 1)
      BY <1>1, <1>2, <2>1
    <2>3. \A j \in 1..(l + 1) : longer[j] = y => j = k
      BY <1>1, <1>2, <1>4, <2>1
    <2> QED
      BY <1>1, <2>2, <2>3 DEF Once
  <1>6. ASSUME NEW y, y # x, Never(e, y) PROVE Never(longer, y)
    BY <1>1, <1>2, <1>6 DEF Never, l
  <1>5. /\ \A k \in 1..Len(longer) :
              \/ k \in 1..l /\ longer[k] = e[k]
              \/ k = l + 1 /\ longer[k] = x
        /\ \A k \in 1..l : k \in 1..Len(longer) /\ longer[k] = e[k]
        /\ l + 1 \in 1..Len(longer) /\ longer[l + 1] = x
    BY <1>1, <1>2
  <1> QED
    BY <1>3, <1>4, <1>5, <1>6 DEF longer, l

LEMMA JoinedOnce ==
    ASSUME NEW e \in Seq(EventType), NEW f \in Seq(EventType)
    PROVE  /\ e \o f \in Seq(EventType)
           /\ \A y : Never(e, y) /\ Never(f, y) => Never(e \o f, y)
           /\ \A y : Once(e, y) /\ Never(f, y) => Once(e \o f, y)
           /\ \A y : Never(e, y) /\ Once(f, y) => Once(e \o f, y)
           /\ \A k \in 1..Len(e \o f) :
                \/ k \in 1..Len(e) /\ (e \o f)[k] = e[k]
                \/ \E j \in 1..Len(f) : k = Len(e) + j /\ (e \o f)[k] = f[j]
           /\ \A k \in 1..Len(e) : k \in 1..Len(e \o f) /\ (e \o f)[k] = e[k]
  <1> DEFINE both == e \o f
             l == Len(e)
             m == Len(f)
  <1>1. /\ both \in Seq(EventType) /\ Len(both) = l + m /\ l \in Nat /\ m \in Nat
        /\ \A k \in 1..(l + m) : both[k] = IF k <= l THEN e[k] ELSE f[k - l]
    BY ConcatProperties, LenProperties
  <1> HIDE DEF both, l, m
  <1>2. \A k \in 1..l : k \in 1..(l + m) /\ both[k] = e[k]
    BY <1>1
  <1>3. \A j \in 1..m : l + j \in 1..(l + m) /\ both[l + j] = f[j]
    <2>1. ASSUME NEW j \in 1..m PROVE l + j \in 1..(l + m) /\ ~(l + j <= l) /\ (l + j) - l = j
      BY <1>1
    <2> QED
      BY <1>1, <2>1
  <1>4. \A k \in 1..(l + m) : k \in 1..l \/ \E j \in 1..m : k = l + j
    <2>1. ASSUME NEW k \in 1..(l + m), k \notin 1..l PROVE \E j \in 1..m : k = l + j
      <3>1. k - l \in 1..m /\ k = l + (k - l)
        BY <1>1, <2>1
      <3> QED
        BY <3>1
    <2> QED
      BY <2>1
  <1>5. \A k \in 1..l : \A j \in 1..m : k # l + j
    BY <1>1
  <1>6. \A j, k \in 1..m : l + j = l + k => j = k
    BY <1>1
  <1>7. Len(both) = l + m
    BY <1>1
  <1>8. ASSUME NEW y, Never(e, y), Never(f, y) PROVE Never(both, y)
    <2>1. (\A k \in 1..l : e[k] # y) /\ \A j \in 1..m : f[j] # y
      BY <1>8 DEF Never, l, m
    <2>2. \A k \in 1..(l + m) : both[k] # y
      BY <1>2, <1>3, <1>4, <2>1
    <2> QED
      BY <1>7, <2>2 DEF Never
  <1>11. ASSUME NEW y, Once(e, y), Never(f, y) PROVE Once(both, y)
    <2>1. PICK k \in 1..l : e[k] = y /\ \A j \in 1..l : e[j] = y => j = k
      BY <1>11 DEF Once, l
    <2>2. \A j \in 1..m : f[j] # y
      BY <1>11 DEF Never, m
    <2>3. \A j \in 1..(l + m) : both[j] = y => j = k
      BY <1>2, <1>3, <1>4, <2>1, <2>2
    <2> QED
      BY <1>2, <1>7, <2>1, <2>3 DEF Once
  <1>12. ASSUME NEW y, Never(e, y), Once(f, y) PROVE Once(both, y)
    <2>1. PICK k \in 1..m : f[k] = y /\ \A j \in 1..m : f[j] = y => j = k
      BY <1>12 DEF Once, m
    <2>2. \A j \in 1..l : e[j] # y
      BY <1>12 DEF Never, l
    <2>3. \A j \in 1..(l + m) : both[j] = y => j = l + k
      BY <1>2, <1>3, <1>4, <2>1, <2>2, SMTT(20)
    <2> QED
      BY <1>3, <1>7, <2>1, <2>3 DEF Once
  <1>9. \A k \in 1..Len(both) :
           \/ k \in 1..l /\ both[k] = e[k]
           \/ \E j \in 1..m : k = l + j /\ both[k] = f[j]
    BY <1>2, <1>3, <1>4, <1>7
  <1>10. \A k \in 1..l : k \in 1..Len(both) /\ both[k] = e[k]
    BY <1>2, <1>7
  <1> QED
    BY <1>1, <1>8, <1>9, <1>10, <1>11, <1>12 DEF both, l, m

-----------------------------------------------------------------------------
(* A tick.  What the manager has made of its tables by then is in order, and of the *)
(* same jobs.                                                                       *)

Failing(job) == job.drive \in FailingDrives /\ isHealthOperation(job.op)

InOrder(js, locks) ==
    /\ Fits(js, locks) /\ Busied(js, locks)
    /\ \A i \in 1..Len(js) :
          /\ js[i].state # "Starting"
          /\ Failing(js[i]) => js[i].state # "Completed"
          /\ js[i].state = "Queued" => StartOutcome(js[i]) = "Running"

SameJobs(js, others) ==
    /\ Len(others) = Len(js)
    /\ \A i \in 1..Len(js) : others[i].drive = js[i].drive /\ others[i].op = js[i].op

Simulations ==
    {s \in [jobs : Seq(JobType), locks : [Drives -> Nat], events : Seq(EventType)] :
        InOrder(s.jobs, s.locks) /\ SameJobs(jobs, s.jobs)}

\* Serving the queue changes the state of queued jobs and nothing else.
LEMMA ServedRecords ==
    ASSUME NEW js \in Seq(JobType), NEW locks \in [Drives -> Nat], NEW k \in 1..Len(js)
    PROVE  LET after == startEligibleJobs(js, locks).jobs[k]
           IN  /\ after.op = js[k].op /\ after.drive = js[k].drive
               /\ after.progress = js[k].progress
               /\ \/ after = js[k]
                  \/ /\ js[k].state = "Queued" /\ after.state = StartOutcome(js[k])
                     /\ after.state = "Running" => k \in Winners(js, locks)
  <1>1. k \in DOMAIN js /\ js[k] \in JobType
    BY LenProperties, ElementOfSeq
  <1>2. startEligibleJobs(js, locks).jobs[k]
            = IF k \in Attempted(js, locks) THEN [js[k] EXCEPT !.state = StartOutcome(js[k])]
              ELSE js[k]
    BY <1>1 DEF startEligibleJobs
  <1>3. k \in Attempted(js, locks) => js[k].state = "Queued"
    BY DEF Attempted
  <1> QED
    BY <1>1, <1>2, <1>3 DEF JobType, Winners

\* A job that is started is started on the drive the policy has seen, so the outcome is
\* that of its drive and its operation.
LEMMA OutcomeOfSame ==
    ASSUME NEW job, NEW other, other.drive = job.drive, other.op = job.op
    PROVE  StartOutcome(other) = StartOutcome(job)
  BY DEF StartOutcome

\* What the end of an active job makes of the tables: they stay in order, and another job
\* is started at most, on a drive that was free or on the one that is free now.
StartedOnly(js, locks, after, i) ==
    \A k \in 1..Len(js) : k # i =>
        \/ after[k] = js[k]
        \/ /\ js[k].state = "Queued" /\ after[k].state = "Running"
           /\ locks[js[k].drive] = NoJob \/ js[k].drive = js[i].drive

LEMMA EndingInOrder ==
    ASSUME NEW js0, NEW locks0, InOrder(js0, locks0),
           NEW i \in 1..Len(js0), js0[i].state \in Active,
           NEW ended \in JobType, ended.drive = js0[i].drive, ended.op = js0[i].op,
           ended.state \in Finished, Failing(js0[i]) => ended.state # "Completed"
    PROVE  LET after == startEligibleJobs([js0 EXCEPT ![i] = ended], Freed(js0, locks0, i))
           IN  /\ InOrder(after.jobs, after.locks) /\ SameJobs(js0, after.jobs)
               /\ after.jobs[i].state = ended.state
               /\ StartedOnly(js0, locks0, after.jobs, i)
  <1> DEFINE js     == [js0 EXCEPT ![i] = ended]
             locks  == Freed(js0, locks0, i)
             served == startEligibleJobs(js, locks)
  <1>1. /\ Fits(js0, locks0) /\ Busied(js0, locks0)
        /\ js0 \in Seq(JobType) /\ locks0 \in [Drives -> Nat] /\ Len(js0) \in Nat
    BY LenProperties DEF InOrder, Fits
  <1>2. /\ js \in Seq(JobType) /\ Len(js) = Len(js0)
        /\ \A k \in 1..Len(js0) : js[k] = IF k = i THEN ended ELSE js0[k]
    BY <1>1, UpdatedJobs
  <1> HIDE DEF served
  <1>3. Fits(js, locks)
    BY <1>1, Releasing
  <1>4. Cardinality(Locked(locks)) < max_parallel_drives /\ \A a, b \in Winners(js, locks) : a = b
    BY <1>1, AtMostOneWinner
  <1>5. \A d \in Drives : locks[d] = locks0[d] \/ d = js0[i].drive
    BY <1>1 DEF Freed
  <1> HIDE DEF js, locks
  <1>6. locks \in [Drives -> Nat] /\ Agree(js, locks)
    BY <1>3 DEF Fits
  <1>7. /\ served.jobs \in Seq(JobType) /\ Len(served.jobs) = Len(js)
        /\ served.locks \in [Drives -> Nat]
    BY <1>2, <1>6, ServedJobs, ServedLocks DEF served
  <1>8. Agree(served.jobs, served.locks)
    BY <1>2, <1>6, ServingAgrees DEF served
  <1>9. /\ Cardinality(Locked(served.locks)) <= max_parallel_drives
        /\ \A k \in 1..Len(js) :
              served.jobs[k].state = "Queued" =>
                 \/ served.locks[js[k].drive] # NoJob
                 \/ Cardinality(Locked(served.locks)) >= max_parallel_drives
    BY <1>2, <1>4, <1>6, ServingFillsTheSlots DEF served
  <1>10. ASSUME NEW k \in 1..Len(js0)
         PROVE  /\ served.jobs[k].op = js0[k].op /\ served.jobs[k].drive = js0[k].drive
                /\ js[k].drive = js0[k].drive
                /\ served.jobs[k].state # "Starting"
                /\ Failing(served.jobs[k]) => served.jobs[k].state # "Completed"
                /\ served.jobs[k].state = "Queued" => StartOutcome(served.jobs[k]) = "Running"
                /\ k = i => served.jobs[k].state = ended.state
                /\ k # i =>
                    \/ served.jobs[k] = js0[k]
                    \/ /\ js0[k].state = "Queued" /\ served.jobs[k].state = "Running"
                       /\ locks0[js0[k].drive] = NoJob \/ js0[k].drive = js0[i].drive
    <2>1. js[k].op = js0[k].op /\ js[k].drive = js0[k].drive
      BY <1>2
    <2>2. /\ served.jobs[k].op = js[k].op /\ served.jobs[k].drive = js[k].drive
          /\ \/ served.jobs[k] = js[k]
             \/ /\ js[k].state = "Queued" /\ served.jobs[k].state = StartOutcome(js[k])
                /\ served.jobs[k].state = "Running" => k \in Winners(js, locks)
      BY <1>2, <1>6, ServedRecords DEF served
    <2>3. /\ js0[k].state # "Starting"
          /\ Failing(js0[k]) => js0[k].state # "Completed"
          /\ js0[k].state = "Queued" => StartOutcome(js0[k]) = "Running"
      BY DEF InOrder
    <2>4. /\ StartOutcome(js[k]) = StartOutcome(js0[k])
          /\ StartOutcome(served.jobs[k]) = StartOutcome(js0[k])
      BY <2>1, <2>2, OutcomeOfSame
    <2>5. Failing(served.jobs[k]) = Failing(js0[k])
      BY <2>1, <2>2 DEF Failing
    <2>6. CASE k = i
      <3>1. js[k] = ended
        BY <1>2, <2>6
      <3>2. served.jobs[k] = js[k]
        BY <2>2, <3>1 DEF Finished
      <3> QED
        BY <2>1, <2>2, <2>5, <2>6, <3>1, <3>2 DEF Finished
    <2>7. CASE k # i
      <3>1. js[k] = js0[k]
        BY <1>2, <2>7
      <3>2. CASE served.jobs[k] = js[k]
        BY <2>1, <2>2, <2>3, <2>4, <2>5, <2>7, <3>1, <3>2
      <3>3. CASE served.jobs[k] # js[k]
        <4>1. /\ js0[k].state = "Queued" /\ served.jobs[k].state = "Running"
              /\ k \in Winners(js, locks)
          BY <2>2, <2>3, <2>4, <3>1, <3>3
        <4>2. locks[js[k].drive] = NoJob
          BY <1>2, <1>6, <4>1, WinnersAreExclusive
        <4>3. js0[k].drive \in Drives
          <5>1. js0[k] \in JobType
            BY <1>1, ElementOfSeq
          <5> QED
            BY <5>1 DEF JobType
        <4>4. locks0[js0[k].drive] = NoJob \/ js0[k].drive = js0[i].drive
          BY <1>5, <2>1, <4>2, <4>3
        <4> QED
          BY <2>1, <2>2, <2>7, <4>1, <4>4
      <3> QED
        BY <3>2, <3>3
    <2> QED
      BY <2>6, <2>7
  <1>11. Fits(served.jobs, served.locks)
    BY <1>7, <1>8 DEF Fits
  <1>12. Busied(served.jobs, served.locks)
    BY <1>2, <1>7, <1>9, <1>10 DEF Busied
  <1>13. InOrder(served.jobs, served.locks)
    BY <1>2, <1>7, <1>10, <1>11, <1>12 DEF InOrder
  <1>14. SameJobs(js0, served.jobs)
    BY <1>1, <1>2, <1>7, <1>10 DEF SameJobs
  <1>15. served.jobs[i].state = ended.state /\ StartedOnly(js0, locks0, served.jobs, i)
    BY <1>10 DEF StartedOnly
  <1> QED
    BY <1>13, <1>14, <1>15 DEF served, js, locks

\* The end of a running job during a tick, which is reported.
Ended(s, after, i, state) ==
    /\ after.events = Append(s.events, Event(state, i))
    /\ after.jobs[i].state = state
    /\ StartedOnly(s.jobs, s.locks, after.jobs, i)

LEMMA EndsInOrder ==
    ASSUME NEW s \in Simulations, NEW i \in 1..Len(s.jobs), s.jobs[i].state = "Running",
           NEW state \in {"Completed", "Failed"}, NEW progress \in 0..100,
           Failing(s.jobs[i]) => state # "Completed"
    PROVE  /\ Ends(s, i, state, progress) \in Simulations
           /\ Ended(s, Ends(s, i, state, progress), i, state)
  <1> DEFINE record == [s.jobs[i] EXCEPT !.state = state, !.progress = progress]
             js     == [s.jobs EXCEPT ![i] = record]
             locks  == Freed(s.jobs, s.locks, i)
             served == startEligibleJobs(js, locks)
             event  == Event(state, i)
             after  == Ends(s, i, state, progress)
  <1>1. /\ s.jobs \in Seq(JobType) /\ s.locks \in [Drives -> Nat] /\ s.events \in Seq(EventType)
        /\ InOrder(s.jobs, s.locks) /\ SameJobs(jobs, s.jobs) /\ Len(s.jobs) \in Nat
        /\ DOMAIN s.jobs = 1..Len(s.jobs)
    BY LenProperties DEF Simulations
  <1>2. s.jobs[i] \in JobType
    BY <1>1, ElementOfSeq
  <1>3. /\ record \in JobType /\ record.drive = s.jobs[i].drive /\ record.op = s.jobs[i].op
        /\ record.state = state /\ record.state \in Finished /\ s.jobs[i].state \in Active
    BY <1>2 DEF JobType, JobStates, Finished, Active
  <1>4. after = [jobs |-> served.jobs, locks |-> served.locks, events |-> Append(s.events, event)]
    <2>1. Recorded(s.jobs, i, record) = js
      BY <1>1 DEF Recorded
    <2>2. releaseLock(s.locks, i) = locks
      BY <1>1 DEF releaseLock, Freed, SameJobs
    <2> QED
      BY <2>1, <2>2 DEF Ends
  <1> HIDE DEF record, served, after
  <1>5. /\ InOrder(served.jobs, served.locks) /\ SameJobs(s.jobs, served.jobs)
        /\ served.jobs[i].state = record.state
        /\ StartedOnly(s.jobs, s.locks, served.jobs, i)
    BY <1>1, <1>3, EndingInOrder DEF served
  <1>6. Append(s.events, event) \in Seq(EventType)
    <2>1. event \in EventType
      BY <1>1 DEF Event, EventType, EventKinds
    <2> QED
      BY <1>1, <2>1, AppendProperties
  <1>7. SameJobs(jobs, served.jobs)
    BY <1>1, <1>5 DEF SameJobs
  <1>8. served.jobs \in Seq(JobType) /\ served.locks \in [Drives -> Nat]
    BY <1>5 DEF InOrder, Fits
  <1>9. after \in Simulations
    <2> HIDE DEF event
    <2> QED
      BY <1>4, <1>5, <1>6, <1>7, <1>8 DEF Simulations
  <1> QED
    BY <1>3, <1>4, <1>5, <1>9 DEF after, Ended

\* A job that keeps its drive, or never had one, leaves the tables in order.
LEMMA ChangeInOrder ==
    ASSUME NEW js0, NEW locks, InOrder(js0, locks), NEW i \in 1..Len(js0),
           NEW job \in JobType, job.drive = js0[i].drive, job.op = js0[i].op,
           job.state \in Active <=> js0[i].state \in Active,
           job.state = js0[i].state \/ job.state \notin {"Starting", "Completed", "Queued"}
    PROVE  /\ InOrder([js0 EXCEPT ![i] = job], locks)
           /\ SameJobs(js0, [js0 EXCEPT ![i] = job])
  <1> DEFINE js == [js0 EXCEPT ![i] = job]
  <1>1. /\ js0 \in Seq(JobType) /\ locks \in [Drives -> Nat]
        /\ Agree(js0, locks) /\ Busied(js0, locks)
        /\ \A k \in 1..Len(js0) :
              /\ js0[k].state # "Starting"
              /\ Failing(js0[k]) => js0[k].state # "Completed"
              /\ js0[k].state = "Queued" => StartOutcome(js0[k]) = "Running"
    BY DEF InOrder, Fits
  <1>2. /\ js \in Seq(JobType) /\ Len(js) = Len(js0)
        /\ \A k \in 1..Len(js0) : js[k] = IF k = i THEN job ELSE js0[k]
    BY <1>1, UpdatedJobs
  <1> HIDE DEF js
  <1>3. \A k \in 1..Len(js0) :
           /\ js[k].drive = js0[k].drive /\ js[k].op = js0[k].op
           /\ js[k].state \in Active <=> js0[k].state \in Active
           /\ js[k].state = js0[k].state \/ js[k].state \notin {"Starting", "Completed", "Queued"}
    BY <1>2
  <1>4. Fits(js, locks)
    <2>1. Agree(js, locks)
      BY <1>1, <1>2, <1>3 DEF Agree
    <2> QED
      BY <1>1, <1>2, <2>1 DEF Fits
  <1>5. Busied(js, locks)
    BY <1>1, <1>2, <1>3 DEF Busied
  <1>6. ASSUME NEW k \in 1..Len(js)
        PROVE  /\ js[k].state # "Starting"
               /\ Failing(js[k]) => js[k].state # "Completed"
               /\ js[k].state = "Queued" => StartOutcome(js[k]) = "Running"
    <2>1. k \in 1..Len(js0)
      BY <1>2
    <2>2. StartOutcome(js[k]) = StartOutcome(js0[k])
      BY <1>3, <2>1, OutcomeOfSame
    <2>3. Failing(js[k]) = Failing(js0[k])
      BY <1>3, <2>1 DEF Failing
    <2> QED
      BY <1>1, <1>3, <2>1, <2>2, <2>3
  <1>7. InOrder(js, locks)
    BY <1>4, <1>5, <1>6 DEF InOrder
  <1>8. SameJobs(js0, js)
    BY <1>2, <1>3 DEF SameJobs
  <1> QED
    BY <1>7, <1>8 DEF js

\* A job that only progresses.
Progressed(s, i, progress) ==
    [s EXCEPT !.jobs = Recorded(@, i, [@[i] EXCEPT !.progress = progress])]

Silent(s, after) ==
    /\ after.events = s.events
    /\ \A k \in 1..Len(s.jobs) : after.jobs[k].state = s.jobs[k].state

LEMMA ProgressInOrder ==
    ASSUME NEW s \in Simulations, NEW i \in 1..Len(s.jobs), s.jobs[i].state = "Running",
           NEW progress \in 0..100
    PROVE  Progressed(s, i, progress) \in Simulations /\ Silent(s, Progressed(s, i, progress))
  <1> DEFINE record == [s.jobs[i] EXCEPT !.progress = progress]
             js     == [s.jobs EXCEPT ![i] = record]
             after  == Progressed(s, i, progress)
  <1>1. /\ s.jobs \in Seq(JobType) /\ s.locks \in [Drives -> Nat] /\ s.events \in Seq(EventType)
        /\ InOrder(s.jobs, s.locks) /\ SameJobs(jobs, s.jobs) /\ Len(s.jobs) \in Nat
        /\ DOMAIN s.jobs = 1..Len(s.jobs)
        /\ s = [jobs |-> s.jobs, locks |-> s.locks, events |-> s.events]
    BY LenProperties DEF Simulations
  <1>2. s.jobs[i] \in JobType
    BY <1>1, ElementOfSeq
  <1>3. /\ record \in JobType /\ record.drive = s.jobs[i].drive /\ record.op = s.jobs[i].op
        /\ record.state = s.jobs[i].state
    BY <1>2 DEF JobType
  <1>4. after = [jobs |-> js, locks |-> s.locks, events |-> s.events]
    <2>1. Recorded(s.jobs, i, record) = js
      BY <1>1 DEF Recorded
    <2>2. after = [jobs |-> Recorded(s.jobs, i, record), locks |-> s.locks, events |-> s.events]
      BY <1>1 DEF Progressed
    <2> QED
      BY <2>1, <2>2
  <1> HIDE DEF record, after
  <1>5. /\ js \in Seq(JobType) /\ Len(js) = Len(s.jobs)
        /\ \A k \in 1..Len(s.jobs) : js[k] = IF k = i THEN record ELSE s.jobs[k]
    BY <1>1, <1>3, UpdatedJobs
  <1>6. InOrder(js, s.locks) /\ SameJobs(s.jobs, js)
    BY <1>1, <1>3, ChangeInOrder
  <1> HIDE DEF js
  <1>7. SameJobs(jobs, js)
    BY <1>1, <1>6 DEF SameJobs
  <1>8. after \in Simulations
    BY <1>1, <1>4, <1>5, <1>6, <1>7 DEF Simulations
  <1>9. \A k \in 1..Len(s.jobs) : js[k].state = s.jobs[k].state
    BY <1>3, <1>5
  <1> QED
    BY <1>4, <1>8, <1>9 DEF after, Silent

\* One job's share of a tick.
LEMMA TickJobInOrder ==
    ASSUME NEW s \in Simulations, NEW i \in 1..Len(s.jobs), s.jobs[i].state = "Running"
    PROVE  /\ TickJob(s, i) \in Simulations
           /\ \/ Silent(s, TickJob(s, i))
              \/ \E state \in {"Completed", "Failed"} : Ended(s, TickJob(s, i), i, state)
  <1> DEFINE reached  == s.jobs[i].progress + TickProgress
             progress == IF reached < 100 THEN reached ELSE 100
             fails == /\ s.jobs[i].drive \in FailingDrives
                      /\ isHealthOperation(s.jobs[i].op)
                      /\ progress >= FailAt
             moved == Progressed(s, i, progress)
  <1>1. s.jobs[i] \in JobType
    <2>1. s.jobs \in Seq(JobType)
      BY DEF Simulations
    <2> QED
      BY <2>1, ElementOfSeq
  <1>2. progress \in 0..100 /\ (progress = 100 => progress >= FailAt) /\ FailAt \in 1..100
    <2>1. s.jobs[i].progress \in 0..100
      BY <1>1 DEF JobType
    <2>2. TickProgress \in 1..100 /\ FailAt \in 1..100
      BY DemoSessionAssumption
    <2> DEFINE p == s.jobs[i].progress
    <2>3. p \in 0..100
      BY <2>1
    <2> HIDE DEF p
    <2>4. /\ (IF p + TickProgress < 100 THEN p + TickProgress ELSE 100) \in 0..100
          /\ 100 >= FailAt
      BY <2>2, <2>3
    <2> QED
      BY <2>2, <2>4 DEF p
  <1>3. TickJob(s, i) = IF fails THEN Ends(s, i, "Failed", progress)
                        ELSE IF progress = 100 THEN Ends(s, i, "Completed", 100)
                        ELSE moved
    BY Zenon DEF TickJob, Progressed
  <1>4. progress = 100 /\ ~fails => ~Failing(s.jobs[i])
    BY <1>2 DEF Failing
  <1> HIDE DEF progress, fails, moved
  <1>5. CASE fails
    <2>1. TickJob(s, i) = Ends(s, i, "Failed", progress)
      BY <1>3, <1>5
    <2>2. "Failed" \in {"Completed", "Failed"} /\ "Failed" # "Completed"
      OBVIOUS
    <2> QED
      BY <1>2, <2>1, <2>2, EndsInOrder
  <1>6. CASE ~fails /\ progress = 100
    <2>1. TickJob(s, i) = Ends(s, i, "Completed", 100)
      BY <1>3, <1>6
    <2>2. "Completed" \in {"Completed", "Failed"} /\ 100 \in 0..100
      OBVIOUS
    <2>3. ~Failing(s.jobs[i])
      BY <1>4, <1>6
    <2> QED
      BY <2>1, <2>2, <2>3, EndsInOrder
  <1>7. CASE ~fails /\ progress # 100
    <2>1. TickJob(s, i) = moved
      BY <1>3, <1>7
    <2> QED
      BY <1>2, <2>1, ProgressInOrder DEF moved
  <1> QED
    BY <1>5, <1>6, <1>7

-----------------------------------------------------------------------------
(* The story a tick tells.  Events are those added since the call began, when the jobs *)
(* were as they still are in the table; seen are the jobs at the start of the tick,    *)
(* from where on the starts are only reported at its end.                              *)

EndStates == {"Completed", "Failed"}

EndOn(events, k, d) ==
    \E state \in EndStates, i \in 1..Len(jobs) : events[k] = Event(state, i) /\ jobs[i].drive = d

\* What the states say of one job and one event, the events say too.
Reported(events, event, happened) ==
    /\ happened => Once(events, event)
    /\ ~happened => Never(events, event)

\* How far the job has come: one that was not queued, or is over, does not come back.
Went(job, seen, now) ==
    /\ job.state # "Queued" => seen.state # "Queued"
    /\ seen.state # "Queued" => now.state # "Queued"
    /\ seen.state = "Queued" => now.state \in {"Queued", "Running"}
    /\ job.state = "Queued" => now.state \in {"Queued", "Running"} \cup EndStates
    /\ now.state = "Cancelled" => job.state = "Cancelled"
    /\ \A state \in EndStates : job.state = state => now.state = state

StoryOf(i, seen, js, events) ==
    /\ Went(jobs[i], seen[i], js[i])
    /\ Reported(events, Event("Started", i), jobs[i].state = "Queued" /\ seen[i].state # "Queued")
    /\ \A state \in EndStates :
          Reported(events, Event(state, i), jobs[i].state # state /\ js[i].state = state)
    /\ seen[i].state = "Queued" /\ js[i].state = "Running" =>
          \E k \in 1..Len(events) : EndOn(events, k, jobs[i].drive)

Explained(events, k) ==
    \/ \E state \in EndStates, i \in 1..Len(jobs) : events[k] = Event(state, i)
    \/ \E i \in 1..Len(jobs) :
          /\ events[k] = Event("Started", i)
          /\ \E l \in 1..(k - 1) : EndOn(events, l, jobs[i].drive)

Orderly(events) == \A k \in 1..Len(events) : Explained(events, k)

Story(seen, js, events) ==
    /\ Orderly(events)
    /\ \A i \in 1..Len(jobs) : StoryOf(i, seen, js, events)

\* What a tick that began with seen has made of the tables.
Ticking(seen) == {t \in Simulations : Story(seen, t.jobs, t.events)}

Told == {t \in Simulations : Story(t.jobs, t.jobs, t.events)}

LEMMA Kinds ==
    \A i, k : /\ Event("Started", i) # Event("Completed", k) /\ Event("Started", i) # Event("Failed", k)
              /\ Event("Completed", i) # Event("Failed", k)
              /\ \A kind : Event(kind, i) = Event(kind, k) => i = k
              /\ Event("Started", i).kind = "Started" /\ Event("Started", i).job = i
              /\ Event("Completed", i).kind = "Completed" /\ Event("Completed", i).job = i
              /\ Event("Failed", i).kind = "Failed" /\ Event("Failed", i).job = i
  BY DEF Event

\* There are as many slots as drives, so a job waits for its own drive only.
LEMMA EnoughSlots ==
    ASSUME NEW s \in Simulations, NEW k \in 1..Len(s.jobs), s.jobs[k].state = "Queued"
    PROVE  s.locks[s.jobs[k].drive] # NoJob
  <1>1. /\ s.jobs \in Seq(JobType) /\ s.locks \in [Drives -> Nat] /\ Busied(s.jobs, s.locks)
    BY DEF Simulations, InOrder
  <1>2. s.jobs[k].drive \in Drives
    <2>1. s.jobs[k] \in JobType
      BY <1>1, ElementOfSeq
    <2> QED
      BY <2>1 DEF JobType
  <1>3. CASE s.locks[s.jobs[k].drive] = NoJob
    <2> DEFINE L == Locked(s.locks)
    <2>1. L \subseteq Drives /\ s.jobs[k].drive \notin L
      BY <1>3 DEF Locked
    <2>2. IsFiniteSet(Drives) /\ Cardinality(Drives) <= MaxParallelDrives /\ MaxParallelDrives \in Nat
      BY JobManagerAssumption, DemoSessionAssumption
    <2>3. Cardinality(L) < Cardinality(Drives) /\ Cardinality(L) \in Nat /\ Cardinality(Drives) \in Nat
      <3>1. L # Drives
        BY <1>2, <2>1
      <3> HIDE DEF L
      <3> QED
        BY <2>1, <2>2, <3>1, FS_Subset, FS_CardinalityType
    <2>4. Cardinality(L) >= max_parallel_drives
      BY <1>1, <1>3 DEF Busied
    <2>5. max_parallel_drives >= MaxParallelDrives /\ max_parallel_drives \in Nat
      BY <2>2 DEF max_parallel_drives
    <2> HIDE DEF L
    <2> QED
      BY <2>2, <2>3, <2>4, <2>5
  <1> QED
    BY <1>3

\* What was explained stays so when events are added.
LEMMA StillExplained ==
    ASSUME NEW e \in Seq(EventType), NEW f, Orderly(e), \A k \in 1..Len(e) : f[k] = e[k]
    PROVE  /\ \A k \in 1..Len(e) : Explained(f, k)
           /\ \A k \in 1..Len(e), d \in Drives : EndOn(e, k, d) => EndOn(f, k, d)
  <1>1. \A k \in 1..Len(e) : \A d : EndOn(e, k, d) => EndOn(f, k, d)
    BY DEF EndOn
  <1>2. ASSUME NEW k \in 1..Len(e) PROVE Explained(f, k)
    <2>1. Explained(e, k) /\ e[k] = f[k]
      BY DEF Orderly
    <2>2. \A l \in 1..(k - 1) : l \in 1..Len(e)
      BY LenProperties
    <2> QED
      BY <1>1, <2>1, <2>2 DEF Explained
  <1> QED
    BY <1>1, <1>2

LEMMA SilentTells ==
    ASSUME NEW seen, NEW t \in Ticking(seen), NEW after \in Simulations, Silent(t, after)
    PROVE  after \in Ticking(seen)
  <1>1. /\ Len(t.jobs) = Len(jobs) /\ after.events = t.events
        /\ \A k \in 1..Len(jobs) : after.jobs[k].state = t.jobs[k].state
    BY DEF Ticking, Simulations, SameJobs, Silent
  <1>2. Story(seen, t.jobs, t.events)
    BY DEF Ticking
  <1>3. \A k \in 1..Len(jobs) : StoryOf(k, seen, after.jobs, t.events)
    BY <1>1, <1>2 DEF Story, StoryOf, Went
  <1> QED
    BY <1>1, <1>2, <1>3 DEF Ticking, Story

LEMMA EndTells ==
    ASSUME NEW seen, NEW t \in Ticking(seen), NEW after \in Simulations,
           NEW i \in 1..Len(jobs), seen[i].state = "Running", t.jobs[i].state = "Running",
           NEW state \in EndStates, Ended(t, after, i, state)
    PROVE  after \in Ticking(seen)
  <1> DEFINE e == t.events
             x == Event(state, i)
             f == Append(e, x)
             js == t.jobs
             now == after.jobs
  <1>1. /\ t \in Simulations /\ e \in Seq(EventType) /\ after.events = f
        /\ Len(js) = Len(jobs) /\ Len(jobs) \in Nat
        /\ \A k \in 1..Len(jobs) : js[k].drive = jobs[k].drive
    BY LenProperties DEF Ticking, Simulations, SameJobs, Ended
  <1>2. x \in EventType
    BY <1>1 DEF Event, EventType, EventKinds, EndStates
  <1>3. Orderly(e) /\ \A k \in 1..Len(jobs) : StoryOf(k, seen, js, e)
    BY DEF Ticking, Story
  <1> HIDE DEF f, e
  <1>4. /\ Never(e, x) => Once(f, x)
        /\ \A y : y # x /\ Once(e, y) => Once(f, y)
        /\ \A y : y # x /\ Never(e, y) => Never(f, y)
        /\ \A k \in 1..Len(f) : \/ k \in 1..Len(e) /\ f[k] = e[k]
                                \/ k = Len(e) + 1 /\ f[k] = x
        /\ \A k \in 1..Len(e) : k \in 1..Len(f) /\ f[k] = e[k]
        /\ Len(e) + 1 \in 1..Len(f) /\ f[Len(e) + 1] = x
    BY <1>1, <1>2, AppendedOnce DEF f
  <1>5. \A k \in 1..Len(e) : Explained(f, k)
    BY <1>1, <1>3, <1>4, StillExplained
  <1>6. EndOn(f, Len(e) + 1, jobs[i].drive)
    BY <1>4 DEF EndOn
  <1>7. Orderly(f)
    <2>1. ASSUME NEW k \in 1..Len(f) PROVE Explained(f, k)
      <3>1. CASE k \in 1..Len(e)
        BY <1>5, <3>1
      <3>2. CASE f[k] = x
        BY <3>2 DEF Explained
      <3> QED
        BY <1>4, <3>1, <3>2
    <2> QED
      BY <2>1 DEF Orderly
  <1>8. ASSUME NEW k \in 1..Len(jobs) PROVE StoryOf(k, seen, now, f)
    <2>1. /\ Went(jobs[k], seen[k], js[k])
          /\ Reported(e, Event("Started", k), jobs[k].state = "Queued" /\ seen[k].state # "Queued")
          /\ \A st \in EndStates :
                Reported(e, Event(st, k), jobs[k].state # st /\ js[k].state = st)
          /\ seen[k].state = "Queued" /\ js[k].state = "Running" =>
                \E l \in 1..Len(e) : EndOn(e, l, jobs[k].drive)
      BY <1>3 DEF StoryOf
    <2>2. Event("Started", k) # x
      BY Kinds DEF EndStates
    <2>6. \A st \in EndStates : k # i \/ st # state => Event(st, k) # x
      BY DEF Event
    <2> HIDE DEF x
    <2>3. Reported(f, Event("Started", k), jobs[k].state = "Queued" /\ seen[k].state # "Queued")
      BY <1>4, <2>1, <2>2 DEF Reported
    <2>4. CASE k = i
      <3>1. now[k].state = state
        BY <2>4 DEF Ended
      <3>2. Went(jobs[k], seen[k], now[k])
        BY <2>1, <2>4, <3>1 DEF Went, EndStates
      <3>3. \A st \in EndStates : jobs[k].state # st
        BY <2>1, <2>4 DEF Went, EndStates
      <3>4. \A st \in EndStates : Never(e, Event(st, k))
        BY <2>1, <2>4 DEF Reported, EndStates
      <3>5. \A st \in EndStates : st # state => Event(st, k) # x
        BY <2>6
      <3>6. ASSUME NEW st \in EndStates
            PROVE  Reported(f, Event(st, k), jobs[k].state # st /\ now[k].state = st)
        <4>1. CASE st = state
          BY <1>4, <2>4, <3>1, <3>3, <3>4, <4>1 DEF Reported, x
        <4>2. CASE st # state
          BY <1>4, <3>1, <3>4, <3>5, <4>2 DEF Reported
        <4> QED
          BY <4>1, <4>2
      <3> QED
        BY <2>3, <2>4, <3>2, <3>6 DEF StoryOf
    <2>5. CASE k # i
      <3>1. \A st \in EndStates : Event(st, k) # x
        BY <2>6, <2>5
      <3>2. \A l \in 1..Len(e) : EndOn(e, l, jobs[k].drive) => EndOn(f, l, jobs[k].drive)
        BY <1>4 DEF EndOn
      <3>3. CASE now[k] = js[k]
        <4>1. \A st \in EndStates :
                 Reported(f, Event(st, k), jobs[k].state # st /\ now[k].state = st)
          BY <1>4, <2>1, <3>1, <3>3 DEF Reported
        <4>2. seen[k].state = "Queued" /\ now[k].state = "Running" =>
                 \E l \in 1..Len(f) : EndOn(f, l, jobs[k].drive)
          BY <1>4, <2>1, <3>2, <3>3
        <4> QED
          BY <2>1, <2>3, <3>3, <4>1, <4>2 DEF StoryOf
      <3>4. CASE /\ js[k].state = "Queued" /\ now[k].state = "Running"
                 /\ t.locks[js[k].drive] = NoJob \/ js[k].drive = js[i].drive
        <4>1. jobs[k].drive = jobs[i].drive
          BY <1>1, <3>4, EnoughSlots
        <4>2. seen[k].state = "Queued" /\ jobs[k].state = "Queued"
          BY <2>1, <3>4 DEF Went
        <4>3. \A st \in EndStates : st # "Queued" /\ st # "Running"
          BY DEF EndStates
        <4>4. Went(jobs[k], seen[k], now[k])
          BY <3>4, <4>2, <4>3 DEF Went
        <4>5. \A st \in EndStates :
                 Reported(f, Event(st, k), jobs[k].state # st /\ now[k].state = st)
          BY <1>4, <2>1, <3>1, <3>4, <4>3 DEF Reported
        <4>6. \E l \in 1..Len(f) : EndOn(f, l, jobs[k].drive)
          BY <1>4, <1>6, <4>1
        <4> QED
          BY <2>3, <4>4, <4>5, <4>6 DEF StoryOf
      <3>5. \/ now[k] = js[k]
            \/ /\ js[k].state = "Queued" /\ now[k].state = "Running"
               /\ t.locks[js[k].drive] = NoJob \/ js[k].drive = js[i].drive
        BY <1>1, <2>5 DEF Ended, StartedOnly
      <3> QED
        BY <3>3, <3>4, <3>5
    <2> QED
      BY <2>4, <2>5
  <1> QED
    BY <1>1, <1>7, <1>8 DEF Ticking, Story

\* The jobs that run when a tick begins, then its end.
LEMMA RunningTells ==
    ASSUME NEW s \in Told
    PROVE  RunningTicked(s) \in Ticking(s.jobs)
  <1>1. s \in Simulations /\ s \in Ticking(s.jobs)
    BY DEF Told, Ticking
  <1>2. Len(s.jobs) = Len(jobs) /\ Len(s.jobs) \in Nat
    BY <1>1, LenProperties DEF Simulations, SameJobs
  <1>3. ASSUME NEW t \in Ticking(s.jobs), NEW i \in 1..Len(s.jobs),
               s.jobs[i].state = "Running", t.jobs[i].state = "Running"
        PROVE  TickJob(t, i) \in Ticking(s.jobs)
    <2>1. t \in Simulations /\ Len(t.jobs) = Len(jobs) /\ i \in 1..Len(t.jobs) /\ i \in 1..Len(jobs)
      BY <1>2 DEF Ticking, Simulations, SameJobs
    <2>2. /\ TickJob(t, i) \in Simulations
          /\ \/ Silent(t, TickJob(t, i))
             \/ \E state \in {"Completed", "Failed"} : Ended(t, TickJob(t, i), i, state)
      BY <1>3, <2>1, TickJobInOrder
    <2>3. CASE Silent(t, TickJob(t, i))
      BY <2>2, <2>3, SilentTells
    <2>4. ASSUME NEW state \in EndStates, Ended(t, TickJob(t, i), i, state)
          PROVE  TickJob(t, i) \in Ticking(s.jobs)
      BY <1>3, <2>1, <2>2, <2>4, EndTells
    <2> QED
      BY <2>2, <2>3, <2>4 DEF EndStates
  <1>4. RunKeeps(s, Ticking(s.jobs))
    BY <1>3 DEF RunKeeps
  <1> QED
    BY <1>1, <1>2, <1>4, RunningStays

LEMMA TickTells == TickKeeps(Told)
  <1> SUFFICES ASSUME NEW s \in Told PROVE TickOnce(s) \in Told
    BY DEF TickKeeps
  <1> DEFINE seen  == s.jobs
             after == RunningTicked(s)
             now   == after.jobs
             e     == after.events
             f     == Starts(seen, now)
             done  == [after EXCEPT !.events = @ \o f]
  <1>1. s \in Simulations /\ seen \in Seq(JobType) /\ Len(seen) = Len(jobs) /\ Len(jobs) \in Nat
    BY LenProperties DEF Told, Simulations, SameJobs
  <1>2. TickOnce(s) = done
    BY Zenon DEF TickOnce
  <1>3. after \in Ticking(seen)
    BY RunningTells
  <1> HIDE DEF after
  <1>4. /\ after \in [jobs : Seq(JobType), locks : [Drives -> Nat], events : Seq(EventType)]
        /\ InOrder(now, after.locks) /\ SameJobs(jobs, now) /\ e \in Seq(EventType)
        /\ Orderly(e) /\ \A i \in 1..Len(jobs) : StoryOf(i, seen, now, e)
    BY <1>3 DEF Ticking, Simulations, Story
  <1> DEFINE started(i) == seen[i].state = "Queued" /\ now[i].state = "Running"
  <1>5. /\ f \in Seq(EventType)
        /\ \A k \in 1..Len(f) : \E i \in 1..Len(seen) : started(i) /\ f[k] = Event("Started", i)
        /\ \A i \in 1..Len(seen) : started(i) => Once(f, Event("Started", i))
    BY <1>1, StartsAreReported
  <1>6. /\ done.jobs = now /\ done.events = e \o f
        /\ done = [jobs |-> now, locks |-> after.locks, events |-> e \o f]
    <2> HIDE DEF f
    <2>1. after = [jobs |-> now, locks |-> after.locks, events |-> e]
      BY <1>4
    <2>3. after \in [jobs : Seq(JobType), locks : [Drives -> Nat], events : Seq(EventType)]
      BY <1>4
    <2>2. done = [jobs |-> now, locks |-> after.locks, events |-> e \o f]
      <3> DEFINE longer == e \o f
      <3>1. done = [after EXCEPT !.events = longer]
        OBVIOUS
      <3> HIDE DEF longer
      <3>2. done = [jobs |-> now, locks |-> after.locks, events |-> longer]
        <4> HIDE DEF done
        <4> QED
          BY <2>3, <3>1
      <3> QED
        BY <3>2 DEF longer
    <2> QED
      BY <2>2
  <1> HIDE DEF e, f, done, seen, now
  <1>7. /\ e \o f \in Seq(EventType)
        /\ \A y : Never(e, y) /\ Never(f, y) => Never(e \o f, y)
        /\ \A y : Once(e, y) /\ Never(f, y) => Once(e \o f, y)
        /\ \A y : Never(e, y) /\ Once(f, y) => Once(e \o f, y)
        /\ \A k \in 1..Len(e \o f) :
             \/ k \in 1..Len(e) /\ (e \o f)[k] = e[k]
             \/ \E j \in 1..Len(f) : k = Len(e) + j /\ (e \o f)[k] = f[j]
        /\ \A k \in 1..Len(e) : k \in 1..Len(e \o f) /\ (e \o f)[k] = e[k]
    <2>1. e \in Seq(EventType) /\ f \in Seq(EventType)
      BY <1>4, <1>5
    <2> QED
      BY <2>1, JoinedOnce
  <1>8. done \in Simulations
    BY <1>4, <1>6, <1>7 DEF Simulations, now
  <1> DEFINE g == e \o f
  <1> HIDE DEF g
  <1>9. ASSUME NEW i \in 1..Len(jobs) PROVE StoryOf(i, now, now, g)
    <2>1. /\ Went(jobs[i], seen[i], now[i])
          /\ Reported(e, Event("Started", i), jobs[i].state = "Queued" /\ seen[i].state # "Queued")
          /\ \A state \in EndStates :
                Reported(e, Event(state, i), jobs[i].state # state /\ now[i].state = state)
      BY <1>4 DEF StoryOf
    <2>2. Went(jobs[i], now[i], now[i])
      BY <2>1 DEF Went
    <2>3. ASSUME ~started(i) PROVE Never(f, Event("Started", i))
      <3>1. ASSUME NEW k \in 1..Len(f), f[k] = Event("Started", i) PROVE FALSE
        <4>1. PICK o \in 1..Len(seen) : started(o) /\ f[k] = Event("Started", o)
          BY <1>5
        <4>2. o = i
          BY <3>1, <4>1, Kinds
        <4> QED
          BY <2>3, <4>1, <4>2
      <3> QED
        BY <3>1 DEF Never
    <2>4. started(i) => Once(f, Event("Started", i))
      BY <1>1, <1>5
    <2>5. \A state \in EndStates : Never(f, Event(state, i))
      BY <1>5, Kinds DEF Never, EndStates
    <2>6. \A y : Never(e, y) /\ Never(f, y) => Never(g, y)
      BY <1>7 DEF g
    <2>7. \A y : Once(e, y) /\ Never(f, y) => Once(g, y)
      BY <1>7 DEF g
    <2>8. \A y : Never(e, y) /\ Once(f, y) => Once(g, y)
      BY <1>7 DEF g
    <2>9. Reported(g, Event("Started", i), jobs[i].state = "Queued" /\ now[i].state # "Queued")
      <3>1. CASE started(i)
        BY <2>1, <2>4, <2>8, <3>1 DEF Reported, Went
      <3>2. CASE ~started(i) /\ seen[i].state = "Queued"
        BY <2>1, <2>3, <2>6, <3>2 DEF Reported, Went
      <3>3. CASE ~started(i) /\ seen[i].state # "Queued"
        BY <2>1, <2>3, <2>6, <2>7, <3>3 DEF Reported, Went
      <3> QED
        BY <3>1, <3>2, <3>3
    <2>10. \A state \in EndStates :
              Reported(g, Event(state, i), jobs[i].state # state /\ now[i].state = state)
      BY <2>1, <2>5, <2>6, <2>7 DEF Reported
    <2> QED
      BY <2>2, <2>9, <2>10 DEF StoryOf
  <1>10. ASSUME NEW k \in 1..Len(g) PROVE Explained(g, k)
    <2>1. \A l \in 1..Len(e) : g[l] = e[l]
      BY <1>7 DEF g
    <2>2. CASE k \in 1..Len(e)
      BY <1>4, <2>1, <2>2, StillExplained
    <2>3. ASSUME NEW j \in 1..Len(f), k = Len(e) + j, g[k] = f[j] PROVE Explained(g, k)
      <3>1. PICK i \in 1..Len(jobs) : started(i) /\ f[j] = Event("Started", i)
        BY <1>1, <1>5
      <3>2. PICK l \in 1..Len(e) : EndOn(e, l, jobs[i].drive)
        BY <1>4, <3>1 DEF StoryOf
      <3>3. EndOn(g, l, jobs[i].drive)
        BY <2>1, <3>2 DEF EndOn
      <3>4. l \in 1..(k - 1)
        <4>1. Len(e) \in Nat /\ Len(f) \in Nat
          BY <1>4, <1>5, LenProperties
        <4> QED
          BY <2>3, <4>1
      <3> QED
        BY <2>3, <3>1, <3>3, <3>4 DEF Explained
    <2> QED
      BY <1>7, <2>2, <2>3 DEF g
  <1>11. Story(now, now, g)
    BY <1>9, <1>10 DEF Story, Orderly
  <1> QED
    BY <1>2, <1>6, <1>8, <1>11 DEF Told, g

-----------------------------------------------------------------------------
(* The invariant of the session, and the calls other than advance. *)

SessionInv ==
    /\ SessionTypeOK
    /\ InOrder(jobs, active_locks)
    /\ inventory \in [Drives -> {"Protected", "Usable"}]
    /\ TrackersFollowJobs

LEMMA InvIsConsistent ==
    ASSUME SessionInv
    PROVE  Consistent /\ Served /\ mode = "Demo" /\ Len(jobs) \in Nat /\ DOMAIN jobs = 1..Len(jobs)
  <1>1. TypeOK /\ InOrder(jobs, active_locks)
    BY DEF SessionInv, SessionTypeOK
  <1>2. Consistent
    BY <1>1 DEF Consistent, InOrder, Fits, LocksMatchJobs, Settled
  <1>3. Served
    BY <1>1 DEF Served, InOrder, Busied, SlotsRespected, NoIdleDrive
  <1>4. mode = "Demo"
    BY <1>1, DemoSessionAssumption DEF TypeOK
  <1>5. Len(jobs) \in Nat /\ DOMAIN jobs = 1..Len(jobs)
    BY <1>1, LenProperties DEF TypeOK
  <1> QED
    BY <1>2, <1>3, <1>4, <1>5

\* The order of the tables that a call leaves is that of the next state, because no
\* call changes what the policy sees of a drive.
LEMMA OrderCarries ==
    ASSUME InOrder(jobs', active_locks'), UNCHANGED <<mode, inventory>>
    PROVE  InOrder(jobs, active_locks)'
  <1>1. \A job : StartOutcome(job) = StartOutcome(job)'
    BY DEF StartOutcome
  <1> QED
    BY <1>1 DEF InOrder, Fits, Busied, Agree, Locked, Failing

\* Everything of the invariant but the trackers and the log.
LEMMA OrderSuffices ==
    ASSUME SessionInv, InOrder(jobs', active_locks'), UNCHANGED <<mode, inventory>>,
           tick_remainder' \in 0..(Tick - 1), news' \in Seq(EventType),
           trackers' \in [Tracked -> [job : Nat, state : JobStates, progress : 0..100]],
           TrackersFollowJobs'
    PROVE  SessionInv'
  <1>1. TypeOK'
    BY DEF SessionInv, SessionTypeOK, TypeOK, InOrder, Fits
  <1>2. InOrder(jobs, active_locks)'
    BY OrderCarries
  <1> QED
    BY <1>1, <1>2 DEF SessionInv, SessionTypeOK, EventType

\* The trackers after syncTrackedProgress.
LEMMA SyncedTrackers ==
    ASSUME SessionInv, jobs' \in Seq(JobType), Len(jobs') = Len(jobs), trackers' = Synced(jobs')
    PROVE  /\ trackers' \in [Tracked -> [job : Nat, state : JobStates, progress : 0..100]]
           /\ TrackersFollowJobs'
  <1>1. /\ trackers \in [Tracked -> [job : Nat, state : JobStates, progress : 0..100]]
        /\ TrackersFollowJobs
    BY DEF SessionInv, SessionTypeOK
  <1>2. DOMAIN jobs' = DOMAIN jobs /\ DOMAIN jobs' = 1..Len(jobs')
    BY InvIsConsistent, LenProperties
  <1>3. ASSUME NEW f \in Tracked
        PROVE  /\ trackers'[f] \in [job : Nat, state : JobStates, progress : 0..100]
               /\ trackers'[f].job # NoJob =>
                    /\ trackers'[f].job \in DOMAIN jobs'
                    /\ trackers'[f].state = jobs'[trackers'[f].job].state
                    /\ trackers'[f].progress = jobs'[trackers'[f].job].progress
    <2> DEFINE i == trackers[f].job
    <2>1. trackers'[f] = IF i = NoJob THEN trackers[f]
                         ELSE [job |-> i, state |-> jobs'[i].state, progress |-> jobs'[i].progress]
      BY DEF Synced
    <2>2. trackers[f] \in [job : Nat, state : JobStates, progress : 0..100] /\ i \in Nat
      BY <1>1
    <2>3. i # NoJob => i \in DOMAIN jobs'
      BY <1>1, <1>2 DEF TrackersFollowJobs
    <2> HIDE DEF i
    <2>4. i # NoJob => jobs'[i] \in JobType
      BY <1>2, <2>3, ElementOfSeq
    <2>5. CASE i = NoJob
      BY <2>1, <2>2, <2>5 DEF i
    <2>6. CASE i # NoJob
      BY <2>1, <2>2, <2>3, <2>4, <2>6 DEF JobType
    <2> QED
      BY <2>5, <2>6
  <1>4. trackers' \in [Tracked -> [job : Nat, state : JobStates, progress : 0..100]]
    <2>1. trackers' = [f \in Tracked |-> trackers'[f]]
      BY DEF Synced
    <2> QED
      BY <1>3, <2>1
  <1> QED
    BY <1>3, <1>4 DEF TrackersFollowJobs

\* A workflow that becomes a job: the policy lets it run, so it runs or waits.
LEMMA SubmitInOrder ==
    ASSUME SessionInv, NEW d \in Drives, NEW op \in Operations,
           inventory[d] # "Protected", submit(d, inventory[d], op)
    PROVE  /\ InOrder(jobs', active_locks') /\ UNCHANGED <<mode, inventory>>
           /\ Len(jobs') = Len(jobs) + 1
           /\ \A k \in 1..Len(jobs) : jobs'[k] = jobs[k]
           /\ LET new == jobs'[Len(jobs')]
              IN  new \in JobType /\ new.progress = 0 /\ new.state \in {"Queued", "Running"}
  <1> DEFINE queued == [drive |-> d, op |-> op, progress |-> 0, state |-> "Queued"]
             start  == [queued EXCEPT !.state = StartOutcome(queued)]
             n      == Len(jobs)
  <1>1. /\ Consistent /\ Served /\ mode = "Demo" /\ n \in Nat /\ DOMAIN jobs = 1..n
        /\ inventory[d] = "Usable" /\ InOrder(jobs, active_locks) /\ jobs \in Seq(JobType)
    BY InvIsConsistent DEF SessionInv, Consistent, TypeOK
  <1>2. queued \in JobType /\ queued.drive = d /\ queued.op = op /\ queued.state = "Queued"
    BY JobManagerAssumption DEF JobType, JobStates
  <1>3. authorize(inventory[d], op.class, mode) = "MayExecute"
    BY <1>1 DEF authorize
  <1>4. StartOutcome(queued) = "Running"
    BY <1>1, <1>2, <1>3 DEF StartOutcome
  <1>5. /\ start \in JobType /\ start.drive = d /\ start.op = op /\ start.state = "Running"
        /\ start.progress = 0 /\ queued.progress = 0
    BY <1>2, <1>4 DEF JobType, JobStates
  <1>6. (\E new \in {queued, start} : jobs' = Append(jobs, new)) /\ UNCHANGED <<mode, inventory>>
    BY <1>3 DEF submit
  <1>7. submit(d, "Usable", op)
    BY <1>1
  <1>8. Next
    BY <1>7 DEF Next, Views
  <1>9. Consistent' /\ Served'
    BY <1>1, <1>8, NextIsConsistent, NextIsServed
  <1>10. Fits(jobs', active_locks') /\ Busied(jobs', active_locks')
    BY <1>9 DEF Consistent, TypeOK, LocksMatchJobs, Agree, Served, SlotsRespected, NoIdleDrive,
                Locked, Fits, Busied
  <1>11. StartOutcome(start) = StartOutcome(queued)
    BY <1>2, <1>5 DEF StartOutcome
  <1> HIDE DEF queued, start
  <1>12. PICK new \in {queued, start} : jobs' = Append(jobs, new)
    BY <1>6
  <1>13. /\ new \in JobType /\ new.progress = 0 /\ new.state \in {"Queued", "Running"}
         /\ StartOutcome(new) = "Running"
    BY <1>2, <1>4, <1>5, <1>11
  <1>14. /\ Len(jobs') = n + 1 /\ jobs'[n + 1] = new
         /\ \A k \in 1..n : jobs'[k] = jobs[k]
    BY <1>1, <1>12, <1>13, AppendProperties
  <1>15. ASSUME NEW k \in 1..Len(jobs')
         PROVE  /\ jobs'[k].state # "Starting"
                /\ Failing(jobs'[k]) => jobs'[k].state # "Completed"
                /\ jobs'[k].state = "Queued" => StartOutcome(jobs'[k]) = "Running"
    <2>1. k \in 1..n \/ k = n + 1
      BY <1>1, <1>14
    <2>2. CASE k \in 1..n
      BY <1>1, <1>14, <2>2 DEF InOrder
    <2>3. CASE k = n + 1
      BY <1>13, <1>14, <2>3
    <2> QED
      BY <2>1, <2>2, <2>3
  <1>16. InOrder(jobs', active_locks')
    BY <1>10, <1>15 DEF InOrder
  <1> QED
    BY <1>6, <1>13, <1>14, <1>16

LEMMA RequestKeepsInv ==
    ASSUME SessionInv, NEW d \in Drives, NEW w \in Workflows, runWorkflow(d, w)
    PROVE  SessionInv'
  <1>1. w \in WorkflowType /\ w.op \in Operations
    BY DemoSessionAssumption
  <1>2. UNCHANGED tick_remainder /\ inventory[d] # "Protected"
    BY DEF runWorkflow
  <1>3. tick_remainder' \in 0..(Tick - 1)
    BY <1>2 DEF SessionInv, SessionTypeOK
  <1>4. CASE news' = <<Event("Inspected", NoJob)>> /\ UNCHANGED <<vars, trackers>>
    <2>1. Event("Inspected", NoJob) \in EventType
      BY DEF Event, EventType, EventKinds, NoJob
    <2>2. news' \in Seq(EventType)
      BY <1>4, <2>1
    <2>3. InOrder(jobs', active_locks') /\ UNCHANGED <<mode, inventory>>
      BY <1>4 DEF SessionInv, vars
    <2>4. trackers' \in [Tracked -> [job : Nat, state : JobStates, progress : 0..100]]
      BY <1>4 DEF SessionInv, SessionTypeOK
    <2>5. TrackersFollowJobs'
      BY <1>4 DEF SessionInv, TrackersFollowJobs, vars
    <2> QED
      BY <1>3, <2>2, <2>3, <2>4, <2>5, OrderSuffices
  <1>5. CASE /\ submit(d, inventory[d], w.op)
             /\ news' = <<Event("Created", Len(jobs'))>>
             /\ trackers' = IF w.feature \in Tracked
                            THEN [trackers EXCEPT ![w.feature] =
                                    [job |-> Len(jobs'), state |-> jobs'[Len(jobs')].state,
                                     progress |-> 0]]
                            ELSE trackers
    <2> DEFINE n == Len(jobs')
               new == jobs'[n]
               entry == [job |-> n, state |-> new.state, progress |-> 0]
    <2>1. /\ InOrder(jobs', active_locks') /\ UNCHANGED <<mode, inventory>>
          /\ n = Len(jobs) + 1 /\ Len(jobs) \in Nat /\ DOMAIN jobs = 1..Len(jobs)
          /\ \A k \in 1..Len(jobs) : jobs'[k] = jobs[k]
          /\ new \in JobType /\ new.progress = 0
      BY <1>1, <1>2, <1>5, SubmitInOrder, InvIsConsistent
    <2>2. DOMAIN jobs' = 1..n
      BY <2>1, LenProperties DEF InOrder, Fits
    <2>3. Event("Created", n) \in EventType
      BY <2>1 DEF Event, EventType, EventKinds
    <2>4. news' \in Seq(EventType)
      BY <1>5, <2>3
    <2>5. entry \in [job : Nat, state : JobStates, progress : 0..100]
      BY <2>1 DEF JobType
    <2>6. trackers \in [Tracked -> [job : Nat, state : JobStates, progress : 0..100]]
      BY DEF SessionInv, SessionTypeOK
    <2>7. \A f \in Tracked : trackers'[f] = trackers[f] \/ trackers'[f] = entry
      BY <1>5, <2>6
    <2>8. trackers' \in [Tracked -> [job : Nat, state : JobStates, progress : 0..100]]
      <3> HIDE DEF entry
      <3> QED
        BY <1>5, <2>5, <2>6 DEF entry
    <2>9. ASSUME NEW f \in Tracked, trackers'[f].job # NoJob
          PROVE  /\ trackers'[f].job \in DOMAIN jobs'
                 /\ trackers'[f].state = jobs'[trackers'[f].job].state
                 /\ trackers'[f].progress = jobs'[trackers'[f].job].progress
      <3>1. CASE trackers'[f] = trackers[f]
        <4>1. /\ trackers[f].job \in DOMAIN jobs
              /\ trackers[f].state = jobs[trackers[f].job].state
              /\ trackers[f].progress = jobs[trackers[f].job].progress
          BY <2>9, <3>1 DEF SessionInv, TrackersFollowJobs
        <4>2. trackers[f].job \in 1..Len(jobs) /\ trackers[f].job \in 1..n
          BY <2>1, <4>1
        <4> QED
          BY <2>1, <2>2, <3>1, <4>1, <4>2
      <3>2. CASE trackers'[f] = entry
        <4>1. n \in 1..n
          BY <2>1
        <4> QED
          BY <2>1, <2>2, <3>2, <4>1
      <3> QED
        BY <2>7, <3>1, <3>2
    <2>10. TrackersFollowJobs'
      BY <2>9 DEF TrackersFollowJobs
    <2> QED
      BY <1>3, <2>1, <2>4, <2>8, <2>10, OrderSuffices
  <1> QED
    BY <1>4, <1>5 DEF runWorkflow

\* What a control does to the job table: the job is left in another state, and, if it gave
\* its drive back, another job is started at most.
LEMMA SwitchInOrder ==
    ASSUME SessionInv, NEW i \in 1..Len(jobs), NEW state \in {"Running", "Paused", "Cancelled"},
           jobs' = [jobs EXCEPT ![i].state = state], UNCHANGED active_locks,
           state \in Active <=> jobs[i].state \in Active
    PROVE  /\ InOrder(jobs', active_locks') /\ SameJobs(jobs, jobs')
           /\ \A k \in 1..Len(jobs) :
                 jobs'[k].state = IF k = i THEN state ELSE jobs[k].state
  <1> DEFINE job == [jobs[i] EXCEPT !.state = state]
  <1>1. jobs \in Seq(JobType) /\ InOrder(jobs, active_locks)
    BY DEF SessionInv, InOrder, Fits
  <1>2. jobs[i] \in JobType
    BY <1>1, ElementOfSeq
  <1>3. /\ job \in JobType /\ job.drive = jobs[i].drive /\ job.op = jobs[i].op
        /\ job.state = state
    BY <1>2 DEF JobType, JobStates
  <1>4. jobs' = [jobs EXCEPT ![i] = job]
    BY <1>1
  <1> HIDE DEF job
  <1>5. job.state \in Active <=> jobs[i].state \in Active
    BY <1>3
  <1>6. job.state \notin {"Starting", "Completed", "Queued"}
    BY <1>3
  <1>7. InOrder([jobs EXCEPT ![i] = job], active_locks) /\ SameJobs(jobs, [jobs EXCEPT ![i] = job])
    BY <1>1, <1>3, <1>5, <1>6, ChangeInOrder
  <1>8. \A k \in 1..Len(jobs) : jobs'[k] = IF k = i THEN job ELSE jobs[k]
    BY <1>1, <1>3, <1>4, UpdatedJobs
  <1> QED
    BY <1>3, <1>4, <1>7, <1>8

LEMMA StopInOrder ==
    ASSUME SessionInv, NEW i \in 1..Len(jobs), cancelActive(i)
    PROVE  /\ InOrder(jobs', active_locks') /\ SameJobs(jobs, jobs')
           /\ UNCHANGED <<mode, inventory>>
           /\ jobs[i].state \in Active /\ jobs'[i].state = "Cancelled"
           /\ StartedOnly(jobs, active_locks, jobs', i)
  <1> DEFINE job == [jobs[i] EXCEPT !.state = "Cancelled"]
             after == startEligibleJobs([jobs EXCEPT ![i] = job], Freed(jobs, active_locks, i))
  <1>1. jobs \in Seq(JobType) /\ InOrder(jobs, active_locks)
    BY DEF SessionInv, InOrder, Fits
  <1>2. jobs[i] \in JobType
    BY <1>1, ElementOfSeq
  <1>3. /\ job \in JobType /\ job.drive = jobs[i].drive /\ job.op = jobs[i].op
        /\ job.state = "Cancelled" /\ job.state \in Finished
    BY <1>2 DEF JobType, JobStates, Finished
  <1>4. jobs[i].state \in Active /\ EndJob(i, job)
    BY DEF cancelActive
  <1>5. releaseLock(active_locks, i) = Freed(jobs, active_locks, i)
    BY DEF releaseLock, Freed
  <1>6. jobs' = after.jobs /\ active_locks' = after.locks /\ UNCHANGED <<mode, inventory>>
    BY <1>4, <1>5 DEF EndJob
  <1> HIDE DEF job
  <1>7. Failing(jobs[i]) => job.state # "Completed"
    BY <1>3
  <1>8. /\ InOrder(after.jobs, after.locks) /\ SameJobs(jobs, after.jobs)
        /\ after.jobs[i].state = job.state
        /\ StartedOnly(jobs, active_locks, after.jobs, i)
    BY <1>1, <1>3, <1>4, <1>7, EndingInOrder
  <1> HIDE DEF after
  <1> QED
    BY <1>3, <1>4, <1>6, <1>8

LEMMA ControlKeepsInv ==
    ASSUME SessionInv, NEW i \in 1..Len(jobs), pauseJob(i) \/ resumeJob(i) \/ cancelJob(i)
    PROVE  SessionInv'
  <1>1. /\ Len(jobs) \in Nat /\ i \in Nat /\ jobs \in Seq(JobType)
        /\ tick_remainder \in 0..(Tick - 1)
    BY InvIsConsistent DEF SessionInv, SessionTypeOK, TypeOK
  <1>2. tick_remainder' \in 0..(Tick - 1) /\ trackers' = Synced(jobs')
    BY <1>1 DEF pauseJob, resumeJob, cancelJob
  <1>3. ASSUME InOrder(jobs', active_locks'), SameJobs(jobs, jobs'), UNCHANGED <<mode, inventory>>,
               news' \in Seq(EventType)
        PROVE  SessionInv'
    <2>1. jobs' \in Seq(JobType) /\ Len(jobs') = Len(jobs)
      BY <1>3 DEF InOrder, Fits, SameJobs
    <2>2. /\ trackers' \in [Tracked -> [job : Nat, state : JobStates, progress : 0..100]]
          /\ TrackersFollowJobs'
      BY <1>2, <2>1, SyncedTrackers
    <2> QED
      BY <1>2, <1>3, <2>2, OrderSuffices
  <1>4. \A kind \in {"Paused", "Resumed", "Withdrawn", "Stopped"} : Event(kind, i) \in EventType
    BY <1>1 DEF Event, EventType, EventKinds
  <1>5. CASE pauseJob(i)
    <2>1. news' \in Seq(EventType)
      BY <1>4, <1>5 DEF pauseJob
    <2> QED
      BY <1>3, <1>5, <2>1, SwitchInOrder DEF pauseJob, pause, Active
  <1>6. CASE resumeJob(i)
    <2>1. news' \in Seq(EventType)
      BY <1>4, <1>6 DEF resumeJob
    <2> QED
      BY <1>3, <1>6, <2>1, SwitchInOrder DEF resumeJob, resume, Active
  <1>7. CASE cancelQueued(i) /\ news' = <<Event("Withdrawn", i)>>
    <2>1. news' \in Seq(EventType)
      BY <1>4, <1>7
    <2> QED
      BY <1>3, <1>7, <2>1, SwitchInOrder DEF cancelQueued, Active
  <1>8. CASE cancelActive(i) /\ news' = <<Event("Stopped", i)>> \o Starts(jobs, jobs')
    <2>1. Starts(jobs, jobs') \in Seq(EventType)
      BY <1>1, StartsAreReported
    <2>2. <<Event("Stopped", i)>> \in Seq(EventType)
      BY <1>4
    <2>3. news' \in Seq(EventType)
      BY <1>8, <2>1, <2>2, ConcatProperties
    <2> QED
      BY <1>3, <1>8, <2>3, StopInOrder
  <1> QED
    BY <1>5, <1>6, <1>7, <1>8 DEF cancelJob

-----------------------------------------------------------------------------
(* The passing of time. *)

LEMMA Parts ==
    ASSUME NEW n \in Nat
    PROVE  /\ n \div Tick \in Nat /\ n % Tick \in 0..(Tick - 1)
           /\ n = Tick * (n \div Tick) + (n % Tick)
  BY DemoSessionAssumption

LEMMA NothingToldYet ==
    ASSUME SessionInv
    PROVE  Simulated \in Told
  <1>1. /\ jobs \in Seq(JobType) /\ active_locks \in [Drives -> Nat]
        /\ InOrder(jobs, active_locks) /\ Len(jobs) \in Nat
    BY LenProperties DEF SessionInv, InOrder, Fits
  <1>2. Simulated \in Simulations
    BY <1>1 DEF Simulated, Simulations, SameJobs
  <1>3. \A event : Never(<<>>, event)
    BY DEF Never
  <1>4. Orderly(<<>>)
    BY DEF Orderly
  <1>5. \A i \in 1..Len(jobs) : StoryOf(i, jobs, jobs, <<>>)
    BY <1>3 DEF StoryOf, Reported, Went, EndStates
  <1> QED
    BY <1>2, <1>4, <1>5 DEF Told, Story, Simulated

LEMMA AdvanceTells ==
    ASSUME SessionInv, NEW elapsed \in Elapsed, advance(elapsed)
    PROVE  /\ SessionInv'
           /\ SameJobs(jobs, jobs') /\ news' \in Seq(EventType)
           /\ Story(jobs', jobs', news')
  <1> DEFINE passed == Passed(tick_remainder, elapsed)
             after  == Ticks(Simulated, passed.ticks)
  <1>1. /\ elapsed > 0 /\ tick_remainder' = passed.remainder
        /\ jobs' = after.jobs /\ active_locks' = after.locks /\ news' = after.events
        /\ trackers' = IF passed.ticks = 0 THEN trackers ELSE Synced(after.jobs)
        /\ UNCHANGED <<mode, inventory>>
    BY DEF advance
  <1>2. passed.ticks \in Nat /\ passed.remainder \in 0..(Tick - 1)
    <2>1. tick_remainder + elapsed \in Nat
      BY <1>1, DemoSessionAssumption DEF SessionInv, SessionTypeOK
    <2> QED
      BY <2>1, Parts DEF Passed
  <1> HIDE DEF passed
  <1>3. after \in Told
    BY <1>2, NothingToldYet, TickTells, TicksStay
  <1>4. passed.ticks = 0 => after = Simulated
    BY <1>2, NothingToldYet, TickTells, OneMoreTick
  <1> HIDE DEF after
  <1>5. /\ InOrder(jobs', active_locks') /\ SameJobs(jobs, jobs') /\ news' \in Seq(EventType)
        /\ Story(jobs', jobs', news') /\ jobs' \in Seq(JobType) /\ Len(jobs') = Len(jobs)
    BY <1>1, <1>3 DEF Told, Simulations, SameJobs
  <1>6. /\ trackers' \in [Tracked -> [job : Nat, state : JobStates, progress : 0..100]]
        /\ TrackersFollowJobs'
    <2>1. CASE passed.ticks = 0
      <3>1. jobs' = jobs /\ trackers' = trackers
        BY <1>1, <1>4, <2>1 DEF Simulated
      <3> QED
        BY <3>1 DEF SessionInv, SessionTypeOK, TrackersFollowJobs
    <2>2. CASE passed.ticks # 0
      <3>1. trackers' = Synced(jobs')
        BY <1>1, <2>2
      <3> QED
        BY <1>5, <3>1, SyncedTrackers
    <2> QED
      BY <2>1, <2>2
  <1>7. SessionInv'
    BY <1>1, <1>2, <1>5, <1>6, OrderSuffices
  <1> QED
    BY <1>5, <1>7

-----------------------------------------------------------------------------
(* What the log says of a call. *)

LEMMA Counted ==
    ASSUME NEW events \in Seq(EventType), NEW event
    PROVE  /\ Once(events, event) => \E k : {l \in DOMAIN events : events[l] = event} = {k}
           /\ Never(events, event) => {l \in DOMAIN events : events[l] = event} = {}
  <1>1. DOMAIN events = 1..Len(events)
    BY LenProperties
  <1> QED
    BY <1>1 DEF Once, Never

LEMMA StorySuffices ==
    ASSUME SessionInv, news' \in Seq(EventType),
           \A i \in 1..Len(jobs) :
              /\ Reported(news', Event("Started", i),
                          jobs[i].state = "Queued" /\ jobs'[i].state \notin {"Queued", "Cancelled"})
              /\ \A state \in EndStates :
                    Reported(news', Event(state, i),
                             jobs[i].state # state /\ jobs'[i].state = state),
           \A i \in 1..Len(jobs) :
              LET withdrawn == jobs[i].state # "Cancelled" /\ jobs'[i].state = "Cancelled"
              IN  \/ withdrawn /\ Once(news', Event("Stopped", i))
                               /\ Never(news', Event("Withdrawn", i))
                  \/ withdrawn /\ Never(news', Event("Stopped", i))
                               /\ Once(news', Event("Withdrawn", i))
                  \/ ~withdrawn /\ Never(news', Event("Stopped", i))
                                /\ Never(news', Event("Withdrawn", i)),
           \A k \in 1..Len(news') :
              news'[k].kind = "Started" =>
                 \E l \in 1..(k - 1) :
                     /\ news'[l].kind \in {"Completed", "Failed", "Stopped"}
                     /\ jobs'[news'[l].job].drive = jobs'[news'[k].job].drive
    PROVE  StoryTold
  <1>1. DOMAIN jobs = 1..Len(jobs) /\ DOMAIN news' = 1..Len(news')
    BY InvIsConsistent, LenProperties
  <1>2. Cardinality({}) = 0 /\ \A k : Cardinality({k}) = 1
    BY FS_EmptySet, FS_Singleton
  <1>3. ASSUME NEW kind, NEW i
        PROVE  /\ Once(news', Event(kind, i)) => \E k : Occurs(kind, i) = {k}
               /\ Never(news', Event(kind, i)) => Occurs(kind, i) = {}
    BY Counted DEF Occurs
  <1>4. ASSUME NEW kind, NEW i, Once(news', Event(kind, i))
        PROVE  Cardinality(Occurs(kind, i)) = 1
    <2>1. PICK k : Occurs(kind, i) = {k}
      BY <1>3, <1>4
    <2> QED
      BY <1>2, <2>1
  <1>7. ASSUME NEW kind, NEW i, Never(news', Event(kind, i))
        PROVE  Cardinality(Occurs(kind, i)) = 0
    BY <1>2, <1>3, <1>7
  <1>5. ASSUME NEW i \in 1..Len(jobs)
        PROVE  Cardinality(Occurs("Stopped", i) \cup Occurs("Withdrawn", i))
                  = IF jobs[i].state # "Cancelled" /\ jobs'[i].state = "Cancelled" THEN 1 ELSE 0
    <2> DEFINE S == Occurs("Stopped", i)
               W == Occurs("Withdrawn", i)
    <2>1. /\ Once(news', Event("Stopped", i)) => \E k : S = {k}
          /\ Never(news', Event("Stopped", i)) => S = {}
          /\ Once(news', Event("Withdrawn", i)) => \E k : W = {k}
          /\ Never(news', Event("Withdrawn", i)) => W = {}
      BY <1>3
    <2> HIDE DEF S, W
    <2>2. CASE /\ jobs[i].state # "Cancelled" /\ jobs'[i].state = "Cancelled"
               /\ Once(news', Event("Stopped", i)) /\ Never(news', Event("Withdrawn", i))
      <3>1. PICK k : S = {k}
        BY <2>1, <2>2
      <3>2. S \cup W = {k}
        BY <2>1, <2>2, <3>1
      <3> QED
        BY <1>2, <2>2, <3>2 DEF S, W
    <2>3. CASE /\ jobs[i].state # "Cancelled" /\ jobs'[i].state = "Cancelled"
               /\ Never(news', Event("Stopped", i)) /\ Once(news', Event("Withdrawn", i))
      <3>1. PICK k : W = {k}
        BY <2>1, <2>3
      <3>2. S \cup W = {k}
        BY <2>1, <2>3, <3>1
      <3> QED
        BY <1>2, <2>3, <3>2 DEF S, W
    <2>4. CASE /\ ~(jobs[i].state # "Cancelled" /\ jobs'[i].state = "Cancelled")
               /\ Never(news', Event("Stopped", i)) /\ Never(news', Event("Withdrawn", i))
      <3>1. S \cup W = {}
        BY <2>1, <2>4
      <3> QED
        BY <1>2, <2>4, <3>1 DEF S, W
    <2> QED
      BY <2>2, <2>3, <2>4
  <1>6. ASSUME NEW i \in 1..Len(jobs)
        PROVE  /\ Cardinality(Occurs("Started", i))
                     = IF /\ jobs[i].state = "Queued" /\ jobs'[i].state \notin {"Queued", "Cancelled"}
                       THEN 1 ELSE 0
               /\ Cardinality(Occurs("Completed", i))
                     = IF jobs[i].state # "Completed" /\ jobs'[i].state = "Completed" THEN 1 ELSE 0
               /\ Cardinality(Occurs("Failed", i))
                     = IF jobs[i].state # "Failed" /\ jobs'[i].state = "Failed" THEN 1 ELSE 0
    BY <1>4, <1>7 DEF Reported, EndStates
  <1> QED
    BY <1>1, <1>5, <1>6 DEF StoryTold

\* A call that ends and starts no job, and reports none of that.
LEMMA QuietStory ==
    ASSUME SessionInv, NEW kind \in EventKinds, NEW i \in Nat,
           news' = <<Event(kind, i)>> \/ news' = <<>>,
           kind \notin {"Started", "Completed", "Failed", "Stopped", "Withdrawn"},
           \A k \in 1..Len(jobs) :
              \/ jobs'[k].state = jobs[k].state
              \/ jobs[k].state # "Queued" /\ jobs'[k].state \in Active
    PROVE  StoryTold
  <1>1. Event(kind, i) \in EventType
    BY DEF Event, EventType
  <1>2. news' \in Seq(EventType)
    <2>1. <<Event(kind, i)>> \in Seq(EventType) /\ <<>> \in Seq(EventType)
      BY <1>1
    <2> QED
      BY <2>1
  <1>3. \A k \in 1..Len(news') : news'[k].kind = kind
    BY DEF Event
  <1>4. \A other : \A k : other # kind => Never(news', Event(other, k))
    BY <1>3 DEF Never, Event
  <1>5. \A k \in 1..Len(jobs) :
           /\ Never(news', Event("Started", k)) /\ Never(news', Event("Stopped", k))
           /\ Never(news', Event("Withdrawn", k))
           /\ \A state \in EndStates : Never(news', Event(state, k))
    BY <1>4 DEF EndStates
  <1>6. \A k \in 1..Len(jobs) :
           /\ ~(jobs[k].state = "Queued" /\ jobs'[k].state \notin {"Queued", "Cancelled"})
           /\ ~(jobs[k].state # "Cancelled" /\ jobs'[k].state = "Cancelled")
           /\ \A state \in EndStates : ~(jobs[k].state # state /\ jobs'[k].state = state)
    BY DEF Active, EndStates
  <1>7. \A k \in 1..Len(news') : news'[k].kind # "Started"
    BY <1>3
  <1>8. \A k \in 1..Len(jobs) :
           /\ Reported(news', Event("Started", k),
                       jobs[k].state = "Queued" /\ jobs'[k].state \notin {"Queued", "Cancelled"})
           /\ \A state \in EndStates :
                 Reported(news', Event(state, k),
                          jobs[k].state # state /\ jobs'[k].state = state)
    BY <1>5, <1>6 DEF Reported
  <1> QED
    BY <1>2, <1>5, <1>6, <1>7, <1>8, StorySuffices

LEMMA AdvanceStory ==
    ASSUME SessionInv, NEW elapsed \in Elapsed, advance(elapsed)
    PROVE  StoryTold
  <1>1. /\ Len(jobs') = Len(jobs) /\ news' \in Seq(EventType)
        /\ \A k \in 1..Len(jobs) : jobs'[k].drive = jobs[k].drive
        /\ Orderly(news') /\ \A i \in 1..Len(jobs) : StoryOf(i, jobs', jobs', news')
    BY AdvanceTells DEF Story, SameJobs
  <1>2. ASSUME NEW i \in 1..Len(jobs)
        PROVE  /\ Reported(news', Event("Started", i),
                           jobs[i].state = "Queued" /\ jobs'[i].state \notin {"Queued", "Cancelled"})
               /\ \A state \in EndStates :
                     Reported(news', Event(state, i),
                              jobs[i].state # state /\ jobs'[i].state = state)
               /\ ~(jobs[i].state # "Cancelled" /\ jobs'[i].state = "Cancelled")
    BY <1>1 DEF StoryOf, Reported, Went
  <1>3. ASSUME NEW k \in 1..Len(news')
        PROVE  /\ news'[k].kind \in {"Started", "Completed", "Failed"}
               /\ news'[k].kind = "Started" =>
                    \E l \in 1..(k - 1) :
                        /\ news'[l].kind \in {"Completed", "Failed", "Stopped"}
                        /\ jobs'[news'[l].job].drive = jobs'[news'[k].job].drive
    <2>1. CASE \E state \in EndStates, i \in 1..Len(jobs) : news'[k] = Event(state, i)
      BY <2>1 DEF Event, EndStates
    <2>2. ASSUME NEW i \in 1..Len(jobs), news'[k] = Event("Started", i),
                 NEW l \in 1..(k - 1), EndOn(news', l, jobs[i].drive)
          PROVE  /\ news'[k].kind = "Started" /\ news'[k].job = i
                 /\ news'[l].kind \in {"Completed", "Failed", "Stopped"}
                 /\ jobs'[news'[l].job].drive = jobs'[i].drive
      <3>1. PICK state \in EndStates, e \in 1..Len(jobs) :
               news'[l] = Event(state, e) /\ jobs[e].drive = jobs[i].drive
        BY <2>2 DEF EndOn
      <3>2. e \in 1..Len(jobs) /\ news'[l].kind = state /\ news'[l].job = e /\ state \in EndStates
        BY <3>1 DEF Event
      <3>3. jobs'[e].drive = jobs'[i].drive
        BY <1>1, <3>1, <3>2
      <3>4. news'[k].kind = "Started" /\ news'[k].job = i
        BY <2>2 DEF Event
      <3> QED
        BY <3>2, <3>3, <3>4 DEF EndStates
    <2>3. Explained(news', k)
      BY <1>1 DEF Orderly
    <2> QED
      BY <2>1, <2>2, <2>3 DEF Explained
  <1>4. ASSUME NEW i, NEW kind \in {"Stopped", "Withdrawn"}
        PROVE  Never(news', Event(kind, i))
    BY <1>3 DEF Never, Event
  <1> QED
    BY <1>1, <1>2, <1>3, <1>4, StorySuffices

LEMMA StopStory ==
    ASSUME SessionInv, NEW i \in 1..Len(jobs), cancelActive(i),
           news' = <<Event("Stopped", i)>> \o Starts(jobs, jobs')
    PROVE  StoryTold
  <1> DEFINE x == Event("Stopped", i)
             e == <<x>>
             f == Starts(jobs, jobs')
             started(k) == jobs[k].state = "Queued" /\ jobs'[k].state = "Running"
  <1>1. /\ jobs \in Seq(JobType) /\ Len(jobs) \in Nat /\ i \in Nat
        /\ active_locks \in [Drives -> Nat]
    BY InvIsConsistent DEF SessionInv, SessionTypeOK, TypeOK
  <1>2. /\ \A k \in 1..Len(jobs) : jobs'[k].drive = jobs[k].drive
        /\ jobs[i].state \in Active /\ jobs'[i].state = "Cancelled"
        /\ StartedOnly(jobs, active_locks, jobs', i)
    BY StopInOrder DEF SameJobs
  <1>3. e \in Seq(EventType) /\ Len(e) = 1 /\ e[1] = x
    <2>1. x \in EventType
      BY <1>1 DEF Event, EventType, EventKinds
    <2> HIDE DEF x
    <2> QED
      BY <2>1
  <1>4. /\ f \in Seq(EventType)
        /\ \A k \in 1..Len(f) : \E o \in 1..Len(jobs) : started(o) /\ f[k] = Event("Started", o)
        /\ \A k \in 1..Len(jobs) : started(k) => Once(f, Event("Started", k))
    BY <1>1, StartsAreReported
  <1>5. news' = e \o f
    OBVIOUS
  <1> HIDE DEF x, e, f
  <1>6. /\ news' \in Seq(EventType)
        /\ \A y : Never(e, y) /\ Never(f, y) => Never(news', y)
        /\ \A y : Once(e, y) /\ Never(f, y) => Once(news', y)
        /\ \A y : Never(e, y) /\ Once(f, y) => Once(news', y)
        /\ \A k \in 1..Len(news') :
             \/ k \in 1..Len(e) /\ news'[k] = e[k]
             \/ \E j \in 1..Len(f) : k = Len(e) + j /\ news'[k] = f[j]
        /\ \A k \in 1..Len(e) : k \in 1..Len(news') /\ news'[k] = e[k]
    <2> DEFINE g == news'
    <2>1. e \in Seq(EventType) /\ f \in Seq(EventType) /\ g = e \o f
      BY <1>3, <1>4, <1>5
    <2> HIDE DEF g
    <2> SUFFICES /\ g \in Seq(EventType)
                 /\ \A y : Never(e, y) /\ Never(f, y) => Never(g, y)
                 /\ \A y : Once(e, y) /\ Never(f, y) => Once(g, y)
                 /\ \A y : Never(e, y) /\ Once(f, y) => Once(g, y)
                 /\ \A k \in 1..Len(g) :
                      \/ k \in 1..Len(e) /\ g[k] = e[k]
                      \/ \E j \in 1..Len(f) : k = Len(e) + j /\ g[k] = f[j]
                 /\ \A k \in 1..Len(e) : k \in 1..Len(g) /\ g[k] = e[k]
      BY DEF g
    <2> QED
      BY <2>1, JoinedOnce
  <1>7. Once(e, x) /\ \A y : y # x => Never(e, y)
    BY <1>3 DEF Once, Never
  <1>8. ASSUME NEW k, NEW kind, kind # "Started" PROVE Never(f, Event(kind, k))
    <2>1. ASSUME NEW j \in 1..Len(f), f[j] = Event(kind, k) PROVE FALSE
      <3>1. PICK o \in 1..Len(jobs) : f[j] = Event("Started", o)
        BY <1>4
      <3> QED
        BY <1>8, <2>1, <3>1 DEF Event
    <2> QED
      BY <2>1 DEF Never
  <1>9. ASSUME NEW k, ~started(k) PROVE Never(f, Event("Started", k))
    <2>1. ASSUME NEW j \in 1..Len(f), f[j] = Event("Started", k) PROVE FALSE
      <3>1. PICK o \in 1..Len(jobs) : started(o) /\ f[j] = Event("Started", o)
        BY <1>4
      <3>2. o = k
        BY <2>1, <3>1, Kinds
      <3> QED
        BY <1>9, <3>1, <3>2
    <2> QED
      BY <2>1 DEF Never
  <1>10. ASSUME NEW k \in 1..Len(jobs)
         PROVE  /\ k # i => \/ jobs'[k] = jobs[k]
                            \/ started(k) /\ jobs[k].drive = jobs[i].drive
                /\ started(k) <=>
                      jobs[k].state = "Queued" /\ jobs'[k].state \notin {"Queued", "Cancelled"}
                /\ \A state \in EndStates : ~(jobs[k].state # state /\ jobs'[k].state = state)
                /\ jobs[k].state # "Cancelled" /\ jobs'[k].state = "Cancelled" <=> k = i
    <2>1. k # i => \/ jobs'[k] = jobs[k]
                   \/ /\ started(k)
                      /\ active_locks[jobs[k].drive] = NoJob \/ jobs[k].drive = jobs[i].drive
      BY <1>2 DEF StartedOnly
    <2>2. jobs[k].state = "Queued" => active_locks[jobs[k].drive] # NoJob
      <3>1. Simulated \in Simulations
        BY NothingToldYet DEF Told
      <3>2. Simulated.jobs = jobs /\ Simulated.locks = active_locks
        BY DEF Simulated
      <3> QED
        BY <3>1, <3>2, EnoughSlots
    <2>3. k # i => \/ jobs'[k] = jobs[k]
                   \/ started(k) /\ jobs[k].drive = jobs[i].drive
      BY <2>1, <2>2
    <2>4. jobs[i].state \in {"Running", "Paused"} /\ jobs'[i].state = "Cancelled"
      BY <1>2 DEF Active
    <2>5. CASE k = i
      BY <2>4, <2>5 DEF EndStates
    <2>6. CASE k # i
      BY <2>3, <2>6 DEF EndStates
    <2> QED
      BY <2>5, <2>6
  <1>11. ASSUME NEW k \in 1..Len(jobs)
         PROVE  /\ started(k) => Once(news', Event("Started", k))
                /\ ~started(k) => Never(news', Event("Started", k))
                /\ \A state \in EndStates : Never(news', Event(state, k))
                /\ Never(news', Event("Withdrawn", k))
                /\ k = i => Once(news', Event("Stopped", k))
                /\ k # i => Never(news', Event("Stopped", k))
    <2>1. /\ Event("Started", k) # x /\ Event("Withdrawn", k) # x
          /\ \A state \in EndStates : Event(state, k) # x /\ state # "Started"
          /\ k # i => Event("Stopped", k) # x
          /\ k = i => Event("Stopped", k) = x
      BY DEF Event, x, EndStates
    <2>2. started(k) => Once(news', Event("Started", k))
      BY <1>4, <1>6, <1>7, <2>1
    <2>3. ~started(k) => Never(news', Event("Started", k))
      BY <1>6, <1>7, <1>9, <2>1
    <2>4. \A state \in EndStates : Never(news', Event(state, k))
      BY <1>6, <1>7, <1>8, <2>1
    <2>5. Never(news', Event("Withdrawn", k))
      BY <1>6, <1>7, <1>8, <2>1
    <2>6. k = i => Once(news', Event("Stopped", k))
      BY <1>6, <1>7, <1>8, <2>1
    <2>7. k # i => Never(news', Event("Stopped", k))
      BY <1>6, <1>7, <1>8, <2>1
    <2> QED
      BY <2>2, <2>3, <2>4, <2>5, <2>6, <2>7
  <1>12. ASSUME NEW k \in 1..Len(news'), news'[k].kind = "Started"
         PROVE  \E l \in 1..(k - 1) :
                     /\ news'[l].kind \in {"Completed", "Failed", "Stopped"}
                     /\ jobs'[news'[l].job].drive = jobs'[news'[k].job].drive
    <2>1. news'[1] = x /\ x.kind = "Stopped" /\ x.job = i
      BY <1>3, <1>6 DEF x, Event
    <2>2. ASSUME k \in 1..Len(e), news'[k] = e[k] PROVE FALSE
      BY <1>3, <1>12, <2>1, <2>2
    <2>3. PICK j \in 1..Len(f) : k = Len(e) + j /\ news'[k] = f[j]
      BY <1>6, <2>2
    <2>4. 1 \in 1..(k - 1)
      <3>1. Len(f) \in Nat
        BY <1>4, LenProperties
      <3> QED
        BY <1>3, <2>3, <3>1
    <2>5. PICK o \in 1..Len(jobs) : started(o) /\ f[j] = Event("Started", o)
      BY <1>4, <2>3
    <2>6. news'[k].job = o
      BY <2>3, <2>5 DEF Event
    <2>7. o \in 1..Len(jobs) /\ o # i
      BY <1>2, <2>5 DEF Active
    <2>8. jobs[o].drive = jobs[i].drive
      <3>1. jobs'[o] # jobs[o]
        BY <2>5
      <3> QED
        BY <1>10, <2>7, <3>1
    <2>9. jobs'[i].drive = jobs'[o].drive
      BY <1>2, <2>7, <2>8
    <2> QED
      BY <2>1, <2>4, <2>6, <2>9
  <1>13. \A k \in 1..Len(jobs) :
            /\ Reported(news', Event("Started", k),
                        jobs[k].state = "Queued" /\ jobs'[k].state \notin {"Queued", "Cancelled"})
            /\ \A state \in EndStates :
                  Reported(news', Event(state, k),
                           jobs[k].state # state /\ jobs'[k].state = state)
    <2> HIDE DEF started
    <2> QED
      BY <1>10, <1>11 DEF Reported
  <1> QED
    BY <1>6, <1>10, <1>11, <1>12, <1>13, StorySuffices

LEMMA ControlStory ==
    ASSUME SessionInv, NEW i \in 1..Len(jobs), pauseJob(i) \/ resumeJob(i) \/ cancelJob(i)
    PROVE  StoryTold
  <1>1. Len(jobs) \in Nat /\ i \in Nat
    BY InvIsConsistent
  <1>2. CASE pauseJob(i)
    <2>1. \A k \in 1..Len(jobs) : jobs'[k].state = IF k = i THEN "Paused" ELSE jobs[k].state
      BY <1>2, SwitchInOrder DEF pauseJob, pause, Active
    <2>2. \A k \in 1..Len(jobs) : \/ jobs'[k].state = jobs[k].state
                                  \/ jobs[k].state # "Queued" /\ jobs'[k].state \in Active
      BY <1>2, <2>1 DEF pauseJob, pause, Active
    <2> QED
      BY <1>1, <1>2, <2>2, QuietStory DEF pauseJob, EventKinds
  <1>3. CASE resumeJob(i)
    <2>1. \A k \in 1..Len(jobs) : jobs'[k].state = IF k = i THEN "Running" ELSE jobs[k].state
      BY <1>3, SwitchInOrder DEF resumeJob, resume, Active
    <2>2. \A k \in 1..Len(jobs) : \/ jobs'[k].state = jobs[k].state
                                  \/ jobs[k].state # "Queued" /\ jobs'[k].state \in Active
      BY <1>3, <2>1 DEF resumeJob, resume, Active
    <2> QED
      BY <1>1, <1>3, <2>2, QuietStory DEF resumeJob, EventKinds
  <1>4. CASE cancelQueued(i) /\ news' = <<Event("Withdrawn", i)>>
    <2> DEFINE x == Event("Withdrawn", i)
    <2>1. /\ \A k \in 1..Len(jobs) : jobs'[k].state = IF k = i THEN "Cancelled" ELSE jobs[k].state
          /\ jobs[i].state = "Queued"
      BY <1>4, SwitchInOrder DEF cancelQueued, Active
    <2>2. x \in EventType /\ x.kind = "Withdrawn"
      BY <1>1 DEF Event, EventType, EventKinds
    <2>3. news' = <<x>>
      BY <1>4
    <2>4. \A kind, k : Event(kind, k) = x => kind = "Withdrawn" /\ k = i
      BY DEF Event
    <2>5. \A k : k = i => Event("Withdrawn", k) = x
      OBVIOUS
    <2> HIDE DEF x
    <2>6. news' \in Seq(EventType) /\ Len(news') = 1 /\ news'[1] = x
      BY <2>2, <2>3
    <2>7. Once(news', x) /\ \A y : y # x => Never(news', y)
      BY <2>6 DEF Once, Never
    <2>8. \A k \in 1..Len(news') : news'[k].kind # "Started"
      BY <2>2, <2>6
    <2>9. ASSUME NEW k \in 1..Len(jobs)
          PROVE  /\ Never(news', Event("Started", k)) /\ Never(news', Event("Stopped", k))
                 /\ \A state \in EndStates : Never(news', Event(state, k))
                 /\ k = i => Once(news', Event("Withdrawn", k))
                 /\ k # i => Never(news', Event("Withdrawn", k))
      BY <2>4, <2>5, <2>7 DEF EndStates
    <2>10. ASSUME NEW k \in 1..Len(jobs)
           PROVE  /\ ~(jobs[k].state = "Queued" /\ jobs'[k].state \notin {"Queued", "Cancelled"})
                  /\ \A state \in EndStates : ~(jobs[k].state # state /\ jobs'[k].state = state)
                  /\ jobs[k].state # "Cancelled" /\ jobs'[k].state = "Cancelled" <=> k = i
      BY <2>1 DEF EndStates
    <2>11. \A k \in 1..Len(jobs) :
              /\ Reported(news', Event("Started", k),
                          jobs[k].state = "Queued" /\ jobs'[k].state \notin {"Queued", "Cancelled"})
              /\ \A state \in EndStates :
                    Reported(news', Event(state, k),
                             jobs[k].state # state /\ jobs'[k].state = state)
      BY <2>9, <2>10 DEF Reported
    <2> QED
      BY <2>6, <2>8, <2>9, <2>10, <2>11, StorySuffices
  <1>5. CASE cancelActive(i) /\ news' = <<Event("Stopped", i)>> \o Starts(jobs, jobs')
    BY <1>5, StopStory
  <1> QED
    BY <1>2, <1>3, <1>4, <1>5 DEF cancelJob

LEMMA RequestStory ==
    ASSUME SessionInv, NEW d \in Drives, NEW w \in Workflows, runWorkflow(d, w)
    PROVE  StoryTold
  <1>1. w.op \in Operations /\ inventory[d] # "Protected" /\ Len(jobs) \in Nat
    BY InvIsConsistent, DemoSessionAssumption DEF runWorkflow
  <1>2. CASE news' = <<Event("Inspected", NoJob)>> /\ UNCHANGED <<vars, trackers>>
    <2>1. \A k \in 1..Len(jobs) : jobs'[k].state = jobs[k].state
      BY <1>2 DEF vars
    <2> QED
      BY <1>2, <2>1, QuietStory DEF EventKinds, NoJob
  <1>3. CASE submit(d, inventory[d], w.op) /\ news' = <<Event("Created", Len(jobs'))>>
    <2>1. Len(jobs') \in Nat /\ \A k \in 1..Len(jobs) : jobs'[k].state = jobs[k].state
      BY <1>1, <1>3, SubmitInOrder
    <2> QED
      BY <1>3, <2>1, QuietStory DEF EventKinds
  <1> QED
    BY <1>2, <1>3 DEF runWorkflow

LEMMA IdleStory ==
    ASSUME SessionInv, scanInventory \/ requestTermination
    PROVE  SessionInv' /\ StoryTold
  <1>1. UNCHANGED <<vars, trackers, tick_remainder>>
    BY DEF scanInventory, requestTermination
  <1>2. PICK kind \in {"Scanned", "Blocked"} : news' = <<Event(kind, NoJob)>> \/ news' = <<>>
    <2>1. CASE scanInventory
      BY <2>1 DEF scanInventory
    <2>2. CASE requestTermination
      <3>1. news' = <<Event("Blocked", NoJob)>> \/ news' = <<>>
        BY <2>2 DEF requestTermination
      <3> QED
        BY <3>1
    <2> QED
      BY <2>1, <2>2
  <1>3. news' \in Seq(EventType)
    <2> DEFINE x == Event(kind, NoJob)
    <2>1. x \in EventType
      BY DEF Event, EventType, EventKinds, NoJob
    <2>2. news' = <<x>> \/ news' = <<>>
      BY <1>2
    <2> HIDE DEF x
    <2>3. <<x>> \in Seq(EventType) /\ <<>> \in Seq(EventType)
      BY <2>1
    <2> QED
      BY <2>2, <2>3
  <1>4. SessionInv'
    <2>1. InOrder(jobs', active_locks') /\ UNCHANGED <<mode, inventory>>
      BY <1>1 DEF SessionInv, vars
    <2>2. /\ tick_remainder' \in 0..(Tick - 1)
          /\ trackers' \in [Tracked -> [job : Nat, state : JobStates, progress : 0..100]]
      BY <1>1 DEF SessionInv, SessionTypeOK
    <2>3. TrackersFollowJobs'
      BY <1>1 DEF SessionInv, TrackersFollowJobs, vars
    <2> QED
      BY <1>3, <2>1, <2>2, <2>3, OrderSuffices
  <1>5. \A k \in 1..Len(jobs) : jobs'[k].state = jobs[k].state
    BY <1>1 DEF vars
  <1>6. /\ kind \in EventKinds /\ NoJob \in Nat
        /\ kind \notin {"Started", "Completed", "Failed", "Stopped", "Withdrawn"}
    BY DEF EventKinds, NoJob
  <1>7. StoryTold
    BY <1>2, <1>5, <1>6, QuietStory
  <1> QED
    BY <1>4, <1>7

-----------------------------------------------------------------------------
(* The theorems. *)

LEMMA SessionStarts == SessionInit => SessionInv
  <1> SUFFICES ASSUME SessionInit PROVE SessionInv
    OBVIOUS
  <1>1. Init /\ Consistent /\ Served
    BY InitIsConsistent, InitIsServed DEF SessionInit
  <1>2. jobs = <<>> /\ Len(jobs) = 0
    BY <1>1 DEF Init
  <1>3. InOrder(jobs, active_locks)
    BY <1>1, <1>2 DEF InOrder, Consistent, TypeOK, LocksMatchJobs, Served, SlotsRespected,
                      NoIdleDrive, Fits, Busied
  <1>4. inventory \in [Drives -> {"Protected", "Usable"}]
    BY <1>1, DemoSessionAssumption DEF Init
  <1>5. trackers \in [Tracked -> [job : Nat, state : JobStates, progress : 0..100]]
    BY DEF SessionInit, NoJob, JobStates
  <1>6. TrackersFollowJobs
    BY DEF SessionInit, TrackersFollowJobs
  <1>7. tick_remainder \in 0..(Tick - 1) /\ news \in Seq([kind : EventKinds, job : Nat])
    BY DemoSessionAssumption DEF SessionInit
  <1> QED
    BY <1>1, <1>3, <1>4, <1>5, <1>6, <1>7 DEF SessionInv, SessionTypeOK, Consistent

LEMMA SessionSteps ==
    ASSUME SessionInv, [SessionNext]_demoVars
    PROVE  SessionInv' /\ [StoryTold]_demoVars
  <1>1. CASE Advance
    BY <1>1, AdvanceTells, AdvanceStory DEF Advance
  <1>2. CASE scanInventory \/ requestTermination
    BY <1>2, IdleStory
  <1>3. ASSUME NEW d \in Drives, NEW w \in Workflows, runWorkflow(d, w)
        PROVE  SessionInv' /\ StoryTold
    BY <1>3, RequestKeepsInv, RequestStory
  <1>4. ASSUME NEW i \in DOMAIN jobs, pauseJob(i) \/ resumeJob(i) \/ cancelJob(i)
        PROVE  SessionInv' /\ StoryTold
    <2>1. i \in 1..Len(jobs)
      BY InvIsConsistent
    <2> QED
      BY <1>4, <2>1, ControlKeepsInv, ControlStory
  <1>5. CASE UNCHANGED demoVars
    <2>1. UNCHANGED <<mode, inventory, jobs, active_locks, trackers, tick_remainder, news>>
      BY <1>5 DEF demoVars, vars, sessionVars
    <2>2. InOrder(jobs', active_locks') /\ news' \in Seq(EventType)
      BY <2>1 DEF SessionInv, SessionTypeOK, EventType
    <2>3. /\ tick_remainder' \in 0..(Tick - 1)
          /\ trackers' \in [Tracked -> [job : Nat, state : JobStates, progress : 0..100]]
      BY <2>1 DEF SessionInv, SessionTypeOK
    <2>4. TrackersFollowJobs'
      BY <2>1 DEF SessionInv, TrackersFollowJobs
    <2> QED
      BY <1>5, <2>1, <2>2, <2>3, <2>4, OrderSuffices
  <1> QED
    BY <1>1, <1>2, <1>3, <1>4, <1>5 DEF SessionNext

\* The inductive invariant of the session.
THEOREM SessionStaysInOrder == SessionSpec => []SessionInv
  <1>1. SessionInv /\ [SessionNext]_demoVars => SessionInv'
    BY SessionSteps
  <1> QED
    BY <1>1, SessionStarts, PTL DEF SessionSpec

\* However many jobs a call ends and starts on its way, it leaves records, locks and queue
\* as the job manager promises them.
THEOREM DrivesAlwaysInOrder == SessionSpec => []DrivesInOrder
  <1>1. SessionInv => DrivesInOrder
    BY InvIsConsistent DEF SessionInv, DrivesInOrder, Consistent, Served
  <1> QED
    BY <1>1, SessionStaysInOrder, PTL

\* No tick completes a self-test on a failing drive.
THEOREM FailingDrivesAlwaysFail == SessionSpec => []FailingDrivesFail
  <1>1. SessionInv => FailingDrivesFail
    BY InvIsConsistent DEF SessionInv, FailingDrivesFail, InOrder, Failing
  <1> QED
    BY <1>1, SessionStaysInOrder, PTL

\* A tracker is never behind the job it follows.
THEOREM TrackersAlwaysFollow == SessionSpec => []TrackersFollowJobs
  <1>1. SessionInv => TrackersFollowJobs
    BY DEF SessionInv
  <1> QED
    BY <1>1, SessionStaysInOrder, PTL

\* The log tells of each start and each end in the call that brings it about, once,
\* and of a start only after the end that made room for it.
THEOREM StoryIsAlwaysTold == SessionSpec => EventsTellTheStory
  <1>1. SessionInv /\ [SessionNext]_demoVars => [StoryTold]_demoVars
    BY SessionSteps
  <1> QED
    BY <1>1, SessionStaysInOrder, PTL DEF SessionSpec, EventsTellTheStory

-----------------------------------------------------------------------------
(* Time in pieces.  A number of ticks and a rest less than a tick make up one time only. *)

LEMMA OnePart ==
    ASSUME NEW q \in Nat, NEW s \in 0..(Tick - 1), NEW p \in Nat, NEW t \in 0..(Tick - 1),
           Tick * q + s = Tick * p + t
    PROVE  q = p /\ s = t
  <1>1. Tick \in Nat \ {0}
    BY DemoSessionAssumption
  <1>2. ASSUME NEW x \in Nat, NEW y \in Nat, NEW u \in 0..(Tick - 1), NEW v \in 0..(Tick - 1),
               Tick * x + u = Tick * y + v, x < y
        PROVE  FALSE
    <2>1. PICK d \in Nat : y = x + 1 + d
      <3>1. y - x - 1 \in Nat /\ y = x + 1 + (y - x - 1)
        BY <1>2
      <3> QED
        BY <3>1
    <2>2. Tick * (x + 1 + d) = Tick * x + Tick + Tick * d
      BY <1>1, <2>1
    <2>3. Tick * d \in Nat /\ Tick * x \in Nat
      BY <1>1, <2>1
    <2> QED
      BY <1>1, <1>2, <2>1, <2>2, <2>3
  <1>3. q = p
    BY <1>2
  <1>4. Tick * q \in Nat
    BY <1>1
  <1> QED
    BY <1>1, <1>3, <1>4

\* The ticks and the rest of two pieces of time are those of the whole.
LEMMA PiecesOfTime ==
    ASSUME NEW r \in Nat, NEW a \in Nat, NEW b \in Nat
    PROVE  LET first == Passed(r, a)
               second == Passed(first.remainder, b)
               once == Passed(r, a + b)
           IN  /\ first.ticks \in Nat /\ second.ticks \in Nat
               /\ second.remainder = once.remainder
               /\ first.ticks + second.ticks = once.ticks
  <1> DEFINE q1 == (r + a) \div Tick
             s1 == (r + a) % Tick
             q2 == (s1 + b) \div Tick
             s2 == (s1 + b) % Tick
             q  == (r + (a + b)) \div Tick
             s  == (r + (a + b)) % Tick
  <1>1. q1 \in Nat /\ s1 \in 0..(Tick - 1) /\ r + a = Tick * q1 + s1
    <2>1. r + a \in Nat
      OBVIOUS
    <2> QED
      BY <2>1, Parts
  <1>2. /\ Passed(r, a).ticks = q1 /\ Passed(r, a).remainder = s1
        /\ Passed(s1, b).ticks = q2 /\ Passed(s1, b).remainder = s2
        /\ Passed(r, a + b).ticks = q /\ Passed(r, a + b).remainder = s
    BY DEF Passed
  <1>3. Tick \in Nat
    BY DemoSessionAssumption
  <1> HIDE DEF q1, s1
  <1>4. q2 \in Nat /\ s2 \in 0..(Tick - 1) /\ s1 + b = Tick * q2 + s2
    <2>1. s1 + b \in Nat
      BY <1>1
    <2> QED
      BY <2>1, Parts
  <1>5. q \in Nat /\ s \in 0..(Tick - 1) /\ r + (a + b) = Tick * q + s
    <2>1. r + (a + b) \in Nat
      OBVIOUS
    <2> QED
      BY <2>1, Parts
  <1> HIDE DEF q2, s2, q, s
  <1>6. Tick * (q1 + q2) + s2 = Tick * q + s
    <2>1. Tick * (q1 + q2) = Tick * q1 + Tick * q2
      BY <1>1, <1>3, <1>4
    <2>2. Tick * q1 \in Nat /\ Tick * q2 \in Nat /\ Tick * q \in Nat
      BY <1>1, <1>3, <1>4, <1>5
    <2> QED
      BY <1>1, <1>3, <1>4, <1>5, <2>1, <2>2
  <1>7. q1 + q2 = q /\ s2 = s
    <2>1. q1 + q2 \in Nat
      BY <1>1, <1>4
    <2> QED
      BY <1>4, <1>5, <1>6, <2>1, OnePart
  <1> QED
    BY <1>1, <1>2, <1>4, <1>7

\* Advancing by a and then by b does what advancing by a + b does, to the jobs, the
\* drives and the log, whatever the length of a tick and however many ticks there are.
THEOREM TimeAlwaysAdds == SessionSpec => []TimeIsAdditive
  <1>1. SessionInv => TimeIsAdditive
    <2> SUFFICES ASSUME SessionInv PROVE TimeIsAdditive
      OBVIOUS
    <2>1. tick_remainder \in Nat
      BY DemoSessionAssumption DEF SessionInv, SessionTypeOK
    <2>2. Simulated \in Told /\ TickKeeps(Told)
      BY NothingToldYet, TickTells
    <2>3. ASSUME NEW a \in Elapsed, NEW b \in Elapsed, a > 0, b > 0
          PROVE  LET first  == Passed(tick_remainder, a)
                     second == Passed(first.remainder, b)
                     once   == Passed(tick_remainder, a + b)
                 IN  /\ second.remainder = once.remainder
                     /\ Ticks(Ticks(Simulated, first.ticks), second.ticks)
                           = Ticks(Simulated, once.ticks)
      <3> DEFINE first  == Passed(tick_remainder, a)
                 second == Passed(first.remainder, b)
                 once   == Passed(tick_remainder, a + b)
      <3>1. a \in Nat /\ b \in Nat
        BY <2>3, DemoSessionAssumption
      <3>2. /\ first.ticks \in Nat /\ second.ticks \in Nat
            /\ second.remainder = once.remainder
            /\ first.ticks + second.ticks = once.ticks
        BY <2>1, <3>1, PiecesOfTime
      <3> HIDE DEF first, second, once
      <3>3. Ticks(Ticks(Simulated, first.ticks), second.ticks)
               = Ticks(Simulated, first.ticks + second.ticks)
        BY <2>2, <3>2, TicksAdd
      <3> QED
        BY <3>2, <3>3 DEF first, second, once
    <2> QED
      BY <2>3 DEF TimeIsAdditive
  <1> QED
    BY <1>1, SessionStaysInOrder, PTL
=============================================================================

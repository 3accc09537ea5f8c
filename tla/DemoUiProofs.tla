---------------------------- MODULE DemoUiProofs ----------------------------
(***************************************************************************)
(* Theorems about finding one's way in the demo screen, for any drives,    *)
(* features, workflows, jobs, keys and sizes of the terminal.              *)
(***************************************************************************)
EXTENDS DemoUi, TLAPS, SequenceTheorems, WellFoundedInduction

-----------------------------------------------------------------------------
(* Recursion and induction up to a number. *)

LEMMA LeastElement ==
    ASSUME NEW T \in SUBSET Nat, T # {}
    PROVE  \E x \in T : \A y \in T : x <= y
  <1> DEFINE R == OpToRel(<, Nat)
  <1>1. IsWellFoundedOn(R, Nat)
    BY NatLessThanWellFounded
  <1>2. \A x, y \in Nat : <<x, y>> \in R <=> x < y
    BY DEF OpToRel
  <1> HIDE DEF R
  <1>3. PICK x \in T : \A y \in T : ~(<<y, x>> \in R)
    BY <1>1, WFMin
  <1>4. \A y \in T : y \in Nat /\ x \in Nat /\ ~(y < x)
    BY <1>2, <1>3
  <1>5. \A y \in T : x <= y
    BY <1>4
  <1> QED
    BY <1>5

LEMMA UpTo ==
    ASSUME NEW n \in Nat, NEW T, 0 \in T,
           \A m \in 0..(n - 1) : m \in T => m + 1 \in T
    PROVE  \A m \in 0..n : m \in T
  <1> DEFINE Left == {m \in 0..n : m \notin T}
  <1>1. SUFFICES ASSUME Left # {} PROVE FALSE
    OBVIOUS
  <1>2. Left \in SUBSET Nat
    OBVIOUS
  <1> HIDE DEF Left
  <1>3. PICK x \in Left : \A y \in Left : x <= y
    BY <1>1, <1>2, LeastElement
  <1>4. x \in 0..n /\ x \notin T
    BY <1>3 DEF Left
  <1>5. x # 0
    BY <1>4
  <1>6. x - 1 \in 0..(n - 1) /\ x - 1 \in 0..n /\ x - 1 + 1 = x /\ ~(x <= x - 1)
    BY <1>4, <1>5
  <1>7. x - 1 \in T
    BY <1>3, <1>6 DEF Left
  <1> QED
    BY <1>4, <1>6, <1>7

\* What can be done to a member of S in its n steps, and what a run of the steps is.
Steppings(S, n) == [(S \X (1..n)) -> S]

StepsOf(F, base, n, S) ==
    {g \in [0..n -> S] : g[0] = base /\ \A k \in 1..n : g[k] = F[<<g[k - 1], k>>]}

LEMMA Recursion ==
    ASSUME NEW S, NEW base \in S, NEW n \in Nat, NEW F \in Steppings(S, n)
    PROVE  \E g : g \in StepsOf(F, base, n, S)
  <1> DEFINE Follows(g, m) == g[0] = base /\ \A k \in 1..m : g[k] = F[<<g[k - 1], k>>]
             T == {m \in 0..n : \E g \in [0..m -> S] : Follows(g, m)}
  <1>0. F \in [(S \X (1..n)) -> S]
    BY DEF Steppings
  <1>1. 0 \in T
    <2> DEFINE h == [k \in 0..0 |-> base]
    <2>1. h \in [0..0 -> S] /\ h[0] = base /\ 0 \in 0..n
      OBVIOUS
    <2>2. \A k \in 1..0 : FALSE
      OBVIOUS
    <2> HIDE DEF h
    <2> QED
      BY <2>1, <2>2
  <1>2. ASSUME NEW m \in 0..(n - 1), m \in T PROVE m + 1 \in T
    <2>1. PICK g \in [0..m -> S] : Follows(g, m)
      BY <1>2
    <2> DEFINE h == [k \in 0..(m + 1) |-> IF k = m + 1 THEN F[<<g[m], m + 1>>] ELSE g[k]]
    <2>2. m + 1 \in 1..n /\ m + 1 \in 0..n /\ m \in 0..m /\ g[m] \in S
      OBVIOUS
    <2>3. F[<<g[m], m + 1>>] \in S
      BY <1>0, <2>2
    <2>4. h \in [0..(m + 1) -> S]
      BY <2>1, <2>3
    <2>5. h[0] = base
      BY <2>1
    <2>6. \A k \in 1..(m + 1) : h[k] = F[<<h[k - 1], k>>]
      <3>1. ASSUME NEW k \in 1..(m + 1) PROVE h[k] = F[<<h[k - 1], k>>]
        <4>1. k - 1 \in 0..(m + 1) /\ k - 1 # m + 1 /\ h[k - 1] = g[k - 1]
          OBVIOUS
        <4>2. CASE k = m + 1
          <5>1. k - 1 = m /\ h[k] = F[<<g[m], m + 1>>]
            BY <4>2
          <5> QED
            BY <4>1, <4>2, <5>1
        <4>3. CASE k # m + 1
          <5>1. k \in 1..m /\ h[k] = g[k]
            BY <4>3
          <5> QED
            BY <2>1, <4>1, <5>1
        <4> QED
          BY <4>2, <4>3
      <3> QED
        BY <3>1
    <2> QED
      BY <2>2, <2>4, <2>5, <2>6
  <1> HIDE DEF T
  <1>3. n \in T
    BY <1>1, <1>2, UpTo
  <1> QED
    BY <1>3 DEF T, StepsOf

-----------------------------------------------------------------------------
(* The two recursive functions: what is kept of a sequence, and the rows of buttons. *)

LEMMA KeptIsChosen ==
    ASSUME NEW T, NEW controls \in Seq(T), NEW chosen
    PROVE  /\ Kept(controls, chosen) \in Seq(T)
           /\ ToSet(Kept(controls, chosen)) = ToSet(controls) \cap chosen
  <1> DEFINE n == Len(controls)
             Step(f, k) == IF k = 0 THEN <<>>
                           ELSE IF controls[k] \in chosen THEN Append(f[k - 1], controls[k])
                           ELSE f[k - 1]
             UpToN == CHOOSE f : f = [k \in 0..n |-> Step(f, k)]
  <1>0. n \in Nat /\ DOMAIN controls = 1..n /\ \A k \in 1..n : controls[k] \in T
    OBVIOUS
  <1>1. Kept(controls, chosen) = UpToN[n]
    BY Zenon DEF Kept
  <1>2. \E f : f = [k \in 0..n |-> Step(f, k)]
    <2> DEFINE F == [p \in Seq(T) \X (1..n) |->
                        IF controls[p[2]] \in chosen THEN Append(p[1], controls[p[2]]) ELSE p[1]]
    <2>1. F \in Steppings(Seq(T), n)
      BY <1>0 DEF Steppings
    <2>2. <<>> \in Seq(T)
      OBVIOUS
    <2> HIDE DEF F
    <2>3. PICK g : g \in StepsOf(F, <<>>, n, Seq(T))
      BY <1>0, <2>1, <2>2, Recursion
    <2>4. \A k \in 0..n : g[k] = Step(g, k)
      <3>1. ASSUME NEW k \in 1..n PROVE g[k] = Step(g, k)
        <4>1. k - 1 \in 0..n /\ k # 0
          BY <1>0
        <4>2. g[k - 1] \in Seq(T) /\ g[k] = F[<<g[k - 1], k>>]
          BY <2>3, <4>1 DEF StepsOf
        <4>3. F[<<g[k - 1], k>>] = Step(g, k)
          BY <4>1, <4>2 DEF F
        <4> QED
          BY <4>2, <4>3
      <3>2. \A k \in 0..n : k = 0 \/ k \in 1..n
        BY <1>0
      <3> QED
        BY <2>3, <3>1, <3>2 DEF StepsOf
    <2>5. g = [k \in 0..n |-> Step(g, k)]
      BY <2>3, <2>4 DEF StepsOf
    <2> QED
      BY <2>5
  <1>3. UpToN = [k \in 0..n |-> Step(UpToN, k)]
    <2> HIDE DEF Step
    <2> QED
      BY <1>2
  <1> HIDE DEF UpToN
  <1> DEFINE P == {k \in 0..n : /\ UpToN[k] \in Seq(T)
                                /\ ToSet(UpToN[k]) = {controls[i] : i \in 1..k} \cap chosen}
  <1>4. 0 \in P
    <2>1. UpToN[0] = <<>> /\ 0 \in 0..n
      BY <1>0, <1>3
    <2>2. ToSet(<<>>) = {} /\ <<>> \in Seq(T)
      BY DEF ToSet
    <2>3. {controls[i] : i \in 1..0} \cap chosen = {}
      OBVIOUS
    <2> QED
      BY <2>1, <2>2, <2>3
  <1>5. ASSUME NEW m \in 0..(n - 1), m \in P PROVE m + 1 \in P
    <2> DEFINE k == m + 1
               c == controls[k]
    <2>1. k \in 1..n /\ k \in 0..n /\ k # 0 /\ k - 1 = m
      BY <1>0
    <2>2. UpToN[k] = IF c \in chosen THEN Append(UpToN[m], c) ELSE UpToN[m]
      BY <1>3, <2>1
    <2>3. c \in T /\ UpToN[m] \in Seq(T)
      BY <1>0, <1>5, <2>1
    <2>4. {controls[i] : i \in 1..k} = {controls[i] : i \in 1..m} \cup {c}
      <3>1. \A i : i \in 1..k <=> i \in 1..m \/ i = k
        BY <1>0
      <3> QED
        BY <3>1
    <2> HIDE DEF k, c
    <2>5. ToSet(Append(UpToN[m], c)) = ToSet(UpToN[m]) \cup {c}
      <3> DEFINE q == UpToN[m]
      <3>1. q \in Seq(T) /\ Len(q) \in Nat /\ DOMAIN q = 1..Len(q)
        BY <2>3
      <3> HIDE DEF q
      <3>2. /\ DOMAIN Append(q, c) = 1..(Len(q) + 1)
            /\ \A i \in 1..Len(q) : Append(q, c)[i] = q[i]
            /\ Append(q, c)[Len(q) + 1] = c
        BY <3>1
      <3>3. \A i : i \in 1..(Len(q) + 1) <=> i \in 1..Len(q) \/ i = Len(q) + 1
        BY <3>1
      <3>4. ToSet(Append(q, c)) = ToSet(q) \cup {c}
        BY <3>1, <3>2, <3>3 DEF ToSet
      <3> QED
        BY <3>4 DEF q
    <2>6. UpToN[k] \in Seq(T)
      BY <2>2, <2>3
    <2>7. ToSet(UpToN[k]) = {controls[i] : i \in 1..k} \cap chosen
      <3>1. ToSet(UpToN[m]) = {controls[i] : i \in 1..m} \cap chosen
        BY <1>5
      <3>2. CASE c \in chosen
        BY <2>2, <2>4, <2>5, <3>1, <3>2
      <3>3. CASE c \notin chosen
        BY <2>2, <2>4, <3>1, <3>3
      <3> QED
        BY <3>2, <3>3
    <2>8. k \in P
      BY <2>1, <2>6, <2>7
    <2> QED
      BY <2>8 DEF k
  <1> HIDE DEF P
  <1>6. \A m \in 0..n : m \in P
    <2> HIDE DEF n
    <2> QED
      BY <1>0, <1>4, <1>5, UpTo
  <1>7. n \in 0..n /\ n \in P
    BY <1>0, <1>6
  <1> QED
    BY <1>0, <1>1, <1>7 DEF P, ToSet

\* The rows of the buttons, each in the row of the one before it or in the next.
Rows(buttons) == [0..Len(buttons) -> [row : Nat, used : Int]]

LEMMA ButtonsGoDown ==
    ASSUME NEW buttons, Len(buttons) \in Nat, NEW width \in Int,
           \A i \in 1..Len(buttons) : buttons[i].width \in Int
    PROVE  \E rows \in Rows(buttons) :
              /\ \A option : optionRow(buttons, option, width)
                                = rows[Clamp(option + 1, 0, Len(buttons))].row
              /\ \A k \in 1..Len(buttons) : rows[k].row \in {rows[k - 1].row, rows[k - 1].row + 1}
  <1> DEFINE n == Len(buttons)
             At == [row : Nat, used : Int]
             Next1(at, item) == IF at.used > 0 /\ at.used + item > width
                                THEN [row |-> at.row + 1, used |-> item + 1]
                                ELSE [row |-> at.row, used |-> at.used + item + 1]
             Step(f, k) == IF k = 0 THEN [row |-> 0, used |-> 0]
                           ELSE Next1(f[k - 1], buttons[k].width)
             After == CHOOSE f : f = [k \in 0..n |-> Step(f, k)]
  <1>1. \A option : optionRow(buttons, option, width) = After[Clamp(option + 1, 0, n)].row
    BY Zenon DEF optionRow
  <1>2. \A at \in At, item \in Int :
            Next1(at, item) \in At /\ Next1(at, item).row \in {at.row, at.row + 1}
    OBVIOUS
  <1>3. [row |-> 0, used |-> 0] \in At
    OBVIOUS
  <1> HIDE DEF Next1, At
  <1>4. \E f : f = [k \in 0..n |-> Step(f, k)] /\ f \in [0..n -> At]
    <2> DEFINE F == [p \in At \X (1..n) |-> Next1(p[1], buttons[p[2]].width)]
    <2>1. F \in Steppings(At, n)
      BY <1>2 DEF Steppings
    <2> HIDE DEF F
    <2>2. PICK g : g \in StepsOf(F, [row |-> 0, used |-> 0], n, At)
      BY <1>3, <2>1, Recursion
    <2>3. \A k \in 0..n : g[k] = Step(g, k)
      <3>1. ASSUME NEW k \in 1..n PROVE g[k] = Step(g, k)
        <4>1. k - 1 \in 0..n /\ k # 0
          OBVIOUS
        <4>2. g[k - 1] \in At /\ g[k] = F[<<g[k - 1], k>>]
          BY <2>2, <4>1 DEF StepsOf
        <4>3. F[<<g[k - 1], k>>] = Next1(g[k - 1], buttons[k].width)
          BY <4>1, <4>2 DEF F
        <4> QED
          BY <4>1, <4>2, <4>3
      <3>2. \A k \in 0..n : k = 0 \/ k \in 1..n
        OBVIOUS
      <3> QED
        BY <2>2, <3>1, <3>2 DEF StepsOf
    <2>4. g = [k \in 0..n |-> Step(g, k)] /\ g \in [0..n -> At]
      BY <2>2, <2>3 DEF StepsOf
    <2> QED
      BY <2>4
  <1>5. After = [k \in 0..n |-> Step(After, k)]
    <2> HIDE DEF Step
    <2>1. \E f : f = [k \in 0..n |-> Step(f, k)]
      BY <1>4
    <2> QED
      BY <2>1
  <1> HIDE DEF After
  <1> DEFINE P == {k \in 0..n : After[k] \in At}
  <1>6. 0 \in P
    BY <1>3, <1>5
  <1>7. ASSUME NEW m \in 0..(n - 1), m \in P PROVE m + 1 \in P
    <2>1. m + 1 \in 0..n /\ m + 1 \in 1..n /\ m + 1 # 0 /\ m + 1 - 1 = m
      OBVIOUS
    <2>2. After[m + 1] = Next1(After[m], buttons[m + 1].width)
      BY <1>5, <2>1
    <2> QED
      BY <1>2, <1>7, <2>1, <2>2
  <1> HIDE DEF P
  <1>8. \A k \in 0..n : k \in P
    BY <1>6, <1>7, UpTo
  <1>9. After \in [0..n -> At]
    BY <1>5, <1>8 DEF P
  <1>10. ASSUME NEW k \in 1..n PROVE After[k].row \in {After[k - 1].row, After[k - 1].row + 1}
    <2>1. k \in 0..n /\ k # 0 /\ k - 1 \in 0..n
      OBVIOUS
    <2>2. After[k] = Next1(After[k - 1], buttons[k].width)
      BY <1>5, <2>1
    <2>3. After[k - 1] \in At
      BY <1>9, <2>1
    <2> QED
      BY <1>2, <2>2, <2>3
  <1>11. After \in Rows(buttons)
    BY <1>9 DEF Rows, At
  <1> QED
    BY <1>1, <1>10, <1>11

LEMMA RowsAreInOrder ==
    ASSUME NEW buttons, Len(buttons) \in Nat, NEW width \in Int,
           \A i \in 1..Len(buttons) : buttons[i].width \in Int,
           NEW a \in Int, NEW b \in Int, a <= b
    PROVE  /\ optionRow(buttons, a, width) \in Nat /\ optionRow(buttons, b, width) \in Nat
           /\ optionRow(buttons, a, width) <= optionRow(buttons, b, width)
  <1> DEFINE n == Len(buttons)
  <1>1. PICK rows \in Rows(buttons) :
              /\ \A option : optionRow(buttons, option, width)
                                = rows[Clamp(option + 1, 0, n)].row
              /\ \A k \in 1..n : rows[k].row \in {rows[k - 1].row, rows[k - 1].row + 1}
    BY ButtonsGoDown
  <1>2. \A k \in 0..n : rows[k].row \in Nat
    BY <1>1 DEF Rows
  <1> DEFINE i == Clamp(a + 1, 0, n)
             j == Clamp(b + 1, 0, n)
             P == {k \in 0..n : i <= k => rows[i].row <= rows[k].row}
  <1>3. i \in 0..n /\ j \in 0..n /\ i <= j
    BY DEF Clamp
  <1> HIDE DEF i, j
  <1>4. 0 \in P
    BY <1>2, <1>3
  <1>5. ASSUME NEW m \in 0..(n - 1), m \in P PROVE m + 1 \in P
    <2> DEFINE k == m + 1
    <2>1. k \in 1..n /\ k \in 0..n /\ k - 1 = m /\ m \in 0..n
      OBVIOUS
    <2>2. i <= m => rows[i].row <= rows[m].row
      BY <1>5
    <2>3. rows[k].row \in {rows[m].row, rows[m].row + 1}
      BY <1>1, <2>1
    <2>4. rows[k].row \in Nat /\ rows[m].row \in Nat /\ rows[i].row \in Nat
      BY <1>2, <1>3, <2>1
    <2>5. i <= k => i <= m \/ i = k
      BY <1>3
    <2> HIDE DEF k
    <2>6. i <= k => rows[i].row <= rows[k].row
      BY <2>2, <2>3, <2>4, <2>5
    <2> QED
      BY <2>1, <2>6 DEF k
  <1> HIDE DEF P
  <1>6. \A k \in 0..n : k \in P
    BY <1>4, <1>5, UpTo
  <1>7. rows[i].row <= rows[j].row
    BY <1>3, <1>6 DEF P
  <1> QED
    BY <1>1, <1>2, <1>3, <1>7 DEF i, j

-----------------------------------------------------------------------------
(* The panels: their controls and the rows that they are drawn in. *)

Kinds ==
    Features \cup
        {"None", "Scan", "SelectDrive", "DriveUp", "DriveDown", "MainTab", "BottomTab", "BottomUp",
         "BottomDown", "JobPrimary", "JobStop", "OpenWorkflow", "Settings", "Detach",
         "CloseSettings", "Confirm", "Cancel"}

Controls == [kind : Kinds, value : Int]

LEMMA ControlsAre ==
    ASSUME NEW k, NEW v
    PROVE  /\ Control(k, v).kind = k /\ Control(k, v).value = v
           /\ k \in Kinds /\ v \in Int => Control(k, v) \in Controls
  BY DEF Control, Controls

\* A state names a drive and a tab of it.
Placed(s) ==
    /\ plan \in Screens
    /\ s.selected_drive \in 0..LastDrive
    /\ s.main_tab \in 0..(visibleTabCount(s) - 1)

LEMMA PlanIsSound ==
    ASSUME plan \in Screens
    PROVE  ScreenAssumption(plan)
  BY DemoUiAssumption

LEMMA DriveHasTabs ==
    ASSUME NEW s, plan \in Screens, s.selected_drive \in 0..LastDrive
    PROVE  /\ Drive(s) \in [protected : BOOLEAN, hdd : BOOLEAN]
           /\ availableFeatures(s) \in Seq(Features)
           /\ visibleTabCount(s) = Len(availableFeatures(s))
           /\ visibleTabCount(s) \in 2..Len(plan.features)
           /\ Drive(s).protected => visibleTabCount(s) = 2
           /\ \A i \in 1..visibleTabCount(s) : availableFeatures(s)[i] = plan.features[i]
  <1>1. /\ plan.drives \in Seq([protected : BOOLEAN, hdd : BOOLEAN])
        /\ plan.features \in Seq(Features) /\ Len(plan.features) \in Nat /\ Len(plan.features) >= 2
    BY PlanIsSound DEF ScreenAssumption
  <1>2. Drive(s) \in [protected : BOOLEAN, hdd : BOOLEAN]
    <2> DEFINE D == [protected : BOOLEAN, hdd : BOOLEAN]
               i == s.selected_drive + 1
    <2>1. plan.drives \in Seq(D) /\ Len(plan.drives) \in Nat /\ i \in 1..Len(plan.drives)
      BY <1>1 DEF LastDrive
    <2>2. Drive(s) = plan.drives[i]
      BY DEF Drive
    <2> HIDE DEF D, i
    <2>3. Drive(s) \in D
      BY <2>1, <2>2
    <2> QED
      BY <2>3 DEF D
  <1>3. CASE Drive(s).protected
    <2> DEFINE q == SubSeq(plan.features, 1, 2)
    <2>1. q \in Seq(Features) /\ Len(q) = 2 /\ \A i \in 1..2 : q[i] = plan.features[i]
      BY <1>1
    <2>2. availableFeatures(s) = q
      BY <1>3 DEF availableFeatures
    <2> HIDE DEF q
    <2>3. /\ availableFeatures(s) \in Seq(Features)
          /\ visibleTabCount(s) = Len(availableFeatures(s)) /\ visibleTabCount(s) = 2
          /\ \A i \in 1..2 : availableFeatures(s)[i] = plan.features[i]
      BY <2>1, <2>2 DEF visibleTabCount
    <2> QED
      BY <1>1, <1>2, <2>3
  <1>4. CASE ~Drive(s).protected
    <2>1. availableFeatures(s) = plan.features
      BY <1>4 DEF availableFeatures
    <2> QED
      BY <1>1, <1>2, <1>4, <2>1 DEF visibleTabCount
  <1> QED
    BY <1>3, <1>4

LEMMA TabHasFeature ==
    ASSUME NEW s, Placed(s)
    PROVE  /\ selectedFeature(s) = plan.features[s.main_tab + 1]
           /\ selectedFeature(s) \in Features
           /\ selectedFeature(s) # "Overview" => selectedFeature(s) \in DOMAIN plan.catalog
           /\ visibleTabCount(s) \in Nat /\ s.main_tab \in 0..(Len(plan.features) - 1)
  <1> DEFINE n == visibleTabCount(s)
             tab == s.main_tab
  <1>1. /\ n \in 2..Len(plan.features) /\ Len(plan.features) \in Nat /\ tab \in 0..(n - 1)
        /\ availableFeatures(s) \in Seq(Features)
        /\ \A i \in 1..n : availableFeatures(s)[i] = plan.features[i]
        /\ plan.features \in Seq(Features)
        /\ DOMAIN plan.catalog = ToSet(plan.features) \ {"Overview"}
    BY DriveHasTabs, PlanIsSound DEF Placed, ScreenAssumption
  <1>2. selectedFeature(s) = availableFeatures(s)[Clamp(tab, 0, n - 1) + 1]
    BY DEF selectedFeature
  <1> HIDE DEF n, tab
  <1>3. Clamp(tab, 0, n - 1) = tab /\ tab + 1 \in 1..n /\ tab + 1 \in 1..Len(plan.features)
    BY <1>1 DEF Clamp
  <1>4. selectedFeature(s) = plan.features[tab + 1] /\ tab \in 0..(Len(plan.features) - 1)
    BY <1>1, <1>2, <1>3
  <1>5. selectedFeature(s) \in Features /\ selectedFeature(s) \in ToSet(plan.features)
    BY <1>1, <1>3, <1>4 DEF ToSet
  <1> QED
    BY <1>1, <1>4, <1>5 DEF n, tab

LEMMA WorkflowsOfAFeature ==
    ASSUME NEW s, plan \in Screens, s.selected_drive \in 0..LastDrive, NEW f \in DOMAIN plan.catalog
    PROVE  /\ f \in Features \ {"Overview"}
           /\ Drive(s).protected => featureWorkflows(s, f) = <<>>
           /\ ~Drive(s).protected => featureWorkflows(s, f) = plan.catalog[f]
           /\ plan.catalog[f] \in Seq(Workflows) /\ plan.catalog[f] # <<>>
           /\ Len(plan.catalog[f]) \in Nat /\ Len(plan.catalog[f]) >= 1
           /\ \A i \in 1..Len(plan.catalog[f]) : plan.catalog[f][i].width \in Int
  <1>1. /\ DOMAIN plan.catalog = ToSet(plan.features) \ {"Overview"}
        /\ plan.features \in Seq(Features)
        /\ plan.catalog[f] \in Seq(Workflows) /\ plan.catalog[f] # <<>>
    BY PlanIsSound DEF ScreenAssumption
  <1>2. f \in Features \ {"Overview"}
    BY <1>1 DEF ToSet
  <1>3. \A i \in 1..Len(plan.catalog[f]) : plan.catalog[f][i] \in Workflows
    BY <1>1
  <1>4. \A workflow \in Workflows : workflow.width \in Int
    BY DEF Workflows
  <1>5. Drive(s).protected \in BOOLEAN
    BY DriveHasTabs
  <1> QED
    BY <1>1, <1>2, <1>3, <1>4, <1>5 DEF featureWorkflows

\* What a control of a panel is.
LEMMA TargetsOfAPanel ==
    ASSUME NEW s, Placed(s)
    PROVE  LET f == selectedFeature(s)
               workflows == featureWorkflows(s, f)
           IN  /\ featureTargets(s) \in Seq(Controls) /\ featureTargets(s) # <<>>
               /\ workflows = <<>> => ToSet(featureTargets(s)) = {Control("MainTab", s.main_tab)}
               /\ workflows # <<>> =>
                    /\ f \in DOMAIN plan.catalog /\ ~Drive(s).protected
                    /\ \A control \in ToSet(featureTargets(s)) :
                          \/ control = Control("OpenWorkflow", 0)
                          \/ /\ control.kind = f /\ control.value \in Nat
                             /\ Supports(s, f, control.value)
  <1> DEFINE f == selectedFeature(s)
             workflows == featureWorkflows(s, f)
             options == [i \in DOMAIN workflows |-> Control(f, i - 1)]
             chosen == {control \in ToSet(options) : Supports(s, f, control.value)}
             open == Control("OpenWorkflow", 0)
  <1>1. /\ plan \in Screens /\ s.selected_drive \in 0..LastDrive
        /\ f \in Features /\ s.main_tab \in Int
        /\ f # "Overview" => f \in DOMAIN plan.catalog
    BY TabHasFeature DEF Placed
  <1>2. CASE workflows = <<>>
    <2> DEFINE tab == Control("MainTab", s.main_tab)
    <2>1. featureTargets(s) = <<tab>>
      BY <1>2 DEF featureTargets
    <2>2. tab \in Controls
      BY <1>1, ControlsAre DEF Kinds
    <2> HIDE DEF tab
    <2>3. featureTargets(s) \in Seq(Controls) /\ featureTargets(s) # <<>> /\ ToSet(<<tab>>) = {tab}
      BY <2>1, <2>2 DEF ToSet
    <2> QED
      BY <1>2, <2>1, <2>3 DEF tab
  <1>3. CASE workflows # <<>>
    <2>1. f # "Overview" /\ ~Drive(s).protected /\ f \in DOMAIN plan.catalog
      BY <1>1, <1>3 DEF featureWorkflows
    <2>2. workflows \in Seq(Workflows) /\ Len(workflows) \in Nat /\ DOMAIN workflows = 1..Len(workflows)
      BY <1>1, <2>1, WorkflowsOfAFeature
    <2>3. featureTargets(s) = Kept(options, chosen) \o <<open>>
      BY <1>3 DEF featureTargets
    <2>4. \A i \in DOMAIN workflows : /\ options[i] \in Controls /\ options[i].kind = f
                                      /\ options[i].value \in Nat
      BY <1>1, <2>2, ControlsAre DEF Kinds
    <2>5. options \in Seq(Controls)
      BY <2>2, <2>4
    <2>6. \A control \in ToSet(options) : control.kind = f /\ control.value \in Nat
      BY <2>4 DEF ToSet
    <2>7. open \in Controls
      BY ControlsAre DEF Kinds
    <2> DEFINE kept == Kept(options, chosen)
    <2>8. kept \in Seq(Controls) /\ ToSet(kept) = ToSet(options) \cap chosen
      <3> HIDE DEF options, chosen
      <3> QED
        BY <2>5, KeptIsChosen
    <2>9. \A control \in ToSet(kept) : /\ control.kind = f /\ control.value \in Nat
                                       /\ Supports(s, f, control.value)
      BY <2>6, <2>8
    <2> HIDE DEF kept, open
    <2>10. ToSet(kept \o <<open>>) = ToSet(kept) \cup {open}
      <3>1. /\ Len(kept) \in Nat /\ DOMAIN kept = 1..Len(kept)
            /\ DOMAIN (kept \o <<open>>) = 1..(Len(kept) + 1)
            /\ \A i \in 1..Len(kept) : (kept \o <<open>>)[i] = kept[i]
            /\ (kept \o <<open>>)[Len(kept) + 1] = open
        BY <2>7, <2>8
      <3>2. \A i : i \in 1..(Len(kept) + 1) <=> i \in 1..Len(kept) \/ i = Len(kept) + 1
        BY <3>1
      <3> QED
        BY <3>1, <3>2 DEF ToSet
    <2>11. kept \o <<open>> \in Seq(Controls) /\ kept \o <<open>> # <<>>
      BY <2>7, <2>8
    <2>12. featureTargets(s) = kept \o <<open>>
      BY <2>3 DEF kept
    <2>13. /\ featureTargets(s) \in Seq(Controls) /\ featureTargets(s) # <<>>
           /\ \A control \in ToSet(featureTargets(s)) :
                  control = open \/ control \in ToSet(kept)
      BY <2>10, <2>11, <2>12
    <2> QED
      BY <1>3, <2>1, <2>9, <2>13 DEF open
  <1> QED
    BY <1>2, <1>3

\* What a terminal is known to have.
Layouts == {makeLayout(size) : size \in plan.sizes}

LEMMA LayoutHasRows ==
    ASSUME plan \in Screens, NEW layout \in Layouts
    PROVE  /\ layout.valid \in BOOLEAN /\ layout.dialogs \in BOOLEAN /\ layout.arrows \in BOOLEAN
           /\ layout.width \in Int /\ layout.content_rows \in Int
           /\ layout.bottom_rows \in Nat /\ layout.visible_drives \in Nat
           /\ layout.valid => layout.bottom_rows >= 1 /\ layout.visible_drives >= 1
  <1>1. PICK size \in plan.sizes : layout = makeLayout(size)
    BY DEF Layouts
  <1>2. size.height \in Int /\ size.width \in Int
    BY PlanIsSound DEF ScreenAssumption
  <1>3. BottomRows \in Nat \ {0} /\ DriveRows \in Nat \ {0}
    BY DemoUiAssumption
  <1> DEFINE main_bottom == size.height - (BottomRows + 5)
             left_divider == Clamp(size.width \div 3, 27, 34)
             help_lines == IF size.height >= 30 THEN 1 ELSE 0
             drive_space == main_bottom - help_lines - 7
             visible == Clamp(drive_space \div (IF size.height >= 34 THEN 3 ELSE 2), 1, DriveRows)
  <1>4. main_bottom \in Int /\ left_divider \in Int
    BY <1>2, <1>3 DEF Clamp
  <1>5. visible \in Nat /\ visible >= 1
    <2>1. drive_space \in Int
      BY <1>2, <1>3
    <2> HIDE DEF drive_space
    <2>2. drive_space \div 3 \in Int /\ drive_space \div 2 \in Int
      BY <2>1
    <2> QED
      BY <1>3, <2>2 DEF Clamp
  <1> HIDE DEF main_bottom, left_divider, visible
  <1>6. CASE size.height < 24 \/ size.width < 70
    <2>1. layout = [valid |-> FALSE, dialogs |-> size.width >= 24 /\ size.height >= 10,
                    visible_drives |-> 0, bottom_rows |-> 0, content_rows |-> 1, width |-> 1,
                    arrows |-> FALSE]
      BY <1>1, <1>6 DEF makeLayout
    <2> QED
      BY <2>1
  <1>7. CASE ~(size.height < 24 \/ size.width < 70)
    <2>1. layout = [valid |-> TRUE, dialogs |-> TRUE, visible_drives |-> visible,
                    bottom_rows |-> BottomRows, content_rows |-> main_bottom - 9,
                    width |-> size.width - left_divider - 3, arrows |-> size.width >= 80]
      BY <1>1, <1>7 DEF makeLayout, main_bottom, left_divider, visible
    <2> QED
      BY <1>2, <1>3, <1>4, <1>5, <2>1
  <1> QED
    BY <1>6, <1>7

LEMMA ViewportHasRows ==
    ASSUME NEW s, Placed(s), s.layout \in Layouts
    PROVE  ViewportHeight(s) \in Nat /\ ViewportHeight(s) >= 1
  <1> DEFINE features == availableFeatures(s)
             shortcut == IF Len(features) <= 2 \/ s.layout.width >= 52 THEN 4 ELSE 0
             Tab(f) == [width |-> shortcut + IF f \in {"Overview", "Sanitize"} THEN 12 ELSE 13]
             tabs == [i \in DOMAIN features |-> Tab(features[i])]
  <1>1. s.layout.width \in Int /\ s.layout.content_rows \in Int
    BY LayoutHasRows DEF Placed
  <1>2. features \in Seq(Features) /\ Len(features) \in Nat /\ DOMAIN features = 1..Len(features)
    BY DriveHasTabs DEF Placed
  <1>3. \A i \in DOMAIN tabs : tabs[i].width \in Int
    <2>1. shortcut \in Int
      OBVIOUS
    <2> HIDE DEF shortcut
    <2> QED
      BY <2>1
  <1>4. Len(tabs) = Len(features) /\ DOMAIN tabs = 1..Len(features)
    BY <1>2
  <1>5. drawMainTabs(s) = optionRow(tabs, Len(features) - 1, s.layout.width)
    BY DEF drawMainTabs
  <1> HIDE DEF tabs, features
  <1>6. drawMainTabs(s) \in Nat
    BY <1>1, <1>2, <1>3, <1>4, <1>5, RowsAreInOrder
  <1> QED
    BY <1>1, <1>6 DEF ViewportHeight, NotBelow

\* The height of a panel.
LEMMA PanelHasHeight ==
    ASSUME NEW s, Placed(s), s.layout \in Layouts
    PROVE  mainContentHeight(s) \in Nat /\ maxContentOffset(s) \in Nat
  <1> DEFINE f == selectedFeature(s)
             workflows == featureWorkflows(s, f)
             width == s.layout.width
             n == Len(workflows)
  <1>1. Drive(s).protected \in BOOLEAN /\ (f # "Overview" => f \in DOMAIN plan.catalog)
    BY DriveHasTabs, TabHasFeature DEF Placed
  <1>2. CASE Drive(s).protected \/ f = "Overview"
    <2>1. mainContentHeight(s) \in Nat
      BY <1>1, <1>2 DEF mainContentHeight
    <2> QED
      BY <2>1, ViewportHasRows DEF maxContentOffset, NotBelow
  <1>3. CASE ~Drive(s).protected /\ f # "Overview"
    <2>1. /\ workflows = plan.catalog[f] /\ n \in Nat
          /\ \A i \in 1..n : workflows[i].width \in Int
      BY <1>1, <1>3, WorkflowsOfAFeature DEF Placed
    <2>2. width \in Int /\ n - 1 \in Int /\ n - 1 <= n - 1
      BY <2>1, LayoutHasRows DEF Placed
    <2>3. buttonRows(workflows, width) \in Nat
      <3> HIDE DEF workflows, width
      <3>1. optionRow(workflows, n - 1, width) \in Nat
        BY <2>1, <2>2, RowsAreInOrder
      <3> QED
        BY <3>1 DEF buttonRows
    <2>4. mainContentHeight(s) = buttonRows(workflows, width) + (IF f = "Sanitize" THEN 11 ELSE 12)
      BY <1>3 DEF mainContentHeight
    <2> HIDE DEF workflows, width
    <2>5. mainContentHeight(s) \in Nat
      BY <2>3, <2>4
    <2> QED
      BY <2>5, ViewportHasRows DEF maxContentOffset, NotBelow
  <1> QED
    BY <1>2, <1>3

\* The row that the scrolling aims at is the one where the drawing puts a control, and
\* the panel is high enough for it.
LEMMA RowsAgree ==
    ASSUME NEW s, Placed(s), s.layout \in Layouts,
           NEW control \in ToSet(featureTargets(s)), control.kind # "MainTab"
    PROVE  /\ DrawnRow(s, control) = featureControlRow(s, control)
           /\ DrawnRow(s, control) \in Nat
           /\ mainContentHeight(s) \in Nat
           /\ DrawnRow(s, control) < mainContentHeight(s)
  <1> DEFINE f == selectedFeature(s)
             workflows == featureWorkflows(s, f)
             width == s.layout.width
             n == Len(workflows)
  <1>1. /\ workflows # <<>> /\ f \in DOMAIN plan.catalog /\ ~Drive(s).protected
        /\ \/ control = Control("OpenWorkflow", 0)
           \/ /\ control.kind = f /\ control.value \in Nat
              /\ Supports(s, f, control.value)
    <2>1. workflows # <<>>
      <3>1. SUFFICES ASSUME workflows = <<>> PROVE FALSE
        OBVIOUS
      <3>2. control = Control("MainTab", s.main_tab)
        BY <3>1, TargetsOfAPanel
      <3> QED
        BY <3>2, ControlsAre
    <2> QED
      BY <2>1, TargetsOfAPanel
  <1>2. /\ workflows = plan.catalog[f] /\ f \in Features \ {"Overview"}
        /\ n \in Nat /\ n >= 1 /\ DOMAIN workflows = 1..n
        /\ \A i \in 1..n : workflows[i].width \in Int
    BY <1>1, WorkflowsOfAFeature DEF Placed
  <1>3. width \in Int
    BY LayoutHasRows DEF Placed
  <1> DEFINE last == optionRow(workflows, n - 1, width)
  <1>4. last \in Nat /\ buttonRows(workflows, width) = 1 + last
    <2>1. n - 1 \in Int /\ n - 1 <= n - 1
      BY <1>2
    <2> HIDE DEF workflows, width, n
    <2>2. optionRow(workflows, n - 1, width) \in Nat
      BY <1>2, <1>3, <2>1, RowsAreInOrder DEF n
    <2> QED
      BY <2>2 DEF buttonRows, n
  <1>5. mainContentHeight(s) = 1 + last + (IF f = "Sanitize" THEN 11 ELSE 12)
    BY <1>1, <1>2, <1>4 DEF mainContentHeight
  <1>6. CASE control = Control("OpenWorkflow", 0)
    <2>1. control.kind = "OpenWorkflow" /\ control.kind # f
      BY <1>2, <1>6, ControlsAre DEF Features
    <2>2. DrawnRow(s, control) = FirstRow(f) + (1 + last) + 6 + RowsBelow(f)
      BY <1>4, <2>1 DEF DrawnRow
    <2>3. featureControlRow(s, control) = (1 + last) + (IF f = "Sanitize" THEN 10 ELSE 11)
      BY <1>2, <1>4, <2>1 DEF featureControlRow
    <2> HIDE DEF last
    <2>4. FirstRow(f) + 6 + RowsBelow(f) = IF f = "Sanitize" THEN 10 ELSE 11
      BY <1>2 DEF FirstRow, RowsBelow, Features
    <2>5. FirstRow(f) \in Nat /\ RowsBelow(f) \in Nat
      BY <1>2 DEF FirstRow, RowsBelow, Features
    <2> QED
      BY <1>4, <1>5, <2>2, <2>3, <2>4, <2>5
  <1>7. CASE control.kind = f /\ control.value \in Nat /\ Supports(s, f, control.value)
    <2> DEFINE v == control.value
               row == optionRow(workflows, v, width)
    <2>1. v + 1 \in 1..n
      BY <1>2, <1>7 DEF Supports
    <2>2. row \in Nat /\ row <= last
      <3>1. v \in Int /\ n - 1 \in Int /\ v <= n - 1
        BY <1>2, <1>7, <2>1
      <3> HIDE DEF workflows, width, n, v
      <3>2. /\ optionRow(workflows, v, width) \in Nat
            /\ optionRow(workflows, v, width) <= optionRow(workflows, n - 1, width)
        BY <1>2, <1>3, <3>1, RowsAreInOrder DEF n
      <3> QED
        BY <3>2
    <2>3. control.kind # "OpenWorkflow"
      BY <1>2, <1>7 DEF Features
    <2>4. DrawnRow(s, control) = FirstRow(f) + row
      BY <1>7 DEF DrawnRow
    <2>5. featureControlRow(s, control) = FirstRow(f) + row
      BY <1>7, <2>3 DEF featureControlRow
    <2>6. FirstRow(f) \in {2, 3, 4}
      BY DEF FirstRow
    <2> HIDE DEF last, row
    <2> QED
      BY <1>4, <1>5, <2>2, <2>4, <2>5, <2>6
  <1> QED
    BY <1>1, <1>6, <1>7

-----------------------------------------------------------------------------
(* What the handlers and the drawing keep. *)

Fields == {"selected_drive", "drive_offset", "main_tab", "bottom_tab", "job_offset",
           "content_offsets", "mode", "focus", "option", "dialog", "choice", "return", "jobs",
           "layout"}

\* A state that differs from s in these fields alone.
Differs(s, t, fields) ==
    DOMAIN s = Fields /\ DOMAIN t = Fields /\ \A field \in Fields \ fields : t[field] = s[field]

\* What there is to choose from depends on the drive, and the panel on the tab.
LEMMA SameDrive ==
    ASSUME NEW s, NEW t, t.selected_drive = s.selected_drive
    PROVE  /\ Drive(t) = Drive(s) /\ visibleTabCount(t) = visibleTabCount(s)
           /\ availableFeatures(t) = availableFeatures(s)
           /\ \A f : featureWorkflows(t, f) = featureWorkflows(s, f)
           /\ \A f, option : Supports(t, f, option) <=> Supports(s, f, option)
  <1>1. Drive(t) = Drive(s)
    BY DEF Drive
  <1>2. availableFeatures(t) = availableFeatures(s)
    BY <1>1 DEF availableFeatures
  <1>3. \A f : featureWorkflows(t, f) = featureWorkflows(s, f)
    BY <1>1 DEF featureWorkflows
  <1>4. \A f, option : Supports(t, f, option) <=> Supports(s, f, option)
    BY <1>1, <1>3 DEF Supports
  <1> QED
    BY <1>1, <1>2, <1>3, <1>4 DEF visibleTabCount

LEMMA SamePlace ==
    ASSUME NEW s, NEW t, t.selected_drive = s.selected_drive, t.main_tab = s.main_tab
    PROVE  /\ selectedFeature(t) = selectedFeature(s)
           /\ featureTargets(t) = featureTargets(s)
           /\ Placed(s) => Placed(t)
  <1>1. selectedFeature(t) = selectedFeature(s)
    BY SameDrive DEF selectedFeature
  <1>2. featureTargets(t) = featureTargets(s)
    <2> DEFINE f == selectedFeature(s)
               workflows == featureWorkflows(s, f)
               options == [i \in DOMAIN workflows |-> Control(f, i - 1)]
               chosen(x) == {control \in ToSet(options) : Supports(x, f, control.value)}
    <2>1. featureWorkflows(t, f) = workflows
      BY SameDrive
    <2>2. chosen(t) = chosen(s)
      BY SameDrive
    <2>3. featureTargets(s) = IF workflows = <<>> THEN <<Control("MainTab", s.main_tab)>>
                              ELSE Kept(options, chosen(s)) \o <<Control("OpenWorkflow", 0)>>
      BY DEF featureTargets
    <2>4. featureTargets(t) = IF workflows = <<>> THEN <<Control("MainTab", t.main_tab)>>
                              ELSE Kept(options, chosen(t)) \o <<Control("OpenWorkflow", 0)>>
      BY <1>1, <2>1 DEF featureTargets
    <2> HIDE DEF f, workflows, options, chosen
    <2> QED
      BY <2>2, <2>3, <2>4
  <1>3. Placed(s) => Placed(t)
    BY SameDrive DEF Placed
  <1> QED
    BY <1>1, <1>2, <1>3

LEMMA SamePanel ==
    ASSUME NEW s, NEW t, t.selected_drive = s.selected_drive, t.main_tab = s.main_tab,
           t.layout = s.layout
    PROVE  /\ ViewportHeight(t) = ViewportHeight(s)
           /\ maxContentOffset(t) = maxContentOffset(s)
           /\ \A control : DrawnRow(t, control) = DrawnRow(s, control)
           /\ t.content_offsets[t.main_tab] = s.content_offsets[s.main_tab]
                => PanelHits(t) = PanelHits(s)
  <1>1. ViewportHeight(t) = ViewportHeight(s)
    BY SameDrive DEF ViewportHeight, drawMainTabs
  <1>2. mainContentHeight(t) = mainContentHeight(s)
    BY SameDrive, SamePlace DEF mainContentHeight
  <1>3. \A control : DrawnRow(t, control) = DrawnRow(s, control)
    BY SameDrive, SamePlace DEF DrawnRow
  <1>4. maxContentOffset(t) = maxContentOffset(s)
    BY <1>1, <1>2 DEF maxContentOffset
  <1>5. ASSUME t.content_offsets[t.main_tab] = s.content_offsets[s.main_tab]
        PROVE  PanelHits(t) = PanelHits(s)
    BY <1>1, <1>3, <1>5, SamePlace DEF PanelHits
  <1> QED
    BY <1>1, <1>3, <1>4, <1>5

Offsets == [0..(Len(plan.features) - 1) -> Int]

\* A control that is scrolled to is in view, and stays there.
LEMMA ScrollingShows ==
    ASSUME NEW s, DOMAIN s = Fields, Placed(s), s.layout \in Layouts, s.content_offsets \in Offsets,
           NEW control \in ToSet(featureTargets(s)), control.kind # "MainTab",
           NEW t, t = ensureFeatureFocusVisible(s, control)
    PROVE  /\ Differs(s, t, {"content_offsets"}) /\ t.content_offsets \in Offsets
           /\ control \in PanelHits(t)
           /\ LET offset == t.content_offsets[t.main_tab]
              IN  offset \in Int /\ Clamp(offset, 0, maxContentOffset(t)) = offset
  <1> DEFINE row == featureControlRow(s, control)
             height == ViewportHeight(s)
             most == maxContentOffset(s)
             tab == s.main_tab
             Offset(o) == Clamp(IF row < o THEN row ELSE IF row >= o + height THEN row - height + 1
                                ELSE o, 0, most)
             offset == Offset(s.content_offsets[tab])
             X == [s.content_offsets EXCEPT ![tab] = offset]
  <1>1. tab \in 0..(Len(plan.features) - 1) /\ s.content_offsets[tab] \in Int
    BY TabHasFeature DEF Offsets
  <1>2. /\ row \in Nat /\ row = DrawnRow(s, control) /\ height \in Nat /\ height >= 1
        /\ mainContentHeight(s) \in Nat /\ row < mainContentHeight(s)
    BY RowsAgree, ViewportHasRows
  <1>3. most = NotBelow(0, mainContentHeight(s) - height)
    BY DEF maxContentOffset
  <1> HIDE DEF row, height, most
  <1>4. /\ offset \in Int /\ row \in offset..(offset + height - 1)
        /\ Clamp(offset, 0, most) = offset
    <2> DEFINE o == s.content_offsets[tab]
    <2>1. o \in Int
      BY <1>1
    <2> HIDE DEF o
    <2>2. Offset(o) \in Int /\ row \in Offset(o)..(Offset(o) + height - 1)
          /\ Clamp(Offset(o), 0, most) = Offset(o)
      BY <1>2, <1>3, <2>1 DEF NotBelow, Clamp
    <2> QED
      BY <2>2 DEF o
  <1>5. t = [s EXCEPT !.content_offsets = X]
    BY DEF ensureFeatureFocusVisible, row, height, most
  <1>6. X \in Offsets /\ X[tab] = offset
    <2> HIDE DEF offset
    <2> QED
      BY <1>1, <1>4 DEF Offsets
  <1> HIDE DEF X, offset
  <1>7. Differs(s, t, {"content_offsets"}) /\ t.content_offsets = X
    BY <1>5 DEF Differs, Fields
  <1>8. /\ t.selected_drive = s.selected_drive /\ t.main_tab = tab /\ t.layout = s.layout
        /\ t.content_offsets[t.main_tab] = offset
    BY <1>6, <1>7 DEF Differs, Fields
  <1>9. /\ ViewportHeight(t) = height /\ maxContentOffset(t) = most
        /\ DrawnRow(t, control) = row /\ featureTargets(t) = featureTargets(s)
    BY <1>2, <1>8, SamePanel, SamePlace DEF height, most
  <1>10. control \in PanelHits(t)
    BY <1>4, <1>8, <1>9 DEF PanelHits
  <1> QED
    BY <1>4, <1>6, <1>7, <1>8, <1>9, <1>10

Modes == {"DriveList", "DriveTabs", "FeaturePanel"}

JobType ==
    [drive : Int, state : {"Queued", "Running", "Paused", "Ended"},
     pausable : BOOLEAN, cancellable : BOOLEAN]

Typed(s) ==
    /\ DOMAIN s = Fields
    /\ Placed(s)
    /\ s.drive_offset \in Int /\ s.job_offset \in Int /\ s.bottom_tab \in {0, 1}
    /\ s.content_offsets \in Offsets
    /\ s.mode \in Modes /\ s.focus \in Controls
    /\ s.option \in [DOMAIN plan.catalog -> Int]
    /\ s.dialog \in Dialogs /\ s.choice \in {"Cancel", "Confirm"}
    /\ s.return \in [mode : Modes, focus : Controls]
    /\ s.jobs \in Seq(JobType)
    /\ s.layout \in Layouts

\* What is chosen of every feature is one of its workflows, and can be done with the drive.
Supported(s) ==
    \A f \in DOMAIN plan.catalog :
        /\ s.option[f] + 1 \in DOMAIN plan.catalog[f]
        /\ ~Drive(s).protected => Supports(s, f, s.option[f])

\* In a panel the focus is on one of its controls or on its tab.
InPlace(s, mode, focus) ==
    mode = "FeaturePanel" =>
        focus \in ToSet(featureTargets(s)) \cup {Control("MainTab", s.main_tab)}

\* A dialog has the focus on its answer, and remembers a focus that is in place.
Asked(s) ==
    /\ s.dialog = "None" => InPlace(s, s.mode, s.focus)
    /\ s.dialog # "None" =>
          /\ InPlace(s, s.return.mode, s.return.focus)
          /\ s.focus = Control(IF s.dialog = "Settings" THEN "CloseSettings" ELSE s.choice, 0)
    /\ s.dialog = "Workflow" =>
          /\ s.return.mode = "FeaturePanel"
          /\ selectedFeature(s) # "Overview" /\ ~Drive(s).protected

Sound(s) == Typed(s) /\ Supported(s) /\ Asked(s)

\* A state of the same place and with the same choices is sound as far as it has the
\* right types and its focus is in place.
LEMMA SameChoices ==
    ASSUME NEW s, Sound(s), NEW t, t.selected_drive = s.selected_drive, t.main_tab = s.main_tab,
           t.option = s.option
    PROVE  /\ Placed(t) /\ Supported(t) /\ t.option \in [DOMAIN plan.catalog -> Int]
           /\ \A mode, focus : InPlace(t, mode, focus) <=> InPlace(s, mode, focus)
           /\ selectedFeature(t) = selectedFeature(s) /\ Drive(t) = Drive(s)
  <1>1. Placed(t) /\ selectedFeature(t) = selectedFeature(s) /\ featureTargets(t) = featureTargets(s)
    BY SamePlace DEF Sound, Typed
  <1>2. Supported(t) /\ Drive(t) = Drive(s)
    BY SameDrive DEF Sound, Supported
  <1>3. t.option \in [DOMAIN plan.catalog -> Int]
    BY DEF Sound, Typed
  <1>4. \A mode, focus : InPlace(t, mode, focus) <=> InPlace(s, mode, focus)
    BY <1>1 DEF InPlace
  <1> QED
    BY <1>1, <1>2, <1>3, <1>4

-----------------------------------------------------------------------------
(* The drawing. *)

\* The drawing leaves the place and the choices alone.
LEMMA DrawingPutsInOrder ==
    ASSUME NEW s, Sound(s), NEW d, d = drawDemo(s)
    PROVE  /\ Differs(s, d, {"drive_offset", "content_offsets", "job_offset"})
           /\ Sound(d)
           /\ ~s.layout.valid => d = s
           /\ Clamp(s.content_offsets[s.main_tab], 0, maxContentOffset(s))
                 = s.content_offsets[s.main_tab]
                => d.content_offsets[d.main_tab] = s.content_offsets[s.main_tab]
  <1>1. /\ DOMAIN s = Fields /\ Placed(s) /\ s.content_offsets \in Offsets
        /\ s.drive_offset \in Int /\ s.job_offset \in Int /\ s.layout \in Layouts
        /\ s.focus \in Controls /\ s.jobs \in Seq(JobType)
    BY DEF Sound, Typed
  <1>2. CASE ~s.layout.valid
    <2>1. d = s
      BY <1>2 DEF drawDemo
    <2> QED
      BY <1>1, <2>1 DEF Differs
  <1>3. CASE s.layout.valid
    <2> DEFINE n == visibleTabCount(s)
               shown == normalizeDriveViewport(s)
               tab == Clamp(shown.main_tab, 0, visibleTabCount(shown) - 1)
               tabbed == [shown EXCEPT !.main_tab = tab]
               most == maxContentOffset(tabbed)
               offset == Clamp(s.content_offsets[tab], 0, most)
               X == [s.content_offsets EXCEPT ![tab] = offset]
               job == IF s.bottom_tab = 1
                      THEN Clamp(s.job_offset, 0, NotBelow(0, Len(s.jobs) - s.layout.bottom_rows))
                      ELSE s.job_offset
    <2>1. /\ s.main_tab \in 0..(n - 1) /\ n \in Nat /\ (Drive(s).protected => n = 2)
          /\ s.main_tab \in 0..(Len(plan.features) - 1)
      BY <1>1, DriveHasTabs, TabHasFeature DEF Placed
    <2>2. /\ Differs(s, shown, {"drive_offset"})
          /\ shown.drive_offset \in Int
      <3> DEFINE visible == s.layout.visible_drives
                 inRange == Clamp(s.drive_offset, 0, NotBelow(0, Len(plan.drives) - visible))
                 drives ==
                    IF s.mode # "DriveList" \/ s.focus.kind # "SelectDrive" THEN inRange
                    ELSE IF s.focus.value < inRange THEN s.focus.value
                    ELSE IF s.focus.value >= inRange + visible THEN s.focus.value - visible + 1
                    ELSE inRange
                 main == IF Drive(s).protected /\ s.main_tab > 1 THEN 0 ELSE s.main_tab
      <3>1. shown = [s EXCEPT !.drive_offset = drives, !.main_tab = main]
        BY DEF normalizeDriveViewport
      <3>2. main = s.main_tab
        BY <2>1
      <3>3. drives \in Int
        <4>1. visible \in Int /\ Len(plan.drives) \in Int /\ s.focus.value \in Int
          BY <1>1, LayoutHasRows, PlanIsSound DEF Controls, Placed, ScreenAssumption
        <4> HIDE DEF visible
        <4> QED
          BY <1>1, <4>1 DEF Clamp, NotBelow
      <3> HIDE DEF drives, main
      <3> QED
        BY <1>1, <3>1, <3>2, <3>3 DEF Differs, Fields
    <2> HIDE DEF shown
    <2>3. shown.selected_drive = s.selected_drive /\ shown.main_tab = s.main_tab
      BY <2>2 DEF Differs, Fields
    <2>4. tab = s.main_tab
      <3>1. visibleTabCount(shown) = n
        BY <2>3, SameDrive
      <3> HIDE DEF n
      <3> QED
        BY <2>1, <2>3, <3>1 DEF Clamp
    <2> HIDE DEF tab, n
    <2>5. Differs(s, tabbed, {"drive_offset"}) /\ tabbed.drive_offset \in Int
      BY <2>2, <2>3, <2>4 DEF Differs, Fields
    <2>6. d = [tabbed EXCEPT !.content_offsets[tab] = Clamp(@, 0, most), !.job_offset = job]
      <3>1. d = [tabbed EXCEPT !.content_offsets[tab] = Clamp(@, 0, most),
                    !.job_offset = IF s.bottom_tab = 1
                                   THEN Clamp(@, 0, NotBelow(0, Len(s.jobs) - s.layout.bottom_rows))
                                   ELSE @]
        BY <1>3 DEF drawDemo, shown, tab
      <3>2. tabbed.job_offset = s.job_offset
        BY <2>5 DEF Differs, Fields
      <3> HIDE DEF tabbed, most
      <3> QED
        BY <3>1, <3>2
    <2>7. most = maxContentOffset(s) /\ most \in Nat
      <3>1. /\ tabbed.selected_drive = s.selected_drive /\ tabbed.main_tab = s.main_tab
            /\ tabbed.layout = s.layout
        BY <2>5 DEF Differs, Fields
      <3>2. most = maxContentOffset(s)
        BY <3>1, SamePanel
      <3>3. maxContentOffset(s) \in Nat
        BY <1>1, PanelHasHeight
      <3> QED
        BY <3>2, <3>3
    <2> HIDE DEF tabbed, most
    <2>8. /\ X \in Offsets /\ X[tab] = offset /\ offset \in Int /\ job \in Int
          /\ s.content_offsets[tab] \in Int
      <3>1. /\ tab \in 0..(Len(plan.features) - 1) /\ Len(s.jobs) \in Int
            /\ s.layout.bottom_rows \in Int
        BY <1>1, <2>1, <2>4, LayoutHasRows DEF Placed
      <3>2. s.content_offsets[tab] \in Int
        BY <1>1, <3>1 DEF Offsets
      <3>3. offset \in Int
        BY <2>7, <3>2 DEF Clamp
      <3>4. job \in Int
        BY <1>1, <3>1 DEF Clamp, NotBelow
      <3> HIDE DEF offset
      <3> QED
        BY <1>1, <3>1, <3>2, <3>3, <3>4 DEF Offsets
    <2>9. d = [tabbed EXCEPT !.content_offsets = X, !.job_offset = job]
      <3>1. tabbed.content_offsets = s.content_offsets
        BY <2>5 DEF Differs, Fields
      <3> HIDE DEF job
      <3> QED
        BY <2>6, <3>1
    <2> HIDE DEF X, offset, job
    <2>10. /\ Differs(s, d, {"drive_offset", "content_offsets", "job_offset"})
           /\ d.drive_offset \in Int /\ d.content_offsets = X /\ d.job_offset = job
      BY <2>5, <2>9 DEF Differs, Fields
    <2>11. Sound(d)
      <3>1. /\ d.selected_drive = s.selected_drive /\ d.main_tab = s.main_tab
            /\ d.option = s.option /\ d.bottom_tab = s.bottom_tab /\ d.mode = s.mode
            /\ d.focus = s.focus /\ d.dialog = s.dialog /\ d.choice = s.choice
            /\ d.return = s.return /\ d.jobs = s.jobs /\ d.layout = s.layout /\ DOMAIN d = Fields
        BY <2>10 DEF Differs, Fields
      <3> HIDE DEF tab
      <3>2. /\ Placed(d) /\ Supported(d) /\ d.option \in [DOMAIN plan.catalog -> Int]
            /\ \A mode, focus : InPlace(d, mode, focus) <=> InPlace(s, mode, focus)
            /\ selectedFeature(d) = selectedFeature(s) /\ Drive(d) = Drive(s)
        BY <3>1, SameChoices
      <3>3. Typed(d)
        BY <2>8, <2>10, <3>1, <3>2 DEF Typed, Sound
      <3>4. Asked(d)
        BY <3>1, <3>2 DEF Asked, Sound
      <3> QED
        BY <3>2, <3>3, <3>4 DEF Sound
    <2>12. d.main_tab = tab
      BY <2>4, <2>10 DEF Differs, Fields
    <2>13. Clamp(s.content_offsets[s.main_tab], 0, maxContentOffset(s)) = s.content_offsets[s.main_tab]
              => d.content_offsets[d.main_tab] = s.content_offsets[s.main_tab]
      BY <2>4, <2>7, <2>8, <2>10, <2>12 DEF offset
    <2> QED
      BY <1>3, <2>10, <2>11, <2>13
  <1> QED
    BY <1>2, <1>3

-----------------------------------------------------------------------------
(* The focus, when the loop has drawn. *)

\* What a state may change without changing what is chosen, and stay sound.
LEMMA StaysSound ==
    ASSUME NEW s, Sound(s), NEW t, DOMAIN t = Fields,
           t.selected_drive = s.selected_drive, t.main_tab = s.main_tab, t.option = s.option,
           t.layout \in Layouts, t.drive_offset \in Int, t.job_offset \in Int,
           t.bottom_tab \in {0, 1}, t.content_offsets \in Offsets, t.mode \in Modes,
           t.focus \in Controls, t.dialog \in Dialogs, t.choice \in {"Cancel", "Confirm"},
           t.return \in [mode : Modes, focus : Controls], t.jobs \in Seq(JobType),
           t.dialog = "None" => InPlace(s, t.mode, t.focus),
           t.dialog # "None" =>
              InPlace(s, t.return.mode, t.return.focus)
              /\ t.focus = Control(IF t.dialog = "Settings" THEN "CloseSettings" ELSE t.choice, 0),
           t.dialog = "Workflow" =>
              t.return.mode = "FeaturePanel" /\ selectedFeature(s) # "Overview" /\ ~Drive(s).protected
    PROVE  Sound(t)
  <1>1. /\ Placed(t) /\ Supported(t) /\ t.option \in [DOMAIN plan.catalog -> Int]
        /\ \A mode, focus : InPlace(t, mode, focus) <=> InPlace(s, mode, focus)
        /\ selectedFeature(t) = selectedFeature(s) /\ Drive(t) = Drive(s)
    BY SameChoices
  <1>2. Typed(t)
    BY <1>1 DEF Typed
  <1>3. Asked(t)
    BY <1>1 DEF Asked
  <1> QED
    BY <1>1, <1>2, <1>3 DEF Sound

\* Without a dialog: what is in view, the jobs, and the focus if it is in place.
PlainFields ==
    {"drive_offset", "bottom_tab", "job_offset", "content_offsets", "mode", "focus", "jobs"}

LEMMA StaysInPlace ==
    ASSUME NEW s, Sound(s), s.dialog = "None", NEW t, Differs(s, t, PlainFields),
           t.drive_offset \in Int, t.job_offset \in Int, t.bottom_tab \in {0, 1},
           t.content_offsets \in Offsets, t.mode \in Modes, t.focus \in Controls,
           t.jobs \in Seq(JobType), InPlace(s, t.mode, t.focus)
    PROVE  Sound(t)
  <1>1. /\ t.selected_drive = s.selected_drive /\ t.main_tab = s.main_tab /\ t.option = s.option
        /\ t.dialog = s.dialog /\ t.choice = s.choice /\ t.return = s.return
        /\ t.layout = s.layout /\ DOMAIN t = Fields
    BY DEF Differs, Fields, PlainFields
  <1>2. /\ s.layout \in Layouts /\ s.choice \in {"Cancel", "Confirm"} /\ s.dialog \in Dialogs
        /\ s.return \in [mode : Modes, focus : Controls]
    BY DEF Sound, Typed
  <1> QED
    BY <1>1, <1>2, StaysSound

\* Whatever the dialog: the jobs, the size of the terminal and what is in view.
ViewFields == {"drive_offset", "job_offset", "content_offsets", "jobs", "layout"}

LEMMA StaysAsked ==
    ASSUME NEW s, Sound(s), NEW t, Differs(s, t, ViewFields),
           t.drive_offset \in Int, t.job_offset \in Int, t.content_offsets \in Offsets,
           t.jobs \in Seq(JobType), t.layout \in Layouts
    PROVE  Sound(t)
  <1>1. /\ t.selected_drive = s.selected_drive /\ t.main_tab = s.main_tab /\ t.option = s.option
        /\ t.dialog = s.dialog /\ t.choice = s.choice /\ t.return = s.return
        /\ t.mode = s.mode /\ t.focus = s.focus /\ t.bottom_tab = s.bottom_tab /\ DOMAIN t = Fields
    BY DEF Differs, Fields, ViewFields
  <1>2. /\ s.choice \in {"Cancel", "Confirm"} /\ s.dialog \in Dialogs /\ s.mode \in Modes
        /\ s.return \in [mode : Modes, focus : Controls] /\ s.focus \in Controls
        /\ s.bottom_tab \in {0, 1}
    BY DEF Sound, Typed
  <1>3. /\ s.dialog = "None" => InPlace(s, s.mode, s.focus)
        /\ s.dialog # "None" =>
              /\ InPlace(s, s.return.mode, s.return.focus)
              /\ s.focus = Control(IF s.dialog = "Settings" THEN "CloseSettings" ELSE s.choice, 0)
        /\ s.dialog = "Workflow" =>
              s.return.mode = "FeaturePanel" /\ selectedFeature(s) # "Overview" /\ ~Drive(s).protected
    BY DEF Sound, Asked
  <1> QED
    BY <1>1, <1>2, <1>3, StaysSound

\* Without a dialog the tab of the panel, "Scan" and what is in view of the panel are shown.
LEMMA TabsAreShown ==
    ASSUME NEW s, Placed(s), s.dialog = "None", s.layout.valid
    PROVE  /\ Control("MainTab", s.main_tab) \in Hits(s)
           /\ Control("Scan", 0) \in Hits(s)
           /\ PanelHits(s) \subseteq Hits(s)
  <1>1. Hits(s) = MainHits(s)
    BY DEF Hits
  <1>2. Control("MainTab", s.main_tab) \in ToSet(MainTabs(s))
    <2> DEFINE n == visibleTabCount(s)
               tab == s.main_tab
               tabs == [i \in 1..n |-> Control("MainTab", i - 1)]
    <2>1. n \in Nat /\ tab \in 0..(n - 1)
      BY TabHasFeature DEF Placed
    <2>2. MainTabs(s) = tabs
      BY DEF MainTabs
    <2> HIDE DEF n, tab
    <2> DEFINE k == tab + 1
    <2>3. k \in 1..n /\ k - 1 = tab
      BY <2>1
    <2> HIDE DEF k
    <2>4. \A i \in 1..n : tabs[i] = Control("MainTab", i - 1)
      OBVIOUS
    <2>5. DOMAIN tabs = 1..n
      OBVIOUS
    <2> HIDE DEF tabs
    <2>6. Control("MainTab", tab) \in ToSet(tabs)
      BY <2>3, <2>4, <2>5 DEF ToSet
    <2> QED
      BY <2>2, <2>6 DEF tab
  <1> QED
    BY <1>1, <1>2 DEF MainHits

\* The answer that has the focus in a dialog is on the screen.
LEMMA AnswerIsShown ==
    ASSUME NEW s, Sound(s), s.dialog # "None", s.layout.valid
    PROVE  s.focus \in Hits(s)
  <1>1. s.focus = Control(IF s.dialog = "Settings" THEN "CloseSettings" ELSE s.choice, 0)
        /\ s.choice \in {"Cancel", "Confirm"}
    BY DEF Sound, Asked, Typed
  <1>2. Hits(s) = DialogHits(s)
    BY DEF Hits
  <1> QED
    BY <1>1, <1>2 DEF DialogHits

\* A focus that the drawing shows stays where it is.
LEMMA ShownStays ==
    ASSUME NEW s, NEW d, d = drawDemo(s), ~d.layout.valid \/ d.focus \in Hits(d) \/ d.dialog # "None"
    PROVE  Settled(s) = d
  <1>1. normalizeFocusAfterDraw(d) = d
    BY DEF normalizeFocusAfterDraw
  <1> QED
    BY <1>1 DEF Settled

LEMMA DiffersTwice ==
    ASSUME NEW s, NEW t, NEW u, NEW A, NEW B, Differs(s, t, A), Differs(t, u, B)
    PROVE  \A C : A \subseteq C /\ B \subseteq C => Differs(s, u, C)
  BY DEF Differs

\* What the loop draws before it waits is sound, and shows the focus.
LEMMA SettledIsVisible ==
    ASSUME NEW s, Sound(s), NEW r, r = Settled(s)
    PROVE  /\ Sound(r)
           /\ Differs(s, r, {"drive_offset", "content_offsets", "job_offset", "focus"})
           /\ r.layout.valid => r.focus \in Hits(r)
  <1> DEFINE d == drawDemo(s)
             n == normalizeFocusAfterDraw(d)
             Moved == {"drive_offset", "content_offsets", "job_offset"}
             onTab == [d EXCEPT !.focus = Control("MainTab", d.main_tab)]
             onScan == [d EXCEPT !.focus = Control("Scan", 0)]
             scrolled == ensureFeatureFocusVisible(d, d.focus)
  <1>1. Differs(s, d, Moved) /\ Sound(d)
    BY DrawingPutsInOrder
  <1>2. n = IF ~d.layout.valid \/ d.focus \in Hits(d) \/ d.dialog # "None" THEN d
            ELSE IF d.mode = "FeaturePanel" /\ scrolled # d THEN scrolled
            ELSE IF d.mode \in {"FeaturePanel", "DriveTabs"} THEN onTab
            ELSE onScan
    BY DEF normalizeFocusAfterDraw
  <1>3. r = IF n = d THEN d ELSE drawDemo(n)
    BY DEF Settled
  <1> HIDE DEF d, n
  <1>4. /\ DOMAIN d = Fields /\ Placed(d) /\ d.layout \in Layouts /\ d.content_offsets \in Offsets
        /\ d.drive_offset \in Int /\ d.job_offset \in Int /\ d.bottom_tab \in {0, 1}
        /\ d.mode \in Modes /\ d.focus \in Controls /\ d.jobs \in Seq(JobType)
    BY <1>1 DEF Sound, Typed
  <1>5. CASE ~d.layout.valid \/ d.focus \in Hits(d) \/ d.dialog # "None"
    <2>1. r = d
      BY <1>2, <1>3, <1>5
    <2>2. d.layout.valid => d.focus \in Hits(d)
      BY <1>1, <1>5, AnswerIsShown
    <2> QED
      BY <1>1, <2>1, <2>2 DEF Differs
  <1>6. CASE ~(~d.layout.valid \/ d.focus \in Hits(d) \/ d.dialog # "None")
    <2>1. CASE d.mode = "FeaturePanel" /\ scrolled # d
      <3>1. n = scrolled /\ n # d /\ r = drawDemo(n)
        BY <1>2, <1>3, <1>6, <2>1
      <3>2. d.focus.kind # "MainTab"
        BY <2>1 DEF ensureFeatureFocusVisible
      <3>3. d.focus \in ToSet(featureTargets(d))
        <4>1. d.focus \in ToSet(featureTargets(d)) \cup {Control("MainTab", d.main_tab)}
          BY <1>1, <1>6, <2>1 DEF Sound, Asked, InPlace
        <4> QED
          BY <3>2, <4>1, ControlsAre
      <3>4. /\ Differs(d, n, {"content_offsets"}) /\ n.content_offsets \in Offsets
            /\ d.focus \in PanelHits(n)
            /\ Clamp(n.content_offsets[n.main_tab], 0, maxContentOffset(n)) = n.content_offsets[n.main_tab]
        BY <1>4, <3>1, <3>2, <3>3, ScrollingShows
      <3>5. Sound(n)
        <4>1. /\ n.drive_offset = d.drive_offset /\ n.job_offset = d.job_offset
              /\ n.jobs = d.jobs /\ n.layout = d.layout /\ Differs(d, n, ViewFields)
          BY <3>4 DEF Differs, Fields, ViewFields
        <4> QED
          BY <1>1, <1>4, <3>4, <4>1, StaysAsked
      <3>6. /\ Differs(n, r, Moved) /\ Sound(r)
            /\ r.content_offsets[r.main_tab] = n.content_offsets[n.main_tab]
        BY <3>1, <3>4, <3>5, DrawingPutsInOrder
      <3>7. /\ r.selected_drive = n.selected_drive /\ r.main_tab = n.main_tab
            /\ r.layout = n.layout /\ r.focus = n.focus /\ r.dialog = n.dialog
            /\ n.layout = d.layout /\ n.focus = d.focus /\ n.dialog = d.dialog
        BY <3>4, <3>6 DEF Differs, Fields
      <3>8. PanelHits(r) = PanelHits(n)
        BY <3>6, <3>7, SamePanel
      <3>9. r.focus \in Hits(r)
        <4>1. Placed(r) /\ r.dialog = "None" /\ r.layout.valid
          BY <1>6, <3>6, <3>7 DEF Sound, Typed
        <4> QED
          BY <3>4, <3>7, <3>8, <4>1, TabsAreShown
      <3>10. Differs(d, r, Moved)
        BY <3>4, <3>6, DiffersTwice
      <3> QED
        BY <1>1, <3>6, <3>9, <3>10, DiffersTwice
    <2>2. CASE ~(d.mode = "FeaturePanel" /\ scrolled # d)
      <3>1. /\ n = onTab \/ n = onScan
            /\ d.mode \in {"FeaturePanel", "DriveTabs"} => n = onTab
        BY <1>2, <1>6, <2>2
      <3>2. onTab.focus = Control("MainTab", d.main_tab) /\ Differs(d, onTab, {"focus"})
        BY <1>4 DEF Differs, Fields
      <3>3. onScan.focus = Control("Scan", 0) /\ Differs(d, onScan, {"focus"})
        BY <1>4 DEF Differs, Fields
      <3> HIDE DEF onTab, onScan, scrolled
      <3>4. /\ Differs(d, n, {"focus"}) /\ n.focus \in {Control("MainTab", d.main_tab), Control("Scan", 0)}
            /\ InPlace(d, d.mode, n.focus)
        BY <3>1, <3>2, <3>3 DEF InPlace
      <3>5. /\ n.main_tab = d.main_tab /\ n.layout = d.layout /\ n.dialog = d.dialog
            /\ n.drive_offset = d.drive_offset /\ n.job_offset = d.job_offset /\ n.mode = d.mode
            /\ n.bottom_tab = d.bottom_tab /\ n.jobs = d.jobs /\ n.content_offsets = d.content_offsets
            /\ Differs(d, n, PlainFields)
        BY <3>4 DEF Differs, Fields, PlainFields
      <3>6. n.focus \in Controls
        <4>1. d.main_tab \in Int /\ "MainTab" \in Kinds /\ "Scan" \in Kinds
          BY <1>4, TabHasFeature DEF Placed, Kinds
        <4> QED
          BY <3>4, <4>1, ControlsAre
      <3>7. Sound(n)
        BY <1>1, <1>4, <1>6, <3>4, <3>5, <3>6, StaysInPlace
      <3>8. n # d
        <4>1. Placed(n) /\ n.dialog = "None" /\ n.layout.valid
          BY <1>6, <3>5, <3>7 DEF Sound, Typed
        <4> QED
          BY <1>6, <3>4, <3>5, <4>1, TabsAreShown
      <3>9. Differs(n, r, Moved) /\ Sound(r)
        BY <1>3, <3>7, <3>8, DrawingPutsInOrder
      <3>10. /\ r.main_tab = n.main_tab /\ r.layout = n.layout /\ r.focus = n.focus
             /\ r.dialog = n.dialog
        BY <3>9 DEF Differs, Fields
      <3>11. r.focus \in Hits(r)
        <4>1. Placed(r) /\ r.dialog = "None" /\ r.layout.valid
          BY <1>6, <3>5, <3>9, <3>10 DEF Sound, Typed
        <4> QED
          BY <3>4, <3>5, <3>10, <4>1, TabsAreShown
      <3>12. Differs(d, r, Moved \cup {"focus"})
        BY <3>4, <3>9, DiffersTwice
      <3> QED
        BY <1>1, <3>9, <3>11, <3>12, DiffersTwice
    <2> QED
      BY <2>1, <2>2
  <1> QED
    BY <1>5, <1>6

-----------------------------------------------------------------------------
(* The jobs. *)

JobStates == {"Queued", "Running", "Paused", "Ended"}

\* What happens to a job when a drive becomes free: nothing, or it starts.
Starts(before, after) ==
    after = before \/ (before.state = "Queued" /\ after.state = "Running")

LEMMA JobsAre ==
    ASSUME NEW jobs \in Seq(JobType)
    PROVE  /\ Len(jobs) \in Nat /\ DOMAIN jobs = 1..Len(jobs)
           /\ \A i \in 1..Len(jobs) : jobs[i] \in JobType
  <1> DEFINE J == JobType
  <1>1. jobs \in Seq(J)
    OBVIOUS
  <1> HIDE DEF J
  <1> QED
    BY <1>1 DEF J

LEMMA JobInState ==
    ASSUME NEW job \in JobType, NEW state \in JobStates
    PROVE  /\ [job EXCEPT !.state = state] \in JobType
           /\ [job EXCEPT !.state = state].state = state
  BY DEF JobType, JobStates

\* As many jobs, and each the same or started.
LEMMA ServedStarts ==
    ASSUME NEW jobs \in Seq(JobType)
    PROVE  /\ Served(jobs) \in Seq(JobType) /\ Len(Served(jobs)) = Len(jobs)
           /\ \A i \in 1..Len(jobs) : Starts(jobs[i], Served(jobs)[i])
  <1> DEFINE n == Len(jobs)
             starts(i) == /\ jobs[i].state = "Queued"
                          /\ \A j \in DOMAIN jobs :
                                jobs[j].drive = jobs[i].drive
                                    => ~Active(jobs[j]) /\ (j > i => jobs[j].state # "Queued")
             started(i) == [jobs[i] EXCEPT !.state = "Running"]
             served == [i \in 1..n |-> IF starts(i) THEN started(i) ELSE jobs[i]]
  <1>1. n \in Nat /\ DOMAIN jobs = 1..n /\ \A i \in 1..n : jobs[i] \in JobType
    BY JobsAre
  <1>2. Served(jobs) = served
    BY <1>1 DEF Served
  <1>3. \A i \in 1..n : started(i) \in JobType /\ started(i).state = "Running"
    BY <1>1, JobInState DEF JobStates
  <1>4. \A i \in 1..n : starts(i) => jobs[i].state = "Queued"
    OBVIOUS
  <1> HIDE DEF starts, started, n
  <1>5. \A i \in 1..n : served[i] = IF starts(i) THEN started(i) ELSE jobs[i]
    OBVIOUS
  <1>6. DOMAIN served = 1..n
    OBVIOUS
  <1>7. served \in [1..n -> JobType]
    <2>1. \A i \in 1..n : (IF starts(i) THEN started(i) ELSE jobs[i]) \in JobType
      BY <1>1, <1>3
    <2> QED
      BY <2>1
  <1>8. Len(served) = n /\ served \in Seq(JobType)
    <2> DEFINE J == JobType
    <2>1. served \in [1..n -> J]
      BY <1>7
    <2> HIDE DEF J, served
    <2>2. served \in Seq(J)
      BY <1>1, <2>1, SeqDef
    <2>3. Len(served) = n
      BY <1>1, <1>6, <2>2, LenProperties
    <2> QED
      BY <2>2, <2>3 DEF J
  <1>9. \A i \in 1..n : Starts(jobs[i], served[i])
    BY <1>3, <1>4, <1>5 DEF Starts
  <1> HIDE DEF served
  <1> QED
    BY <1>2, <1>8, <1>9 DEF n

\* The chosen jobs come to the state, whatever the queue then starts.
LEMMA InStateChanges ==
    ASSUME NEW jobs \in Seq(JobType), NEW chosen, NEW state \in JobStates \ {"Queued"}
    PROVE  /\ InState(jobs, chosen, state) \in Seq(JobType)
           /\ Len(InState(jobs, chosen, state)) = Len(jobs)
           /\ \A i \in 1..Len(jobs) :
                 i \notin chosen => Starts(jobs[i], InState(jobs, chosen, state)[i])
           /\ \A i \in 1..Len(jobs) :
                 i \in chosen => InState(jobs, chosen, state)[i].state = state
  <1> DEFINE n == Len(jobs)
             put(i) == [jobs[i] EXCEPT !.state = state]
             changed == [i \in 1..n |-> IF i \in chosen THEN put(i) ELSE jobs[i]]
  <1>1. n \in Nat /\ DOMAIN jobs = 1..n /\ \A i \in 1..n : jobs[i] \in JobType
    BY JobsAre
  <1>2. InState(jobs, chosen, state) = Served(changed)
    BY <1>1 DEF InState
  <1>3. \A i \in 1..n : put(i) \in JobType /\ put(i).state = state
    BY <1>1, JobInState
  <1> HIDE DEF put, n
  <1>4. \A i \in 1..n : changed[i] = IF i \in chosen THEN put(i) ELSE jobs[i]
    OBVIOUS
  <1>5. DOMAIN changed = 1..n
    OBVIOUS
  <1>6. changed \in [1..n -> JobType]
    <2>1. \A i \in 1..n : (IF i \in chosen THEN put(i) ELSE jobs[i]) \in JobType
      BY <1>1, <1>3
    <2> QED
      BY <2>1
  <1>7. Len(changed) = n /\ changed \in Seq(JobType)
    <2> DEFINE J == JobType
    <2>1. changed \in [1..n -> J]
      BY <1>6
    <2> HIDE DEF J, changed
    <2>2. changed \in Seq(J)
      BY <1>1, <2>1, SeqDef
    <2>3. Len(changed) = n
      BY <1>1, <1>5, <2>2, LenProperties
    <2> QED
      BY <2>2, <2>3 DEF J
  <1> HIDE DEF changed
  <1>8. /\ Served(changed) \in Seq(JobType) /\ Len(Served(changed)) = n
        /\ \A i \in 1..n : Starts(changed[i], Served(changed)[i])
    BY <1>7, ServedStarts
  <1>9. \A i \in 1..n : i \notin chosen => Starts(jobs[i], Served(changed)[i])
    BY <1>4, <1>8
  <1>10. \A i \in 1..n : i \in chosen => Served(changed)[i].state = state
    BY <1>3, <1>4, <1>8 DEF Starts
  <1> QED
    BY <1>2, <1>8, <1>9, <1>10 DEF n

LEMMA RefreshKeepsSound ==
    ASSUME NEW s, Sound(s), NEW jobs \in Seq(JobType), NEW t, t = refreshCoreState(s, jobs)
    PROVE  Sound(t) /\ t.jobs = jobs /\ Differs(s, t, {"jobs", "job_offset"}) /\ t.job_offset \in Int
  <1> DEFINE offset == Clamp(s.job_offset, 0, NotBelow(0, Len(jobs) - 1))
  <1>1. /\ DOMAIN s = Fields /\ s.job_offset \in Int /\ s.drive_offset \in Int
        /\ s.content_offsets \in Offsets /\ s.layout \in Layouts
    BY DEF Sound, Typed
  <1>2. offset \in Int
    BY <1>1, JobsAre DEF Clamp, NotBelow
  <1>3. t = [s EXCEPT !.jobs = jobs, !.job_offset = offset]
    BY DEF refreshCoreState
  <1> HIDE DEF offset
  <1>4. Differs(s, t, {"jobs", "job_offset"}) /\ t.jobs = jobs /\ t.job_offset = offset
    BY <1>1, <1>3 DEF Differs, Fields
  <1>5. /\ Differs(s, t, ViewFields) /\ t.drive_offset = s.drive_offset
        /\ t.content_offsets = s.content_offsets /\ t.layout = s.layout
    BY <1>4 DEF Differs, Fields, ViewFields
  <1>6. Sound(t)
    BY <1>1, <1>2, <1>4, <1>5, StaysAsked
  <1> QED
    BY <1>2, <1>4, <1>6

-----------------------------------------------------------------------------
(* The handlers, without a dialog: the state stays sound, and most leave the jobs alone. *)

\* A handler that keeps the state sound, and has nothing to do with the jobs.
Steady(s, t) == Sound(t) /\ t.jobs = s.jobs

Free(s) == Sound(s) /\ s.dialog = "None"

LEMMA FreeHas ==
    ASSUME NEW s, Free(s)
    PROVE  /\ Sound(s) /\ s.dialog = "None" /\ DOMAIN s = Fields /\ Placed(s)
           /\ s.drive_offset \in Int /\ s.job_offset \in Int /\ s.bottom_tab \in {0, 1}
           /\ s.content_offsets \in Offsets /\ s.mode \in Modes /\ s.focus \in Controls
           /\ s.focus.value \in Int
           /\ s.jobs \in Seq(JobType) /\ Len(s.jobs) \in Nat /\ s.layout \in Layouts
           /\ s.layout.visible_drives \in Nat /\ s.layout.bottom_rows \in Nat
           /\ InPlace(s, s.mode, s.focus)
           /\ Len(plan.drives) \in Nat /\ LastDrive \in Nat /\ s.selected_drive \in 0..LastDrive
           /\ s.main_tab \in 0..(visibleTabCount(s) - 1) /\ visibleTabCount(s) \in Nat
           /\ s.main_tab \in 0..(Len(plan.features) - 1) /\ s.main_tab \in Int
  <1>1. /\ Sound(s) /\ s.dialog = "None" /\ DOMAIN s = Fields /\ Placed(s)
        /\ s.drive_offset \in Int /\ s.job_offset \in Int /\ s.bottom_tab \in {0, 1}
        /\ s.content_offsets \in Offsets /\ s.mode \in Modes /\ s.focus \in Controls
        /\ s.jobs \in Seq(JobType) /\ s.layout \in Layouts
    BY DEF Free, Sound, Typed
  <1>2. InPlace(s, s.mode, s.focus)
    BY DEF Free, Sound, Asked
  <1>3. s.focus.value \in Int
    BY <1>1 DEF Controls
  <1>4. Len(s.jobs) \in Nat
    BY <1>1, JobsAre
  <1>5. s.layout.visible_drives \in Nat /\ s.layout.bottom_rows \in Nat
    BY <1>1, LayoutHasRows DEF Placed
  <1>6. Len(plan.drives) \in Nat /\ Len(plan.drives) # 0
    <2> DEFINE D == [protected : BOOLEAN, hdd : BOOLEAN]
    <2>1. plan.drives \in Seq(D) \ {<<>>}
      BY <1>1, PlanIsSound DEF Placed, ScreenAssumption
    <2> HIDE DEF D
    <2> QED
      BY <2>1, EmptySeq
  <1>7. LastDrive \in Nat
    BY <1>6 DEF LastDrive
  <1>8. /\ s.main_tab \in 0..(visibleTabCount(s) - 1) /\ visibleTabCount(s) \in Nat
        /\ s.main_tab \in 0..(Len(plan.features) - 1) /\ s.selected_drive \in 0..LastDrive
    BY <1>1, TabHasFeature DEF Placed
  <1>9. s.main_tab \in Int
    BY <1>8
  <1> QED
    BY <1>1, <1>2, <1>3, <1>4, <1>5, <1>6, <1>7, <1>8, <1>9

\* A move of the focus to where it may be.
LEMMA FocusMoves ==
    ASSUME NEW s, Free(s), NEW t, Differs(s, t, {"mode", "focus"}), t.mode \in Modes,
           t.focus \in Controls, InPlace(s, t.mode, t.focus)
    PROVE  Free(t) /\ Steady(s, t)
  <1>1. /\ Differs(s, t, PlainFields) /\ t.drive_offset = s.drive_offset
        /\ t.job_offset = s.job_offset /\ t.bottom_tab = s.bottom_tab
        /\ t.content_offsets = s.content_offsets /\ t.jobs = s.jobs /\ t.dialog = s.dialog
    BY DEF Differs, Fields, PlainFields
  <1>2. Sound(t)
    BY <1>1, FreeHas, StaysInPlace
  <1> QED
    BY <1>1, <1>2, FreeHas DEF Free, Steady

\* In the list every focus is in place.
LEMMA ListFocusMoves ==
    ASSUME NEW s, Free(s), NEW control \in Controls, NEW t,
           \/ t = [s EXCEPT !.mode = "DriveList", !.focus = control]
           \/ t = [s EXCEPT !.focus = control] /\ s.mode # "FeaturePanel"
    PROVE  Free(t) /\ Steady(s, t) /\ t.mode # "FeaturePanel"
           /\ Differs(s, t, {"mode", "focus"})
  <1>1. DOMAIN s = Fields /\ s.mode \in Modes
    BY FreeHas
  <1>2. Differs(s, t, {"mode", "focus"}) /\ t.focus = control /\ t.mode \in {"DriveList", s.mode}
        /\ t.mode # "FeaturePanel"
    BY <1>1 DEF Differs, Fields
  <1>3. t.mode \in Modes /\ InPlace(s, t.mode, t.focus)
    BY <1>1, <1>2 DEF Modes, InPlace
  <1> QED
    BY <1>2, <1>3, FocusMoves

\* The other tab of the drive.
LEMMA TabMoves ==
    ASSUME NEW s, Free(s), NEW t, Differs(s, t, {"mode", "main_tab", "focus"}),
           t.main_tab \in 0..(visibleTabCount(s) - 1), t.focus \in Controls, t.mode \in Modes,
           t.mode # "FeaturePanel"
    PROVE  Free(t) /\ Steady(s, t)
  <1>1. /\ DOMAIN s = Fields /\ Placed(s) /\ Sound(s) /\ s.dialog = "None"
    BY FreeHas
  <1>2. /\ t.selected_drive = s.selected_drive /\ t.drive_offset = s.drive_offset
        /\ t.job_offset = s.job_offset /\ t.bottom_tab = s.bottom_tab
        /\ t.content_offsets = s.content_offsets /\ t.option = s.option /\ t.dialog = s.dialog
        /\ t.choice = s.choice /\ t.return = s.return /\ t.jobs = s.jobs /\ t.layout = s.layout
        /\ DOMAIN t = Fields
    BY DEF Differs, Fields
  <1>3. Placed(t)
    BY <1>1, <1>2, SameDrive DEF Placed
  <1>4. Typed(t)
    BY <1>1, <1>2, <1>3 DEF Sound, Typed
  <1>5. Supported(t)
    BY <1>1, <1>2, SameDrive DEF Sound, Supported
  <1>6. Asked(t)
    BY <1>1, <1>2 DEF Asked, InPlace
  <1> QED
    BY <1>1, <1>2, <1>4, <1>5, <1>6 DEF Sound, Free, Steady

LEMMA OnTabKeeps ==
    ASSUME NEW s, Free(s), NEW tab \in 0..(visibleTabCount(s) - 1), NEW t, t = OnTab(s, tab)
    PROVE  Free(t) /\ Steady(s, t)
  <1>1. DOMAIN s = Fields /\ visibleTabCount(s) \in Nat
    BY FreeHas
  <1>2. tab \in Int
    BY <1>1
  <1>3. /\ Differs(s, t, {"mode", "main_tab", "focus"}) /\ t.mode = "DriveTabs"
        /\ t.main_tab = tab /\ t.focus = Control("MainTab", tab)
    BY <1>1 DEF OnTab, Differs, Fields
  <1>4. t.focus \in Controls /\ t.mode \in Modes
    BY <1>2, <1>3, ControlsAre DEF Kinds, Modes
  <1> QED
    BY <1>3, <1>4, TabMoves

LEMMA TabKeysKeep ==
    ASSUME NEW s, Free(s)
    PROVE  /\ \A delta \in {-1, 1} :
                 Free(moveFeatureTab(s, delta)) /\ Steady(s, moveFeatureTab(s, delta))
           /\ \A f : Free(selectFeatureShortcut(s, f)) /\ Steady(s, selectFeatureShortcut(s, f))
  <1> DEFINE n == visibleTabCount(s)
  <1>1. n \in Nat /\ s.main_tab \in 0..(n - 1)
    BY FreeHas
  <1>2. ASSUME NEW delta \in {-1, 1}
        PROVE  Free(moveFeatureTab(s, delta)) /\ Steady(s, moveFeatureTab(s, delta))
    <2> DEFINE moved == (s.main_tab + delta + n) % n
    <2>1. moved \in 0..(n - 1)
      <3> DEFINE x == s.main_tab + delta + n
      <3>1. x \in Int /\ n \in Nat /\ n >= 1
        BY <1>1
      <3> HIDE DEF x, n
      <3>2. (x % n) \in 0..(n - 1)
        BY <3>1
      <3> QED
        BY <3>2 DEF x, n
    <2>2. moveFeatureTab(s, delta) = OnTab(s, moved)
      BY DEF moveFeatureTab
    <2> HIDE DEF moved
    <2> QED
      BY <2>1, <2>2, OnTabKeeps
  <1>3. ASSUME NEW f
        PROVE  Free(selectFeatureShortcut(s, f)) /\ Steady(s, selectFeatureShortcut(s, f))
    <2> DEFINE tabs == {tab \in 0..(n - 1) : plan.features[tab + 1] = f}
               tab == CHOOSE tab \in tabs : TRUE
    <2>1. CASE tabs = {}
      <3>1. selectFeatureShortcut(s, f) = s
        BY <2>1 DEF selectFeatureShortcut
      <3> QED
        BY <3>1 DEF Steady, Free
    <2>2. CASE tabs # {}
      <3>1. selectFeatureShortcut(s, f) = OnTab(s, tab)
        BY <2>2 DEF selectFeatureShortcut
      <3>2. tab \in tabs
        BY <2>2
      <3>3. tab \in 0..(n - 1)
        BY <3>2
      <3> HIDE DEF tab, tabs
      <3> QED
        BY <3>1, <3>3, OnTabKeeps
    <2> QED
      BY <2>1, <2>2
  <1> QED
    BY <1>2, <1>3

LEMMA FocusKinds ==
    ASSUME NEW s, Placed(s), NEW control \in ToSet(featureTargets(s)) \cup {Control("MainTab", s.main_tab)}
    PROVE  control.kind \in Features \cup {"MainTab", "OpenWorkflow"}
  <1> DEFINE f == selectedFeature(s)
  <1>1. f \in Features
    BY TabHasFeature
  <1>2. CASE featureWorkflows(s, f) = <<>>
    BY <1>2, TargetsOfAPanel, ControlsAre
  <1>3. CASE featureWorkflows(s, f) # <<>>
    BY <1>1, <1>3, TargetsOfAPanel, ControlsAre
  <1> QED
    BY <1>2, <1>3

LEMMA ControlsInUse ==
    /\ \A kind \in {"Scan", "SelectDrive", "DriveUp", "DriveDown", "MainTab", "BottomTab", "BottomUp",
                    "BottomDown", "JobPrimary", "JobStop", "OpenWorkflow", "Settings", "Detach",
                    "CloseSettings", "Confirm", "Cancel"} :
          \A value \in Int : Control(kind, value) \in Controls
    /\ \A f \in Features : \A value \in Int : Control(f, value) \in Controls
  BY ControlsAre DEF Kinds

LEMMA DriveFocusKeeps ==
    ASSUME NEW s, Free(s), s.mode # "FeaturePanel", NEW delta \in {-1, 1}
    PROVE  Free(moveDriveFocus(s, delta)) /\ Steady(s, moveDriveFocus(s, delta))
  <1> DEFINE last == Clamp(s.drive_offset + s.layout.visible_drives - 1, -1, LastDrive)
             index == IF s.focus.kind = "SelectDrive" THEN s.focus.value + delta
                      ELSE IF delta > 0 THEN s.drive_offset ELSE last
             value == Clamp(index, 0, LastDrive)
  <1>1. /\ s.drive_offset \in Int /\ s.focus.value \in Int /\ LastDrive \in Int
        /\ s.layout.visible_drives \in Int
    BY FreeHas
  <1>2. last \in Int
    BY <1>1 DEF Clamp
  <1> HIDE DEF last
  <1>3. value \in Int
    BY <1>1, <1>2 DEF Clamp
  <1>4. moveDriveFocus(s, delta) = [s EXCEPT !.focus = Control("SelectDrive", value)]
    BY DEF moveDriveFocus, last
  <1> HIDE DEF index, value
  <1> QED
    BY <1>3, <1>4, ControlsInUse, ListFocusMoves

LEMMA ReturnKeeps ==
    ASSUME NEW s, Free(s)
    PROVE  Free(returnToDriveList(s)) /\ Steady(s, returnToDriveList(s))
  <1>1. s.selected_drive \in Int
    BY FreeHas
  <1>2. Control("SelectDrive", s.selected_drive) \in Controls
    BY <1>1, ControlsInUse
  <1>3. returnToDriveList(s) =
            [s EXCEPT !.mode = "DriveList", !.focus = Control("SelectDrive", s.selected_drive)]
    BY DEF returnToDriveList
  <1> QED
    BY <1>2, <1>3, ListFocusMoves

LEMMA ScrollBottomKeeps ==
    ASSUME NEW s, Free(s), NEW delta \in {-1, 1}, NEW t, t = scrollBottom(s, delta)
    PROVE  Free(t) /\ Steady(s, t)
  <1> DEFINE rows == s.layout.bottom_rows
             offset == Clamp(s.job_offset + delta, 0, NotBelow(0, Len(s.jobs) - rows))
             scrolled == [s EXCEPT !.job_offset = offset]
             tab == Control("BottomTab", s.bottom_tab)
             moved == [scrolled EXCEPT !.focus = tab]
             out == /\ s.focus.kind \in {"JobPrimary", "JobStop"}
                    /\ s.focus.value \notin offset..(offset + rows - 1)
  <1>1. t = IF s.bottom_tab = 0 THEN s ELSE IF out THEN moved ELSE scrolled
    BY DEF scrollBottom
  <1>2. offset \in Int
    <2>1. s.job_offset \in Int /\ Len(s.jobs) \in Int /\ rows \in Int
      BY FreeHas
    <2> HIDE DEF rows
    <2> QED
      BY <2>1 DEF Clamp, NotBelow
  <1>3. tab \in Controls
    BY FreeHas, ControlsInUse
  <1>4. out => s.mode # "FeaturePanel"
    <2>1. SUFFICES ASSUME out, s.mode = "FeaturePanel" PROVE FALSE
      OBVIOUS
    <2>2. s.focus \in ToSet(featureTargets(s)) \cup {Control("MainTab", s.main_tab)} /\ Placed(s)
      BY <2>1, FreeHas DEF InPlace
    <2>3. s.focus.kind \in Features \cup {"MainTab", "OpenWorkflow"}
      BY <2>2, FocusKinds
    <2> QED
      BY <2>1, <2>3 DEF Features
  <1> HIDE DEF offset, tab, out
  <1>5. /\ DOMAIN s = Fields /\ Differs(s, scrolled, {"job_offset"}) /\ scrolled.job_offset = offset
        /\ Differs(s, moved, {"job_offset", "focus"}) /\ moved.job_offset = offset
        /\ moved.focus = tab
    BY FreeHas DEF Differs, Fields
  <1> HIDE DEF scrolled, moved
  <1>6. CASE s.bottom_tab = 0
    BY <1>1, <1>6 DEF Free, Steady
  <1>7. CASE s.bottom_tab # 0 /\ out
    <2>1. /\ t = moved /\ Differs(s, t, PlainFields) /\ t.drive_offset = s.drive_offset
          /\ t.mode = s.mode /\ t.bottom_tab = s.bottom_tab
          /\ t.content_offsets = s.content_offsets /\ t.jobs = s.jobs /\ t.dialog = s.dialog
      BY <1>1, <1>5, <1>7 DEF Differs, Fields, PlainFields
    <2>2. t.focus \in Controls /\ t.job_offset \in Int /\ InPlace(s, t.mode, t.focus)
      BY <1>2, <1>3, <1>4, <1>5, <1>7, <2>1 DEF InPlace
    <2>3. Sound(t)
      BY <2>1, <2>2, FreeHas, StaysInPlace
    <2> QED
      BY <2>1, <2>3, FreeHas DEF Free, Steady
  <1>8. CASE s.bottom_tab # 0 /\ ~out
    <2>1. /\ t = scrolled /\ Differs(s, t, ViewFields) /\ t.drive_offset = s.drive_offset
          /\ t.layout = s.layout
          /\ t.content_offsets = s.content_offsets /\ t.jobs = s.jobs /\ t.dialog = s.dialog
      BY <1>1, <1>5, <1>8 DEF Differs, Fields, ViewFields
    <2>2. Sound(t)
      BY <1>2, <1>5, <2>1, FreeHas, StaysAsked
    <2> QED
      BY <2>1, <2>2, FreeHas DEF Free, Steady
  <1> QED
    BY <1>6, <1>7, <1>8

LEMMA ScrollDrivesKeeps ==
    ASSUME NEW s, Free(s), NEW delta \in {-1, 1}, NEW t, t = scrollDriveViewport(s, delta)
    PROVE  Free(t) /\ Steady(s, t)
  <1> DEFINE visible == s.layout.visible_drives
             offset == Clamp(s.drive_offset + delta, 0, NotBelow(0, Len(plan.drives) - visible))
             scrolled == [s EXCEPT !.drive_offset = offset]
             value == Clamp(s.focus.value, offset, offset + visible - 1)
             focus == [s.focus EXCEPT !.value = value]
             moved == [scrolled EXCEPT !.focus = focus]
  <1>1. /\ DOMAIN s = Fields /\ s.drive_offset \in Int /\ visible \in Int
        /\ Len(plan.drives) \in Int /\ s.focus.value \in Int /\ s.focus \in Controls
    BY FreeHas
  <1>2. Differs(s, scrolled, {"drive_offset"}) /\ scrolled.drive_offset = offset
    BY <1>1 DEF Differs, Fields
  <1>3. scrolled.focus = s.focus
    BY <1>2 DEF Differs, Fields
  <1>4. t = IF s.mode = "DriveList" /\ s.focus.kind = "SelectDrive"
            THEN [scrolled EXCEPT !.focus.value = Clamp(@, offset, offset + visible - 1)]
            ELSE scrolled
    BY DEF scrollDriveViewport
  <1> HIDE DEF scrolled, visible
  <1>5. offset \in Int
    BY <1>1 DEF Clamp, NotBelow
  <1> HIDE DEF offset
  <1>6. value \in Int
    BY <1>1, <1>5 DEF Clamp
  <1>7. t = IF s.mode = "DriveList" /\ s.focus.kind = "SelectDrive" THEN moved ELSE scrolled
    BY <1>3, <1>4
  <1> HIDE DEF value
  <1>8. focus \in Controls
    BY <1>1, <1>6 DEF Controls
  <1> HIDE DEF focus
  <1>9. Differs(s, moved, {"drive_offset", "focus"}) /\ moved.drive_offset = offset
        /\ moved.focus = focus
    BY <1>2 DEF Differs, Fields
  <1> HIDE DEF moved
  <1>10. CASE s.mode = "DriveList" /\ s.focus.kind = "SelectDrive"
    <2>1. /\ t = moved /\ Differs(s, t, PlainFields) /\ t.job_offset = s.job_offset
          /\ t.mode = s.mode /\ t.bottom_tab = s.bottom_tab
          /\ t.content_offsets = s.content_offsets /\ t.jobs = s.jobs /\ t.dialog = s.dialog
      BY <1>7, <1>9, <1>10 DEF Differs, Fields, PlainFields
    <2>2. t.focus \in Controls /\ t.drive_offset \in Int /\ InPlace(s, t.mode, t.focus)
      BY <1>5, <1>8, <1>9, <1>10, <2>1 DEF InPlace
    <2>3. Sound(t)
      BY <2>1, <2>2, FreeHas, StaysInPlace
    <2> QED
      BY <2>1, <2>3, FreeHas DEF Free, Steady
  <1>11. CASE ~(s.mode = "DriveList" /\ s.focus.kind = "SelectDrive")
    <2>1. /\ t = scrolled /\ Differs(s, t, ViewFields) /\ t.job_offset = s.job_offset
          /\ t.layout = s.layout
          /\ t.content_offsets = s.content_offsets /\ t.jobs = s.jobs /\ t.dialog = s.dialog
      BY <1>2, <1>7, <1>11 DEF Differs, Fields, ViewFields
    <2>2. Sound(t)
      BY <1>2, <1>5, <2>1, FreeHas, StaysAsked
    <2> QED
      BY <2>1, <2>2, FreeHas DEF Free, Steady
  <1> QED
    BY <1>10, <1>11

\* Another place in the panel of the tab.
LEMMA OffsetsMove ==
    ASSUME NEW s, Free(s), NEW t, Differs(s, t, {"content_offsets"}), t.content_offsets \in Offsets
    PROVE  Free(t) /\ Steady(s, t)
  <1>1. /\ Differs(s, t, ViewFields) /\ t.drive_offset = s.drive_offset /\ t.layout = s.layout
        /\ t.job_offset = s.job_offset /\ t.jobs = s.jobs /\ t.dialog = s.dialog
    BY DEF Differs, Fields, ViewFields
  <1>2. Sound(t)
    BY <1>1, FreeHas, StaysAsked
  <1> QED
    BY <1>1, <1>2, FreeHas DEF Free, Steady

LEMMA ScrollContentKeeps ==
    ASSUME NEW s, Free(s), NEW delta \in {-1, 1}, NEW t, t = scrollMainContent(s, delta)
    PROVE  Free(t) /\ Steady(s, t)
  <1> DEFINE tab == s.main_tab
             most == maxContentOffset(s)
             offset == Clamp(s.content_offsets[tab] + delta, 0, most)
             X == [s.content_offsets EXCEPT ![tab] = offset]
  <1>1. /\ DOMAIN s = Fields /\ s.content_offsets \in Offsets /\ tab \in 0..(Len(plan.features) - 1)
        /\ Placed(s) /\ s.layout \in Layouts
    BY FreeHas
  <1>2. most \in Int
    BY <1>1, PanelHasHeight
  <1>3. s.content_offsets[tab] \in Int
    BY <1>1 DEF Offsets
  <1> HIDE DEF most
  <1>4. offset \in Int
    BY <1>2, <1>3 DEF Clamp
  <1>5. t = [s EXCEPT !.content_offsets = X]
    BY DEF scrollMainContent, most
  <1> HIDE DEF offset
  <1>6. X \in Offsets
    BY <1>1, <1>4 DEF Offsets
  <1> HIDE DEF X
  <1>7. Differs(s, t, {"content_offsets"}) /\ t.content_offsets \in Offsets
    BY <1>1, <1>5, <1>6 DEF Differs, Fields
  <1> QED
    BY <1>7, OffsetsMove

\* A dialog is opened with the focus on its safe answer.
LEMMA OpenDialogKeeps ==
    ASSUME NEW s, Free(s), NEW dialog \in Dialogs \ {"None"},
           dialog = "Workflow" =>
              s.mode = "FeaturePanel" /\ selectedFeature(s) # "Overview" /\ ~Drive(s).protected,
           NEW t, t = openDialog(s, dialog)
    PROVE  Steady(s, t)
  <1> DEFINE answer == Control(IF dialog = "Settings" THEN "CloseSettings" ELSE "Cancel", 0)
             from == [mode |-> s.mode, focus |-> s.focus]
  <1>1. DOMAIN s = Fields /\ from \in [mode : Modes, focus : Controls]
        /\ from.mode = s.mode /\ from.focus = s.focus
    BY FreeHas
  <1>2. answer \in Controls
    BY ControlsInUse
  <1>3. t = [s EXCEPT !.return = from, !.dialog = dialog, !.choice = "Cancel", !.focus = answer]
    BY DEF openDialog
  <1> HIDE DEF answer, from
  <1>4. /\ Differs(s, t, {"return", "dialog", "choice", "focus"})
        /\ t.return = from /\ t.dialog = dialog /\ t.choice = "Cancel" /\ t.focus = answer
    BY <1>1, <1>3 DEF Differs, Fields
  <1>5. /\ t.selected_drive = s.selected_drive /\ t.main_tab = s.main_tab /\ t.option = s.option
        /\ t.drive_offset = s.drive_offset /\ t.job_offset = s.job_offset
        /\ t.bottom_tab = s.bottom_tab /\ t.content_offsets = s.content_offsets
        /\ t.mode = s.mode /\ t.jobs = s.jobs /\ t.layout = s.layout /\ DOMAIN t = Fields
    BY <1>4 DEF Differs, Fields
  <1>6. t.focus = Control(IF t.dialog = "Settings" THEN "CloseSettings" ELSE t.choice, 0)
    BY <1>4 DEF answer
  <1>7. /\ t.dialog \in Dialogs /\ t.choice \in {"Cancel", "Confirm"} /\ t.focus \in Controls
        /\ t.return \in [mode : Modes, focus : Controls] /\ t.dialog # "None"
    BY <1>1, <1>2, <1>4
  <1>8. InPlace(s, t.return.mode, t.return.focus)
    BY <1>1, <1>4, FreeHas
  <1>9. t.dialog = "Workflow" =>
              t.return.mode = "FeaturePanel" /\ selectedFeature(s) # "Overview" /\ ~Drive(s).protected
    BY <1>1, <1>4
  <1>10. Sound(t)
    BY <1>5, <1>6, <1>7, <1>8, <1>9, FreeHas, StaysSound
  <1> QED
    BY <1>5, <1>10 DEF Steady

LEMMA WorkflowDialogKeeps ==
    ASSUME NEW s, Free(s), s.mode = "FeaturePanel"
    PROVE  Steady(s, openWorkflowDialog(s))
  <1>1. CASE selectedFeature(s) = "Overview" \/ Drive(s).protected
    <2>1. openWorkflowDialog(s) = s
      BY <1>1 DEF openWorkflowDialog
    <2> QED
      BY <2>1 DEF Steady, Free
  <1>2. CASE ~(selectedFeature(s) = "Overview" \/ Drive(s).protected)
    <2>1. openWorkflowDialog(s) = openDialog(s, "Workflow")
      BY <1>2 DEF openWorkflowDialog
    <2> QED
      BY <1>2, <2>1, OpenDialogKeeps DEF Dialogs
  <1> QED
    BY <1>1, <1>2

\* The other tab of the bottom panel.
LEMMA BottomTabKeeps ==
    ASSUME NEW s, Free(s), NEW tab \in {0, 1}, NEW t, t = [s EXCEPT !.bottom_tab = tab]
    PROVE  Free(t) /\ Steady(s, t)
  <1>1. DOMAIN s = Fields
    BY FreeHas
  <1>2. Differs(s, t, PlainFields) /\ t.bottom_tab = tab
    BY <1>1 DEF Differs, Fields, PlainFields
  <1>3. /\ t.drive_offset = s.drive_offset /\ t.job_offset = s.job_offset
        /\ t.content_offsets = s.content_offsets /\ t.mode = s.mode /\ t.focus = s.focus
        /\ t.jobs = s.jobs /\ t.dialog = s.dialog
    BY <1>1 DEF Fields
  <1>4. Sound(t)
    BY <1>2, <1>3, FreeHas, StaysInPlace
  <1> QED
    BY <1>3, <1>4, FreeHas DEF Free, Steady

LEMMA TerminateDialogKeeps ==
    ASSUME NEW s, Free(s)
    PROVE  Steady(s, openTerminateDialog(s))
  <1>1. \/ openTerminateDialog(s) = [s EXCEPT !.bottom_tab = 0]
        \/ openTerminateDialog(s) = openDialog(s, "Terminate")
    BY DEF openTerminateDialog
  <1> QED
    BY <1>1, BottomTabKeeps, OpenDialogKeeps DEF Dialogs

\* Closing a dialog goes back to where the focus was.
LEMMA CloseDialogKeeps ==
    ASSUME NEW s, Sound(s), s.dialog # "None", NEW t, t = closeDialog(s)
    PROVE  Free(t) /\ Steady(s, t)
  <1> DEFINE scan == Control("Scan", 0)
             from == [mode |-> "DriveList", focus |-> scan]
  <1>1. DOMAIN s = Fields /\ s.return \in [mode : Modes, focus : Controls]
    BY DEF Sound, Typed
  <1>2. scan \in Controls
    BY ControlsInUse
  <1>3. from \in [mode : Modes, focus : Controls]
    BY <1>2 DEF Modes
  <1>4. t = [s EXCEPT !.dialog = "None", !.mode = s.return.mode, !.focus = s.return.focus,
                      !.choice = "Cancel", !.return = from]
    BY DEF closeDialog
  <1> HIDE DEF from, scan
  <1>5. /\ Differs(s, t, {"return", "dialog", "choice", "focus", "mode"})
        /\ t.return = from /\ t.dialog = "None" /\ t.choice = "Cancel"
        /\ t.focus = s.return.focus /\ t.mode = s.return.mode
    BY <1>1, <1>4 DEF Differs, Fields
  <1>6. /\ t.selected_drive = s.selected_drive /\ t.main_tab = s.main_tab /\ t.option = s.option
        /\ t.drive_offset = s.drive_offset /\ t.job_offset = s.job_offset
        /\ t.bottom_tab = s.bottom_tab /\ t.content_offsets = s.content_offsets
        /\ t.jobs = s.jobs /\ t.layout = s.layout /\ DOMAIN t = Fields
    BY <1>5 DEF Differs, Fields
  <1>7. t.focus \in Controls /\ t.mode \in Modes
    BY <1>1, <1>5
  <1>8. InPlace(s, t.mode, t.focus)
    BY <1>5 DEF Sound, Asked
  <1>9. /\ s.drive_offset \in Int /\ s.job_offset \in Int /\ s.bottom_tab \in {0, 1}
        /\ s.content_offsets \in Offsets /\ s.jobs \in Seq(JobType) /\ s.layout \in Layouts
    BY DEF Sound, Typed
  <1>10. t.dialog \in Dialogs
    BY <1>5 DEF Dialogs
  <1>11. Sound(t)
    BY <1>3, <1>5, <1>6, <1>7, <1>8, <1>9, <1>10, StaysSound
  <1> QED
    BY <1>5, <1>6, <1>11 DEF Free, Steady

\* One more job, and the others the same or started.
Adds(s, t) ==
    /\ Len(t.jobs) = Len(s.jobs) + 1
    /\ \A i \in 1..Len(s.jobs) : Starts(s.jobs[i], t.jobs[i + 1])

LEMMA RunKeeps ==
    ASSUME NEW s, Free(s), NEW t, t = runSelectedWorkflowSimulation(s)
    PROVE  Free(t) /\ (t.jobs = s.jobs \/ Adds(s, t))
  <1> DEFINE f == selectedFeature(s)
             workflow == featureWorkflows(s, f)[s.option[f] + 1]
             job == [drive |-> s.selected_drive, state |-> "Queued",
                     pausable |-> workflow.pausable, cancellable |-> workflow.cancellable]
             queue == <<job>> \o s.jobs
             served == Served(queue)
             fresh == refreshCoreState(s, served)
  <1>1. \/ t = s
        \/ t = [s EXCEPT !.bottom_tab = 0]
        \/ /\ t = [fresh EXCEPT !.bottom_tab = 1, !.job_offset = 0]
           /\ f \in DOMAIN s.option /\ Supports(s, f, s.option[f])
    BY DEF runSelectedWorkflowSimulation
  <1>2. CASE t = s \/ t = [s EXCEPT !.bottom_tab = 0]
    BY <1>2, BottomTabKeeps DEF Steady
  <1>3. CASE /\ t = [fresh EXCEPT !.bottom_tab = 1, !.job_offset = 0]
             /\ f \in DOMAIN s.option /\ Supports(s, f, s.option[f])
    <2>1. job \in JobType
      <3>1. /\ f \in DOMAIN plan.catalog /\ plan \in Screens /\ s.selected_drive \in 0..LastDrive
            /\ LastDrive \in Nat
        BY <1>3, FreeHas DEF Sound, Typed, Placed
      <3>2. /\ featureWorkflows(s, f) = plan.catalog[f]
            /\ s.option[f] + 1 \in DOMAIN plan.catalog[f]
        <4>1. s.option[f] + 1 \in DOMAIN featureWorkflows(s, f)
          BY <1>3 DEF Supports
        <4>2. featureWorkflows(s, f) # <<>>
          BY <4>1
        <4> QED
          BY <4>1, <4>2 DEF featureWorkflows
      <3>3. workflow \in Workflows
        <4> DEFINE W == Workflows
                   all == plan.catalog[f]
                   k == s.option[f] + 1
        <4>1. all \in Seq(W) /\ k \in DOMAIN all
          BY <3>1, <3>2, PlanIsSound DEF ScreenAssumption
        <4>2. workflow = all[k]
          BY <3>2
        <4> HIDE DEF W, all, k, workflow
        <4>3. workflow \in W
          BY <4>1, <4>2
        <4> QED
          BY <4>3 DEF W
      <3>4. workflow.pausable \in BOOLEAN /\ workflow.cancellable \in BOOLEAN
        BY <3>3 DEF Workflows
      <3> HIDE DEF workflow
      <3>5. s.selected_drive \in Int
        BY <3>1
      <3> QED
        BY <3>4, <3>5 DEF JobType
    <2> HIDE DEF job
    <2>2. /\ queue \in Seq(JobType) /\ Len(queue) = Len(s.jobs) + 1
          /\ \A i \in 1..Len(s.jobs) : queue[i + 1] = s.jobs[i]
      <3> DEFINE J == JobType
                 jobs == s.jobs
      <3>1. jobs \in Seq(J) /\ job \in J
        BY <2>1, FreeHas
      <3> HIDE DEF J, jobs
      <3>2. <<job>> \o jobs \in Seq(J) /\ Len(<<job>> \o jobs) = Len(jobs) + 1
            /\ \A i \in 1..Len(jobs) : (<<job>> \o jobs)[i + 1] = jobs[i]
        BY <3>1
      <3> QED
        BY <3>2 DEF J, jobs
    <2> HIDE DEF queue
    <2>3. /\ served \in Seq(JobType) /\ Len(served) = Len(queue)
          /\ \A i \in 1..Len(queue) : Starts(queue[i], served[i])
      BY <2>2, ServedStarts
    <2> HIDE DEF served
    <2>4. /\ Sound(fresh) /\ fresh.jobs = served /\ Differs(s, fresh, {"jobs", "job_offset"})
      BY <2>3, FreeHas, RefreshKeepsSound
    <2> HIDE DEF fresh
    <2>5. fresh.dialog = "None"
      BY <2>4, FreeHas DEF Differs, Fields
    <2>6. Free(fresh)
      BY <2>4, <2>5 DEF Free
    <2>7. /\ Differs(fresh, t, PlainFields) /\ t.bottom_tab = 1 /\ t.job_offset = 0
          /\ t.drive_offset = fresh.drive_offset /\ t.dialog = fresh.dialog
          /\ t.content_offsets = fresh.content_offsets /\ t.mode = fresh.mode
          /\ t.focus = fresh.focus /\ t.jobs = fresh.jobs
      <3>1. DOMAIN fresh = Fields
        BY <2>6, FreeHas
      <3> QED
        BY <1>3, <3>1 DEF Differs, Fields, PlainFields
    <2>8. Sound(t)
      BY <2>6, <2>7, FreeHas, StaysInPlace
    <2>9. Adds(s, t)
      <3>1. \A i \in 1..Len(s.jobs) : i + 1 \in 1..(Len(s.jobs) + 1)
        BY FreeHas
      <3>2. \A i \in 1..Len(s.jobs) : Starts(s.jobs[i], served[i + 1])
        BY <2>2, <2>3, <3>1
      <3> QED
        BY <2>2, <2>3, <2>4, <2>7, <3>2 DEF Adds
    <2> QED
      BY <2>5, <2>7, <2>8, <2>9 DEF Free
  <1> QED
    BY <1>1, <1>2, <1>3

\* The loss of the control of a job moves the focus, never out of a dialog.
LEMMA LostControlKeeps ==
    ASSUME NEW s, Sound(s), NEW t, t = normalizeJobControlFocus(s)
    PROVE  Sound(t) /\ t.jobs = s.jobs /\ Differs(s, t, {"mode", "focus"})
           /\ (s.dialog # "None" => t = s)
  <1> DEFINE tab == Control("BottomTab", s.bottom_tab)
  <1>1. DOMAIN s = Fields /\ s.bottom_tab \in {0, 1}
    BY DEF Sound, Typed
  <1>2. \/ t = s
        \/ /\ t = [s EXCEPT !.mode = "DriveList", !.focus = tab]
           /\ s.focus.kind \in {"JobPrimary", "JobStop"}
    BY DEF normalizeJobControlFocus
  <1>3. CASE t = s
    BY <1>1, <1>3 DEF Differs
  <1>4. CASE /\ t = [s EXCEPT !.mode = "DriveList", !.focus = tab]
             /\ s.focus.kind \in {"JobPrimary", "JobStop"}
    <2>1. tab \in Controls
      BY <1>1, ControlsInUse
    <2>2. s.dialog = "None"
      <3>1. SUFFICES ASSUME s.dialog # "None" PROVE FALSE
        OBVIOUS
      <3>2. /\ s.focus = Control(IF s.dialog = "Settings" THEN "CloseSettings" ELSE s.choice, 0)
            /\ s.choice \in {"Cancel", "Confirm"}
        BY <3>1 DEF Sound, Asked, Typed
      <3>3. s.focus.kind \in {"CloseSettings", "Cancel", "Confirm"}
        BY <3>2, ControlsAre
      <3> QED
        BY <1>4, <3>3
    <2> HIDE DEF tab
    <2>3. Free(s)
      BY <2>2 DEF Free
    <2>4. Free(t) /\ Steady(s, t) /\ Differs(s, t, {"mode", "focus"})
      BY <1>4, <2>1, <2>3, ListFocusMoves
    <2> QED
      BY <2>2, <2>4 DEF Steady
  <1> QED
    BY <1>2, <1>3, <1>4

\* A command for one job: the others are the same or started.
Touches(s, t, index) ==
    /\ Len(t.jobs) = Len(s.jobs)
    /\ \A i \in 1..Len(s.jobs) : i # index + 1 => Starts(s.jobs[i], t.jobs[i])

LEMMA JobCommandsKeep ==
    ASSUME NEW s, Free(s), NEW index,
           NEW t, t \in {applyJobPrimary(s, index), applyJobStop(s, index)}
    PROVE  Free(t) /\ Touches(s, t, index)
  <1>1. \/ t = s
        \/ \E state \in {"Paused", "Running", "Ended"} :
              t = refreshCoreState(s, InState(s.jobs, {index + 1}, state))
    BY DEF applyJobPrimary, applyJobStop
  <1>2. CASE t = s
    BY <1>2 DEF Touches, Starts
  <1>3. ASSUME NEW state \in {"Paused", "Running", "Ended"},
               t = refreshCoreState(s, InState(s.jobs, {index + 1}, state))
        PROVE  Free(t) /\ Touches(s, t, index)
    <2> DEFINE jobs == InState(s.jobs, {index + 1}, state)
    <2>1. state \in JobStates \ {"Queued"} /\ s.jobs \in Seq(JobType) /\ Sound(s)
      BY FreeHas DEF JobStates
    <2>2. /\ jobs \in Seq(JobType) /\ Len(jobs) = Len(s.jobs)
          /\ \A i \in 1..Len(s.jobs) : i \notin {index + 1} => Starts(s.jobs[i], jobs[i])
      BY <2>1, InStateChanges
    <2> HIDE DEF jobs
    <2>3. Sound(t) /\ t.jobs = jobs /\ Differs(s, t, {"jobs", "job_offset"})
      BY <1>3, <2>1, <2>2, RefreshKeepsSound DEF jobs
    <2>4. t.dialog = "None"
      BY <2>3, FreeHas DEF Differs, Fields
    <2> QED
      BY <2>2, <2>3, <2>4 DEF Free, Touches
  <1> QED
    BY <1>1, <1>2, <1>3

\* An option that can be taken is one of the workflows of its feature.
LEMMA OptionIsThere ==
    ASSUME NEW s, NEW f \in DOMAIN plan.catalog, NEW option, Supports(s, f, option)
    PROVE  option + 1 \in DOMAIN plan.catalog[f]
  <1>1. option + 1 \in DOMAIN featureWorkflows(s, f)
    BY DEF Supports
  <1>2. featureWorkflows(s, f) # <<>>
    BY <1>1
  <1> QED
    BY <1>1, <1>2 DEF featureWorkflows

\* Giving a control of the panel the focus, which also chooses it.
LEMMA PanelFocusMoves ==
    ASSUME NEW s, Free(s), NEW control \in ToSet(featureTargets(s)), NEW t,
           Differs(s, t, {"mode", "content_offsets", "focus", "option"}),
           t.mode = "FeaturePanel", t.content_offsets \in Offsets, t.focus = control,
           t.option = IF control.kind \in DOMAIN s.option
                      THEN [s.option EXCEPT ![control.kind] = control.value] ELSE s.option
    PROVE  Free(t) /\ Steady(s, t)
  <1> DEFINE f == selectedFeature(s)
  <1>1. /\ DOMAIN s = Fields /\ Placed(s) /\ Sound(s) /\ s.dialog = "None"
        /\ s.option \in [DOMAIN plan.catalog -> Int]
    BY FreeHas DEF Sound, Typed
  <1>2. /\ t.selected_drive = s.selected_drive /\ t.drive_offset = s.drive_offset
        /\ t.job_offset = s.job_offset /\ t.bottom_tab = s.bottom_tab /\ t.main_tab = s.main_tab
        /\ t.dialog = s.dialog /\ t.choice = s.choice /\ t.return = s.return /\ t.jobs = s.jobs
        /\ t.layout = s.layout /\ DOMAIN t = Fields
    BY DEF Differs, Fields
  <1>3. Placed(t) /\ featureTargets(t) = featureTargets(s)
    BY <1>1, <1>2, SamePlace
  <1>4. control \in Controls /\ t.mode \in Modes
    <2> DEFINE C == Controls
    <2>1. featureTargets(s) \in Seq(C)
      BY <1>1, TargetsOfAPanel
    <2> HIDE DEF C
    <2>2. control \in C
      BY <2>1 DEF ToSet
    <2> QED
      BY <2>2 DEF C, Modes
  <1>5. control.kind \in DOMAIN plan.catalog =>
            Supports(s, control.kind, control.value) /\ control.value \in Int
    <2>1. SUFFICES ASSUME control.kind \in DOMAIN plan.catalog
                   PROVE  Supports(s, control.kind, control.value) /\ control.value \in Int
      OBVIOUS
    <2>2. control.kind \notin {"MainTab", "OpenWorkflow"}
      BY <1>1, <2>1, WorkflowsOfAFeature DEF Placed, Features
    <2>3. featureWorkflows(s, f) # <<>>
      BY <1>1, <2>2, TargetsOfAPanel, ControlsAre
    <2>4. control.kind = f /\ control.value \in Nat /\ Supports(s, f, control.value)
      BY <1>1, <2>2, <2>3, TargetsOfAPanel, ControlsAre
    <2> QED
      BY <2>4
  <1>6. t.option \in [DOMAIN plan.catalog -> Int]
    BY <1>1, <1>5
  <1>7. Typed(t)
    BY <1>1, <1>2, <1>3, <1>4, <1>6 DEF Sound, Typed
  <1>8. Supported(t)
    <2>1. SUFFICES ASSUME NEW g \in DOMAIN plan.catalog
                   PROVE  /\ t.option[g] + 1 \in DOMAIN plan.catalog[g]
                          /\ ~Drive(t).protected => Supports(t, g, t.option[g])
      BY DEF Supported
    <2>2. /\ Drive(t) = Drive(s)
          /\ \A option : Supports(t, g, option) <=> Supports(s, g, option)
      BY <1>2, SameDrive
    <2>3. CASE g = control.kind
      <3>1. t.option[g] = control.value
        BY <1>1, <2>3
      <3> QED
        BY <1>5, <2>2, <2>3, <3>1, OptionIsThere
    <2>4. CASE g # control.kind
      <3>1. t.option[g] = s.option[g]
        BY <1>1, <2>4
      <3> QED
        BY <1>1, <2>2, <3>1 DEF Sound, Supported
    <2> QED
      BY <2>3, <2>4
  <1>9. Asked(t)
    BY <1>1, <1>2, <1>3 DEF Asked, InPlace
  <1> QED
    BY <1>1, <1>2, <1>7, <1>8, <1>9 DEF Sound, Free, Steady

LEMMA NeighbourIsOne ==
    ASSUME NEW C, NEW controls \in Seq(C), controls # <<>>, NEW focus, NEW direction \in {-1, 1}
    PROVE  Neighbour(controls, focus, direction) \in ToSet(controls)
  <1> DEFINE places == {i \in DOMAIN controls : controls[i] = focus}
             next == {i + direction : i \in places} \cap DOMAIN controls
             k == CHOOSE k \in next : TRUE
             end == IF direction > 0 THEN 1 ELSE Len(controls)
  <1>1. Neighbour(controls, focus, direction) =
            IF next # {} THEN controls[k] ELSE controls[end]
    BY DEF Neighbour
  <1>2. next # {} => k \in DOMAIN controls
    <2>1. next # {} => k \in next
      OBVIOUS
    <2> QED
      BY <2>1
  <1>3. end \in DOMAIN controls
    <2>1. Len(controls) \in Nat /\ DOMAIN controls = 1..Len(controls) /\ Len(controls) # 0
      BY EmptySeq
    <2> QED
      BY <2>1
  <1> HIDE DEF next, k, end
  <1> QED
    BY <1>1, <1>2, <1>3 DEF ToSet

\* In the panel a control that is given the focus is scrolled to, and keeps it when the
\* loop has drawn.
LEMMA PanelFocusStays ==
    ASSUME NEW s, Free(s), NEW e, Differs(s, e, {"mode", "content_offsets"}),
           e.mode = "FeaturePanel", e.content_offsets \in Offsets,
           NEW control \in ToSet(featureTargets(s)),
           NEW t, t = ensureFeatureFocusVisible(focusHit(e, control), control)
    PROVE  Free(t) /\ Steady(s, t) /\ Settled(t).focus = control
  <1> DEFINE h == focusHit(e, control)
             focused == [e EXCEPT !.focus = control]
             chosen == IF control.kind \in DOMAIN s.option
                       THEN [s.option EXCEPT ![control.kind] = control.value] ELSE s.option
             d == drawDemo(t)
  <1>1. /\ DOMAIN e = Fields /\ e.option = s.option /\ e.main_tab = s.main_tab
        /\ Placed(s) /\ DOMAIN s.option = DOMAIN plan.catalog /\ plan \in Screens
        /\ s.selected_drive \in 0..LastDrive
    BY FreeHas DEF Differs, Fields, Sound, Typed, Placed
  <1>2. "MainTab" \notin DOMAIN plan.catalog
    BY <1>1, WorkflowsOfAFeature DEF Features
  <1>3. control.kind = "MainTab" => control.value = s.main_tab
    <2> DEFINE f == selectedFeature(s)
    <2>1. CASE featureWorkflows(s, f) = <<>>
      BY <1>1, <2>1, TargetsOfAPanel, ControlsAre
    <2>2. CASE featureWorkflows(s, f) # <<>>
      <3>1. control.kind = "OpenWorkflow" \/ control.kind = f
        BY <1>1, <2>2, TargetsOfAPanel, ControlsAre
      <3>2. f \in Features
        BY <1>1, TabHasFeature
      <3> QED
        BY <3>1, <3>2 DEF Features
    <2> QED
      BY <2>1, <2>2
  <1>4. /\ Differs(s, focused, {"mode", "content_offsets", "focus"}) /\ focused.focus = control
        /\ focused.mode = "FeaturePanel" /\ focused.content_offsets = e.content_offsets
        /\ focused.option = s.option /\ focused.main_tab = s.main_tab
    BY <1>1 DEF Differs, Fields
  <1>5. h = IF control.kind = "MainTab" THEN [focused EXCEPT !.main_tab = control.value]
            ELSE IF control.kind \in DOMAIN s.option
                 THEN [focused EXCEPT !.option[control.kind] = control.value]
            ELSE focused
    BY <1>1, <1>2 DEF focusHit
  <1> HIDE DEF focused, h
  <1>6. h = IF control.kind = "MainTab" THEN [focused EXCEPT !.main_tab = control.value]
            ELSE IF control.kind \in DOMAIN s.option
                 THEN [focused EXCEPT !.option = chosen]
            ELSE focused
    BY <1>4, <1>5
  <1>7. control.kind = "MainTab" => chosen = s.option
    BY <1>1, <1>2
  <1>8. control.kind \notin DOMAIN s.option => chosen = s.option
    OBVIOUS
  <1> HIDE DEF chosen
  <1>9. /\ Differs(s, h, {"mode", "content_offsets", "focus", "option"}) /\ h.focus = control
        /\ h.mode = "FeaturePanel" /\ h.content_offsets = e.content_offsets /\ h.option = chosen
    <2>1. CASE control.kind = "MainTab"
      BY <1>3, <1>4, <1>6, <1>7, <2>1 DEF Differs, Fields
    <2>2. CASE control.kind # "MainTab" /\ control.kind \in DOMAIN s.option
      BY <1>4, <1>6, <2>2 DEF Differs, Fields
    <2>3. CASE control.kind # "MainTab" /\ control.kind \notin DOMAIN s.option
      BY <1>4, <1>6, <1>8, <2>3 DEF Differs, Fields
    <2> QED
      BY <2>1, <2>2, <2>3
  <1>10. Free(h) /\ Steady(s, h)
    BY <1>9, PanelFocusMoves DEF chosen
  <1>11. /\ h.selected_drive = s.selected_drive /\ h.main_tab = s.main_tab
    BY <1>9 DEF Differs, Fields
  <1>12. control \in ToSet(featureTargets(h))
    BY <1>11, SamePlace
  <1>13. /\ Free(t) /\ t.jobs = h.jobs /\ t.focus = control
         /\ control = Control("MainTab", t.main_tab)
            \/ (/\ control \in PanelHits(t)
                /\ Clamp(t.content_offsets[t.main_tab], 0, maxContentOffset(t))
                      = t.content_offsets[t.main_tab])
    <2>1. CASE control.kind = "MainTab"
      <3>1. t = h
        BY <2>1 DEF ensureFeatureFocusVisible, h
      <3>2. control = Control("MainTab", s.main_tab)
        <4>1. featureWorkflows(s, selectedFeature(s)) = <<>>
          <5>1. SUFFICES ASSUME featureWorkflows(s, selectedFeature(s)) # <<>> PROVE FALSE
            OBVIOUS
          <5>2. control.kind = "OpenWorkflow" \/ control.kind = selectedFeature(s)
            BY <1>1, <5>1, TargetsOfAPanel, ControlsAre
          <5>3. selectedFeature(s) \in Features
            BY <1>1, TabHasFeature
          <5> QED
            BY <2>1, <5>2, <5>3 DEF Features
        <4> QED
          BY <1>1, <4>1, TargetsOfAPanel
      <3> QED
        BY <1>9, <1>10, <1>11, <3>1, <3>2
    <2>2. CASE control.kind # "MainTab"
      <3>1. /\ Differs(h, t, {"content_offsets"}) /\ t.content_offsets \in Offsets
            /\ control \in PanelHits(t)
            /\ Clamp(t.content_offsets[t.main_tab], 0, maxContentOffset(t))
                  = t.content_offsets[t.main_tab]
        BY <1>10, <1>12, <2>2, FreeHas, ScrollingShows DEF h
      <3>2. Free(t) /\ t.jobs = h.jobs
        BY <1>10, <3>1, OffsetsMove DEF Steady
      <3>3. t.focus = h.focus
        BY <3>1 DEF Differs, Fields
      <3> QED
        BY <1>9, <3>1, <3>2, <3>3
    <2> QED
      BY <2>1, <2>2
  <1>14. /\ Differs(t, d, {"drive_offset", "content_offsets", "job_offset"}) /\ Sound(d)
         /\ Clamp(t.content_offsets[t.main_tab], 0, maxContentOffset(t))
                 = t.content_offsets[t.main_tab]
                => d.content_offsets[d.main_tab] = t.content_offsets[t.main_tab]
    BY <1>13, FreeHas, DrawingPutsInOrder
  <1>15. /\ d.selected_drive = t.selected_drive /\ d.main_tab = t.main_tab /\ d.layout = t.layout
         /\ d.focus = t.focus /\ d.dialog = t.dialog
    BY <1>14 DEF Differs, Fields
  <1>16. d.layout.valid => d.focus \in Hits(d)
    <2>1. SUFFICES ASSUME d.layout.valid PROVE d.focus \in Hits(d)
      OBVIOUS
    <2>2. Placed(d) /\ d.dialog = "None"
      BY <1>13, <1>14, <1>15, FreeHas DEF Sound, Typed
    <2>3. CASE control = Control("MainTab", t.main_tab)
      BY <1>13, <1>15, <2>1, <2>2, <2>3, TabsAreShown
    <2>4. CASE /\ control \in PanelHits(t)
               /\ Clamp(t.content_offsets[t.main_tab], 0, maxContentOffset(t))
                      = t.content_offsets[t.main_tab]
      <3>1. PanelHits(d) = PanelHits(t)
        BY <1>14, <1>15, <2>4, SamePanel
      <3> QED
        BY <1>13, <1>15, <2>1, <2>2, <2>4, <3>1, TabsAreShown
    <2> QED
      BY <1>13, <2>3, <2>4
  <1>17. Settled(t) = d
    BY <1>16, ShownStays
  <1> QED
    BY <1>10, <1>13, <1>15, <1>17 DEF Steady, Free

\* The controls of the list, and what is in them.
ListKinds ==
    {"Scan", "SelectDrive", "DriveUp", "DriveDown", "BottomTab", "BottomUp", "BottomDown",
     "JobPrimary", "JobStop", "Settings", "Detach"}

ListControls ==
    {control \in Controls :
        control.kind \in ListKinds /\ (control.kind = "BottomTab" => control.value \in {0, 1})}

LEMMA ListControlsAre ==
    ASSUME NEW kind \in ListKinds, NEW value \in Int, kind = "BottomTab" => value \in {0, 1}
    PROVE  Control(kind, value) \in ListControls
  BY ControlsInUse, ControlsAre DEF ListKinds, ListControls

LEMMA ListsAreControls ==
    ASSUME NEW s, Free(s)
    PROVE  /\ ShownDrives(s) \in Seq(ListControls)
           /\ BottomControls(s) \in Seq(ListControls)
           /\ JobHits(s) \in Seq(ListControls)
  <1> DEFINE C == ListControls
  <1>0. /\ s.drive_offset \in Int /\ s.job_offset \in Int /\ Len(plan.drives) \in Int
        /\ s.layout.visible_drives \in Nat /\ s.layout.bottom_rows \in Nat /\ Len(s.jobs) \in Nat
    BY FreeHas
  <1>1. ShownDrives(s) \in Seq(C)
    <2> DEFINE n == Clamp(Len(plan.drives) - s.drive_offset, 0, s.layout.visible_drives)
               shown == [i \in 1..n |-> Control("SelectDrive", s.drive_offset + i - 1)]
    <2>1. n \in Nat
      BY <1>0 DEF Clamp
    <2> HIDE DEF n, C
    <2>2. \A i \in 1..n : s.drive_offset + i - 1 \in Int
      BY <1>0, <2>1
    <2>3. \A i \in 1..n : Control("SelectDrive", s.drive_offset + i - 1) \in C
      BY <2>2, ListControlsAre DEF C, ListKinds
    <2>4. shown \in [1..n -> C]
      BY <2>3
    <2> HIDE DEF shown
    <2>5. shown \in Seq(C)
      BY <2>1, <2>4, SeqDef
    <2> QED
      BY <2>5 DEF ShownDrives, shown, n
  <1>2. BottomControls(s) \in Seq(C)
    <2> DEFINE tabs == <<Control("BottomTab", 0), Control("BottomTab", 1)>>
               arrows == <<Control("BottomUp", 0), Control("BottomDown", 0)>>
    <2>1. /\ Control("BottomTab", 0) \in C /\ Control("BottomTab", 1) \in C
          /\ Control("BottomUp", 0) \in C /\ Control("BottomDown", 0) \in C
      BY ListControlsAre DEF ListKinds
    <2> HIDE DEF C
    <2>2. tabs \in Seq(C) /\ arrows \in Seq(C) /\ <<>> \in Seq(C)
      BY <2>1
    <2>3. BottomControls(s) = tabs \o (IF s.layout.arrows THEN arrows ELSE <<>>)
      BY DEF BottomControls
    <2> HIDE DEF tabs, arrows
    <2>4. tabs \o arrows \in Seq(C) /\ tabs \o <<>> \in Seq(C)
      BY <2>2
    <2> QED
      BY <2>3, <2>4
  <1>3. JobHits(s) \in Seq(C)
    <2> DEFINE rows == IF s.bottom_tab = 0 THEN 0
                       ELSE Clamp(Len(s.jobs) - s.job_offset, 0, s.layout.bottom_rows)
               Kind(k) == IF k % 2 = 1 THEN "JobPrimary" ELSE "JobStop"
               Value(k) == s.job_offset + ((k - 1) \div 2)
               shown == [k \in 1..(2 * rows) |-> Control(Kind(k), Value(k))]
               chosen == {control \in ToSet(shown) :
                             control.kind \in jobControls(s.jobs[control.value + 1])}
    <2>1. rows \in Nat
      BY <1>0 DEF Clamp
    <2> HIDE DEF rows, C
    <2>2. 2 * rows \in Nat
      BY <2>1
    <2>3. ASSUME NEW k \in 1..(2 * rows) PROVE Control(Kind(k), Value(k)) \in C
      <3>1. Kind(k) \in ListKinds /\ Kind(k) # "BottomTab"
        BY DEF ListKinds
      <3>2. (k - 1) \div 2 \in Int
        BY <2>2
      <3>3. Value(k) \in Int
        <4> DEFINE half == (k - 1) \div 2
        <4>1. half \in Int
          BY <3>2
        <4> HIDE DEF half
        <4>2. s.job_offset + half \in Int
          BY <1>0, <4>1
        <4> QED
          BY <4>2 DEF half
      <3> HIDE DEF Kind, Value
      <3> QED
        BY <3>1, <3>3, ListControlsAre DEF C
    <2> HIDE DEF Kind, Value
    <2>4. shown \in [1..(2 * rows) -> C]
      BY <2>3
    <2> HIDE DEF shown
    <2>5. shown \in Seq(C)
      BY <2>2, <2>4, SeqDef
    <2> HIDE DEF chosen
    <2>6. Kept(shown, chosen) \in Seq(C)
      BY <2>5, KeptIsChosen
    <2>7. JobHits(s) = Kept(shown, chosen)
      BY DEF JobHits, chosen, shown, rows, Kind, Value
    <2> QED
      BY <2>6, <2>7
  <1> QED
    BY <1>1, <1>2, <1>3

\* Tab goes to the next control of the list, or to the next tab.
LEMMA CycleKeeps ==
    ASSUME NEW s, Free(s), NEW direction \in {-1, 1}, NEW t, t = cycleFocus(s, direction)
    PROVE  Free(t) /\ Steady(s, t)
  <1> DEFINE controls == focusableHits(s)
             next == Neighbour(controls, s.focus, direction)
  <1>1. t = IF controls = <<>> THEN s ELSE focusHit(s, next)
    BY DEF cycleFocus
  <1>2. CASE controls = <<>>
    BY <1>1, <1>2 DEF Free, Steady
  <1>3. CASE controls # <<>> /\ s.mode = "DriveTabs"
    <2> DEFINE n == visibleTabCount(s)
               T == {Control("MainTab", i) : i \in 0..(n - 1)}
    <2>1. n \in Nat
      BY FreeHas
    <2>2. controls = MainTabs(s)
      BY <1>3 DEF focusableHits
    <2>3. MainTabs(s) = [i \in 1..n |-> Control("MainTab", i - 1)]
      BY DEF MainTabs
    <2> HIDE DEF n
    <2>4. \A i \in 1..n : Control("MainTab", i - 1) \in T
      BY <2>1
    <2>5. MainTabs(s) \in [1..n -> T]
      BY <2>3, <2>4
    <2> HIDE DEF T
    <2>6. MainTabs(s) \in Seq(T)
      BY <2>1, <2>5, SeqDef
    <2>7. next \in ToSet(controls)
      BY <1>3, <2>2, <2>6, NeighbourIsOne
    <2>8. next \in T
      BY <2>2, <2>6, <2>7 DEF ToSet
    <2>9. PICK tab \in 0..(n - 1) : next = Control("MainTab", tab)
      BY <2>8 DEF T
    <2> HIDE DEF next, controls
    <2>10. t = [[s EXCEPT !.focus = next] EXCEPT !.main_tab = tab]
      <3>1. next.kind = "MainTab" /\ next.value = tab
        BY <2>9, ControlsAre
      <3>2. "MainTab" \notin DOMAIN s.option
        <4>1. DOMAIN s.option = DOMAIN plan.catalog /\ Placed(s)
          BY FreeHas DEF Sound, Typed
        <4> QED
          BY <4>1, WorkflowsOfAFeature DEF Placed, Features
      <3> QED
        BY <1>1, <1>3, <3>1, <3>2 DEF focusHit
    <2>11. tab \in Int /\ DOMAIN s = Fields
      BY <2>1, FreeHas
    <2>12. next \in Controls
      BY <2>9, <2>11, ControlsInUse
    <2>13. /\ Differs(s, t, {"mode", "main_tab", "focus"}) /\ t.mode = s.mode
           /\ t.main_tab = tab /\ t.focus = next
      BY <2>10, <2>11 DEF Differs, Fields
    <2> QED
      BY <1>3, <2>9, <2>12, <2>13, TabMoves DEF n, Modes
  <1>4. CASE controls # <<>> /\ s.mode # "DriveTabs"
    <2> DEFINE C == ListControls
               scan == Control("Scan", 0)
               settings == Control("Settings", 0)
               detach == Control("Detach", 0)
    <2>1. /\ controls = <<scan>> \o ShownDrives(s) \o BottomControls(s) \o JobHits(s)
                            \o <<settings, detach>>
          /\ s.mode # "FeaturePanel"
      BY <1>4 DEF focusableHits
    <2>2. scan \in C /\ settings \in C /\ detach \in C
      BY ListControlsAre DEF ListKinds
    <2>3. ShownDrives(s) \in Seq(C) /\ BottomControls(s) \in Seq(C) /\ JobHits(s) \in Seq(C)
      BY ListsAreControls
    <2> HIDE DEF C, scan, settings, detach
    <2>4. <<scan>> \o ShownDrives(s) \o BottomControls(s) \o JobHits(s) \o <<settings, detach>>
              \in Seq(C)
      BY <2>2, <2>3
    <2>5. controls \in Seq(C)
      BY <2>1, <2>4
    <2> HIDE DEF controls
    <2>6. next \in ToSet(controls)
      BY <1>4, <2>5, NeighbourIsOne
    <2>7. next \in C
      BY <2>5, <2>6 DEF ToSet
    <2> HIDE DEF next
    <2>8. next \in Controls /\ next.kind \in ListKinds
      BY <2>7 DEF C, ListControls
    <2>9. t = [s EXCEPT !.focus = next]
      <3>1. next.kind # "MainTab"
        BY <2>8 DEF ListKinds
      <3>2. next.kind \notin DOMAIN s.option
        <4>1. DOMAIN s.option = DOMAIN plan.catalog /\ Placed(s)
          BY FreeHas DEF Sound, Typed
        <4>2. \A f \in DOMAIN plan.catalog : f \in Features
          BY <4>1, WorkflowsOfAFeature DEF Placed
        <4> QED
          BY <2>8, <4>1, <4>2 DEF Features, ListKinds
      <3> QED
        BY <1>1, <1>4, <3>1, <3>2 DEF focusHit, controls, next
    <2> QED
      BY <2>1, <2>8, <2>9, ListFocusMoves
  <1> QED
    BY <1>2, <1>3, <1>4

LEMMA FeatureFocusKeeps ==
    ASSUME NEW s, Free(s), s.mode = "FeaturePanel", NEW direction \in {-1, 1},
           NEW t, t = cycleFeatureFocus(s, direction)
    PROVE  /\ Free(t) /\ Steady(s, t)
           /\ Settled(t).focus = Neighbour(featureTargets(s), s.focus, direction)
  <1> DEFINE target == Neighbour(featureTargets(s), s.focus, direction)
             C == Controls
  <1>1. /\ featureTargets(s) \in Seq(C) /\ featureTargets(s) # <<>>
        /\ DOMAIN s = Fields /\ s.content_offsets \in Offsets
    BY FreeHas, TargetsOfAPanel
  <1> HIDE DEF C
  <1>2. target \in ToSet(featureTargets(s))
    BY <1>1, NeighbourIsOne
  <1>3. t = ensureFeatureFocusVisible(focusHit(s, target), target)
    BY DEF cycleFeatureFocus
  <1>4. Differs(s, s, {"mode", "content_offsets"})
    BY <1>1 DEF Differs
  <1> HIDE DEF target
  <1>5. Free(t) /\ Steady(s, t) /\ Settled(t).focus = target
    BY <1>1, <1>2, <1>3, <1>4, PanelFocusStays
  <1> QED
    BY <1>5 DEF target

LEMMA EnterPanelKeeps ==
    ASSUME NEW s, Free(s), NEW t, t = enterFeaturePanel(s)
    PROVE  Free(t) /\ Steady(s, t)
  <1> DEFINE X == [s.content_offsets EXCEPT ![s.main_tab] = 0]
             entered == [s EXCEPT !.mode = "FeaturePanel", !.content_offsets = X]
             f == selectedFeature(s)
             targets == featureTargets(s)
             own == Control(f, s.option[f])
             target == IF f \in DOMAIN s.option /\ Contains(targets, own) THEN own ELSE targets[1]
             C == Controls
  <1>1. /\ targets \in Seq(C) /\ targets # <<>> /\ DOMAIN s = Fields
        /\ s.content_offsets \in Offsets /\ s.main_tab \in 0..(Len(plan.features) - 1)
    BY FreeHas, TargetsOfAPanel
  <1> HIDE DEF C
  <1>2. target \in ToSet(targets)
    <2>1. Contains(targets, own) => own \in ToSet(targets)
      BY <1>1 DEF Contains, ToSet
    <2>2. targets[1] \in ToSet(targets)
      <3>1. 1 \in DOMAIN targets
        BY <1>1, EmptySeq
      <3> QED
        BY <3>1 DEF ToSet
    <2> HIDE DEF own, targets
    <2> QED
      BY <2>1, <2>2
  <1>3. X \in Offsets
    BY <1>1 DEF Offsets
  <1>4. t = ensureFeatureFocusVisible(focusHit(entered, target), target)
    BY DEF enterFeaturePanel
  <1> HIDE DEF X, target
  <1>5. /\ Differs(s, entered, {"mode", "content_offsets"}) /\ entered.mode = "FeaturePanel"
        /\ entered.content_offsets = X
    BY <1>1 DEF Differs, Fields
  <1> HIDE DEF entered
  <1> QED
    BY <1>2, <1>3, <1>4, <1>5, PanelFocusStays

\* Choosing a drive opens its first tab, and leaves a self-test that it supports.
LEMMA DriveModeKeeps ==
    ASSUME NEW s, Free(s), NEW control \in Controls, NEW index \in Int,
           NEW t, t = enterDriveMode([s EXCEPT !.focus = control], index)
    PROVE  Free(t) /\ Steady(s, t)
  <1> DEFINE drive == Clamp(index, 0, LastDrive)
             focused == [s EXCEPT !.focus = control]
             selected == [focused EXCEPT !.selected_drive = drive]
             main == IF s.main_tab > 1 THEN 0 ELSE s.main_tab
             other == IF Len(featureWorkflows(selected, "Smart")) > 1 THEN 1 ELSE 0
             option == IF Drive(selected).protected \/ Supports(selected, "Smart", s.option["Smart"])
                       THEN s.option ELSE [s.option EXCEPT !["Smart"] = other]
             chosen == selectDrive(focused, index)
             tab == Control("MainTab", 0)
  <1>1. /\ DOMAIN s = Fields /\ Placed(s) /\ Sound(s) /\ s.dialog = "None"
        /\ LastDrive \in Nat /\ s.option \in [DOMAIN plan.catalog -> Int] /\ plan \in Screens
    BY FreeHas DEF Sound, Typed, Placed
  <1>2. drive \in 0..LastDrive
    BY <1>1 DEF Clamp
  <1>3. /\ Differs(s, selected, {"focus", "selected_drive"}) /\ selected.selected_drive = drive
        /\ focused.option = s.option /\ selected.option = s.option
        /\ selected.main_tab = s.main_tab
    BY <1>1 DEF Differs, Fields
  <1> HIDE DEF drive
  <1>4. chosen = IF Drive(selected).protected THEN [selected EXCEPT !.main_tab = main]
                 ELSE IF Supports(selected, "Smart", s.option["Smart"]) THEN selected
                 ELSE [selected EXCEPT !.option["Smart"] = other]
    <2>1. chosen = IF Drive(selected).protected
                   THEN [selected EXCEPT !.main_tab = IF @ > 1 THEN 0 ELSE @]
                   ELSE IF Supports(selected, "Smart", s.option["Smart"]) THEN selected
                   ELSE [selected EXCEPT !.option["Smart"] = other]
      BY <1>3 DEF selectDrive, drive
    <2> HIDE DEF selected, other, chosen
    <2> QED
      BY <1>3, <2>1
  <1>5. t = OnTab(chosen, 0)
    BY DEF enterDriveMode
  <1> HIDE DEF focused, selected, main, chosen
  <1>6. /\ Differs(s, chosen, {"focus", "selected_drive", "main_tab", "option"})
        /\ chosen.selected_drive = drive /\ chosen.option = option
    <2> DEFINE smart == [s.option EXCEPT !["Smart"] = other]
    <2>1. CASE Drive(selected).protected
      <3>1. option = s.option /\ chosen = [selected EXCEPT !.main_tab = main]
        BY <1>4, <2>1
      <3> HIDE DEF option
      <3> QED
        BY <1>3, <3>1 DEF Differs, Fields
    <2>2. CASE ~Drive(selected).protected /\ Supports(selected, "Smart", s.option["Smart"])
      <3>1. option = s.option /\ chosen = selected
        BY <1>4, <2>2
      <3> HIDE DEF option
      <3> QED
        BY <1>3, <3>1 DEF Differs, Fields
    <2>3. CASE ~Drive(selected).protected /\ ~Supports(selected, "Smart", s.option["Smart"])
      <3> HIDE DEF other
      <3>1. option = smart /\ chosen = [selected EXCEPT !.option = smart]
        BY <1>3, <1>4, <2>3
      <3> HIDE DEF option, smart
      <3> QED
        BY <1>3, <3>1 DEF Differs, Fields
    <2> QED
      BY <2>1, <2>2, <2>3
  <1>7. /\ Differs(s, t, {"focus", "selected_drive", "main_tab", "option", "mode"})
        /\ t.selected_drive = drive /\ t.option = option /\ t.main_tab = 0
        /\ t.mode = "DriveTabs" /\ t.focus = tab
    <2> HIDE DEF option
    <2> QED
      BY <1>5, <1>6 DEF OnTab, Differs, Fields
  <1>8. /\ t.drive_offset = s.drive_offset /\ t.job_offset = s.job_offset
        /\ t.bottom_tab = s.bottom_tab /\ t.content_offsets = s.content_offsets
        /\ t.dialog = s.dialog /\ t.choice = s.choice /\ t.return = s.return /\ t.jobs = s.jobs
        /\ t.layout = s.layout /\ DOMAIN t = Fields
    BY <1>7 DEF Differs, Fields
  <1>9. tab \in Controls
    BY ControlsInUse
  <1>10. /\ Drive(t) = Drive(selected) /\ Drive(t).protected \in BOOLEAN
         /\ \A f : featureWorkflows(selected, f) = featureWorkflows(t, f)
         /\ \A f, o : Supports(selected, f, o) <=> Supports(t, f, o)
    <2>1. t.selected_drive = selected.selected_drive /\ t.selected_drive \in 0..LastDrive
      BY <1>2, <1>3, <1>7
    <2>2. Drive(t) \in [protected : BOOLEAN, hdd : BOOLEAN]
      BY <1>1, <2>1, DriveHasTabs
    <2>3. Drive(t).protected \in BOOLEAN
      BY <2>2
    <2> HIDE DEF option, other
    <2>4. /\ Drive(t) = Drive(selected)
          /\ \A f : featureWorkflows(t, f) = featureWorkflows(selected, f)
          /\ \A f, o : Supports(t, f, o) <=> Supports(selected, f, o)
      BY <2>1, SameDrive
    <2> QED
      BY <2>3, <2>4
  <1>11. Placed(t)
    <2>1. visibleTabCount(t) \in 2..Len(plan.features) /\ Len(plan.features) \in Nat
      BY <1>1, <1>2, <1>7, DriveHasTabs, PlanIsSound DEF ScreenAssumption
    <2> QED
      BY <1>1, <1>2, <1>7, <2>1 DEF Placed
  <1>12. "Smart" \in DOMAIN plan.catalog
    <2>1. /\ plan.features[2] = "Smart" /\ Len(plan.features) >= 2 /\ plan.features \in Seq(Features)
          /\ DOMAIN plan.catalog = ToSet(plan.features) \ {"Overview"}
      BY <1>1, PlanIsSound DEF ScreenAssumption
    <2>2. 2 \in DOMAIN plan.features
      BY <2>1
    <2> QED
      BY <2>1, <2>2 DEF ToSet
  <1>13. other \in Int
    OBVIOUS
  <1>14. option \in [DOMAIN plan.catalog -> Int]
    <2> HIDE DEF other
    <2> QED
      BY <1>1, <1>12, <1>13
  <1>15. Supported(t)
    <2>1. SUFFICES ASSUME NEW g \in DOMAIN plan.catalog
                   PROVE  /\ option[g] + 1 \in DOMAIN plan.catalog[g]
                          /\ ~Drive(t).protected => Supports(t, g, option[g])
      BY <1>7 DEF Supported
    <2>2. s.option[g] + 1 \in DOMAIN plan.catalog[g]
      BY <1>1 DEF Sound, Supported
    <2>3. ~Drive(t).protected => featureWorkflows(t, g) = plan.catalog[g]
      BY <1>1, <1>2, <1>7, WorkflowsOfAFeature
    <2>4. CASE g # "Smart"
      <3>1. option[g] = s.option[g]
        <4> HIDE DEF other
        <4> QED
          BY <1>1, <2>4
      <3>2. ~plan.catalog[g][s.option[g] + 1].hdd_only
        BY <1>1, <2>2, <2>4, PlanIsSound DEF ScreenAssumption
      <3> HIDE DEF option
      <3> QED
        BY <2>2, <2>3, <3>1, <3>2 DEF Supports
    <2>5. CASE g = "Smart" /\ (Drive(selected).protected \/ Supports(selected, "Smart", s.option["Smart"]))
      <3>1. option = s.option
        BY <2>5
      <3> HIDE DEF option
      <3> QED
        BY <1>10, <2>2, <2>5, <3>1
    <2>6. CASE g = "Smart" /\ ~(Drive(selected).protected \/ Supports(selected, "Smart", s.option["Smart"]))
      <3>1. /\ plan.catalog[g] \in Seq(Workflows) /\ Len(plan.catalog[g]) \in Nat
            /\ Len(plan.catalog[g]) >= 2 /\ ~plan.catalog[g][2].hdd_only
        BY <1>1, <2>6, PlanIsSound, WorkflowsOfAFeature DEF ScreenAssumption, Placed
      <3>2. other = 1
        BY <1>10, <2>3, <2>6, <3>1
      <3> HIDE DEF other
      <3>3. option[g] = 1
        BY <1>1, <1>12, <2>6, <3>2
      <3>4. 2 \in DOMAIN plan.catalog[g]
        BY <3>1
      <3> HIDE DEF option
      <3> QED
        BY <2>3, <3>1, <3>3, <3>4 DEF Supports
    <2> QED
      BY <2>4, <2>5, <2>6
  <1> HIDE DEF option, tab
  <1>16. Typed(t)
    BY <1>1, <1>7, <1>8, <1>9, <1>11, <1>14 DEF Sound, Typed, Modes
  <1>17. Asked(t)
    BY <1>1, <1>7, <1>8 DEF Asked, InPlace
  <1> QED
    BY <1>1, <1>8, <1>15, <1>16, <1>17 DEF Sound, Free, Steady

-----------------------------------------------------------------------------
(* What the controls on the screen do. *)

\* The controls on the screen without a dialog: those of the list, the tabs of the drive
\* and those of the panel.
LEMMA HitsAre ==
    ASSUME NEW s, Free(s), NEW control \in Hits(s)
    PROVE  \/ control \in ListControls
           \/ \E tab \in 0..(visibleTabCount(s) - 1) : control = Control("MainTab", tab)
           \/ control \in ToSet(featureTargets(s)) /\ control.kind # "MainTab"
  <1>1. control \in MainHits(s)
    BY FreeHas DEF Hits
  <1>2. CASE control \in {Control(kind, 0) : kind \in {"Scan", "DriveUp", "DriveDown", "Settings", "Detach"}}
    BY <1>2, ListControlsAre DEF ListKinds
  <1>3. CASE control \in ToSet(ShownDrives(s)) \cup ToSet(BottomControls(s)) \cup ToSet(JobHits(s))
    <2> DEFINE C == ListControls
    <2>1. ShownDrives(s) \in Seq(C) /\ BottomControls(s) \in Seq(C) /\ JobHits(s) \in Seq(C)
      BY ListsAreControls
    <2> HIDE DEF C
    <2>2. control \in C
      BY <1>3, <2>1 DEF ToSet
    <2> QED
      BY <2>2 DEF C
  <1>4. CASE control \in ToSet(MainTabs(s))
    <2> DEFINE n == visibleTabCount(s)
    <2>1. n \in Nat
      BY FreeHas
    <2>2. MainTabs(s) = [i \in 1..n |-> Control("MainTab", i - 1)]
      BY DEF MainTabs
    <2> HIDE DEF n
    <2>3. PICK i \in 1..n : control = Control("MainTab", i - 1)
      BY <1>4, <2>2 DEF ToSet
    <2>4. i - 1 \in 0..(n - 1)
      BY <2>1
    <2> QED
      BY <2>3, <2>4 DEF n
  <1>5. CASE control \in PanelHits(s)
    BY <1>5 DEF PanelHits
  <1> QED
    BY <1>1, <1>2, <1>3, <1>4, <1>5 DEF MainHits

LEMMA OptionsAreFeatures ==
    ASSUME NEW s, Sound(s)
    PROVE  DOMAIN s.option \subseteq Features \ {"Overview"}
  <1>1. DOMAIN s.option = DOMAIN plan.catalog /\ Placed(s)
    BY DEF Sound, Typed
  <1> QED
    BY <1>1, WorkflowsOfAFeature DEF Placed

\* A control of the list.
LEMMA ListHitKeeps ==
    ASSUME NEW s, Free(s), NEW control \in ListControls, NEW t, t = applyHit(s, control)
    PROVE  /\ Sound(t)
           /\ t.jobs = s.jobs \/ (control.kind \in {"JobPrimary", "JobStop"} /\ Touches(s, t, control.value))
  <1> DEFINE v == control.value
             focused == [s EXCEPT !.focus = control]
             list == [focused EXCEPT !.mode = "DriveList"]
             RowAt(index) ==
                [list EXCEPT !.focus = Control("SelectDrive", Clamp(index, 0, LastDrive))]
  <1>1. /\ control \in Controls /\ control.kind \in ListKinds /\ v \in Int
        /\ control.kind = "BottomTab" => v \in {0, 1}
    BY DEF ListControls, Controls
  <1>2. DOMAIN s = Fields /\ Sound(s)
    BY FreeHas
  <1>3. control.kind \notin DOMAIN s.option
    BY <1>1, <1>2, OptionsAreFeatures DEF Features, ListKinds
  <1>4. /\ Differs(s, list, {"mode", "focus"}) /\ list.mode = "DriveList" /\ list.focus = control
    BY <1>2 DEF Differs, Fields
  <1>5. Free(list) /\ list.jobs = s.jobs
    BY <1>1, <1>4, FocusMoves DEF Modes, InPlace, Steady
  <1>6. CASE control.kind \in {"Settings", "Detach"}
    <2>1. t = openDialog(s, control.kind)
      BY <1>3, <1>6 DEF applyHit
    <2> QED
      BY <1>6, <2>1, OpenDialogKeeps DEF Dialogs, Steady
  <1>7. CASE control.kind = "SelectDrive"
    <2>1. t = enterDriveMode(focused, v)
      BY <1>3, <1>7 DEF applyHit
    <2> QED
      BY <1>1, <2>1, DriveModeKeeps DEF Steady
  <1>8. CASE control.kind = "BottomTab"
    <2>1. t = [list EXCEPT !.bottom_tab = v]
      BY <1>3, <1>8 DEF applyHit
    <2> HIDE DEF list
    <2> QED
      BY <1>1, <1>5, <1>8, <2>1, BottomTabKeeps DEF Steady
  <1>9. CASE control.kind = "Scan"
    <2>1. t = list
      BY <1>3, <1>9 DEF applyHit
    <2> QED
      BY <1>5, <2>1 DEF Free
  <1>10. CASE control.kind \in {"DriveUp", "DriveDown"}
    <2> DEFINE up == s.drive_offset - 1
               down == s.drive_offset + s.layout.visible_drives
    <2>1. t = RowAt(up) \/ t = RowAt(down)
      BY <1>3, <1>10 DEF applyHit
    <2>2. up \in Int /\ down \in Int /\ LastDrive \in Int
      BY FreeHas
    <2> HIDE DEF list, up, down
    <2>3. \A index \in Int : Clamp(index, 0, LastDrive) \in Int
      BY <2>2 DEF Clamp
    <2>4. \A index \in Int : Control("SelectDrive", Clamp(index, 0, LastDrive)) \in Controls
      BY <2>3, ControlsInUse
    <2>5. PICK row \in Controls : t = [list EXCEPT !.focus = row]
      BY <2>1, <2>2, <2>4
    <2>6. list.mode # "FeaturePanel"
      BY <1>4
    <2>7. Free(t) /\ Steady(list, t)
      BY <1>5, <2>5, <2>6, ListFocusMoves
    <2> QED
      BY <1>5, <2>7 DEF Steady
  <1>11. CASE control.kind \in {"BottomUp", "BottomDown"}
    <2>1. t = scrollBottom(list, -1) \/ t = scrollBottom(list, 1)
      BY <1>3, <1>11 DEF applyHit
    <2> HIDE DEF list
    <2> QED
      BY <1>5, <2>1, ScrollBottomKeeps DEF Steady
  <1>12. CASE control.kind \in {"JobPrimary", "JobStop"}
    <2>1. PICK u \in {applyJobPrimary(list, v), applyJobStop(list, v)} :
                t = normalizeJobControlFocus(u)
      BY <1>3, <1>12 DEF applyHit
    <2> HIDE DEF list
    <2>2. Free(u) /\ Touches(list, u, v)
      BY <1>5, <2>1, JobCommandsKeep
    <2>3. Sound(t) /\ t.jobs = u.jobs
      BY <2>1, <2>2, LostControlKeeps DEF Free
    <2>4. Touches(s, t, v)
      BY <1>5, <2>2, <2>3 DEF Touches
    <2> QED
      BY <1>12, <2>3, <2>4
  <1> QED
    BY <1>1, <1>6, <1>7, <1>8, <1>9, <1>10, <1>11, <1>12 DEF ListKinds

\* A control of the panel: it chooses an option, or asks whether to run the workflow.
LEMMA PanelHitKeeps ==
    ASSUME NEW s, Free(s), NEW control \in ToSet(featureTargets(s)), control.kind # "MainTab",
           NEW t, t = applyHit(s, control)
    PROVE  Sound(t) /\ t.jobs = s.jobs
  <1> DEFINE focused == [s EXCEPT !.focus = control]
             panel == [focused EXCEPT !.mode = "FeaturePanel"]
             f == selectedFeature(s)
             option == [s.option EXCEPT ![control.kind] = control.value]
  <1>1. /\ DOMAIN s = Fields /\ Sound(s) /\ Placed(s) /\ s.content_offsets \in Offsets
        /\ DOMAIN s.option = DOMAIN plan.catalog
    BY FreeHas DEF Sound, Typed
  <1>2. DOMAIN s.option \subseteq Features \ {"Overview"}
    BY <1>1, OptionsAreFeatures
  <1>3. /\ Differs(s, panel, {"mode", "content_offsets", "focus", "option"})
        /\ panel.mode = "FeaturePanel" /\ panel.focus = control /\ panel.option = s.option
        /\ panel.content_offsets = s.content_offsets
    BY <1>1 DEF Differs, Fields
  <1>4. \/ control = Control("OpenWorkflow", 0)
        \/ control.kind = f /\ control.kind \in DOMAIN plan.catalog
    <2>1. featureWorkflows(s, f) # <<>>
      BY <1>1, TargetsOfAPanel, ControlsAre
    <2> QED
      BY <1>1, <2>1, TargetsOfAPanel
  <1>5. CASE control = Control("OpenWorkflow", 0)
    <2>1. control.kind = "OpenWorkflow"
      BY <1>5, ControlsAre
    <2>2. control.kind \notin DOMAIN s.option
      BY <1>2, <2>1 DEF Features
    <2>3. t = openWorkflowDialog(panel)
      BY <2>1, <2>2 DEF applyHit
    <2> HIDE DEF panel
    <2>4. Free(panel) /\ panel.jobs = s.jobs
      BY <1>1, <1>3, <2>2, PanelFocusMoves DEF Steady
    <2> QED
      BY <1>3, <2>3, <2>4, WorkflowDialogKeeps DEF Steady
  <1>6. CASE control.kind \in DOMAIN plan.catalog
    <2>1. control.kind \in DOMAIN s.option /\ control.kind \in Features
      BY <1>1, <1>2, <1>6
    <2>2. t = [panel EXCEPT !.option[control.kind] = control.value]
      BY <2>1 DEF applyHit, Features
    <2> HIDE DEF panel
    <2>3. t = [panel EXCEPT !.option = option]
      BY <1>3, <2>2
    <2> HIDE DEF option
    <2>4. /\ Differs(s, t, {"mode", "content_offsets", "focus", "option"})
          /\ t.mode = "FeaturePanel" /\ t.focus = control /\ t.option = option
          /\ t.content_offsets = s.content_offsets
      BY <1>3, <2>3 DEF Differs, Fields
    <2> QED
      BY <1>1, <2>1, <2>4, PanelFocusMoves DEF Steady, Free, option
  <1> QED
    BY <1>4, <1>5, <1>6

\* A click on what is on the screen without a dialog.
LEMMA HitKeeps ==
    ASSUME NEW s, Free(s), NEW control \in Hits(s), NEW t, t = applyHit(s, control)
    PROVE  /\ Sound(t)
           /\ t.jobs = s.jobs \/ (control.kind \in {"JobPrimary", "JobStop"} /\ Touches(s, t, control.value))
  <1>1. CASE control \in ListControls
    BY <1>1, ListHitKeeps
  <1>2. ASSUME NEW tab \in 0..(visibleTabCount(s) - 1), control = Control("MainTab", tab)
        PROVE  Sound(t) /\ t.jobs = s.jobs
    <2> DEFINE n == visibleTabCount(s)
    <2>1. control.kind = "MainTab" /\ control.value = tab
      BY <1>2, ControlsAre
    <2>2. "MainTab" \notin DOMAIN s.option
      BY FreeHas, OptionsAreFeatures DEF Features
    <2>3. t = OnTab(s, Clamp(tab, 0, n - 1))
      BY <2>1, <2>2 DEF applyHit
    <2>4. n \in Nat /\ tab \in 0..(n - 1)
      BY FreeHas
    <2> HIDE DEF n
    <2>5. Clamp(tab, 0, n - 1) = tab
      BY <2>4 DEF Clamp
    <2>6. t = OnTab(s, tab)
      BY <2>3, <2>5
    <2> QED
      BY <2>6, OnTabKeeps DEF Steady
  <1>3. CASE control \in ToSet(featureTargets(s)) /\ control.kind # "MainTab"
    BY <1>3, PanelHitKeeps
  <1> QED
    BY <1>1, <1>2, <1>3, HitsAre

-----------------------------------------------------------------------------
(* The keys, and the answers of a dialog. *)

\* What a control or a key does without a dialog: at most one job is touched.
Handled(s, t) ==
    Sound(t) /\ Len(t.jobs) = Len(s.jobs)

LEMMA SteadyIsHandled ==
    ASSUME NEW s, NEW t, Steady(s, t)
    PROVE  Handled(s, t)
  BY DEF Steady, Handled

LEMMA CommonKeyKeeps ==
    ASSUME NEW s, Free(s), NEW key, NEW t, t = CommonKey(s, key)
    PROVE  Steady(s, t)
  <1> DEFINE scan == [s EXCEPT !.mode = "DriveList", !.focus = Control("Scan", 0)]
             Bottom(tab) == [s EXCEPT !.mode = "DriveList", !.bottom_tab = tab,
                                      !.focus = Control("BottomTab", tab)]
  <1>1. CASE key = "q"
    <2>1. t = openDialog(s, "Detach")
      BY <1>1 DEF CommonKey
    <2> QED
      BY <2>1, OpenDialogKeeps DEF Dialogs
  <1>2. CASE key = "Q"
    <2>1. t = openTerminateDialog(s)
      BY <1>2 DEF CommonKey
    <2> QED
      BY <2>1, TerminateDialogKeeps
  <1>3. CASE key \in {"PageUp", "PageDown"}
    <2>1. t = scrollBottom(s, -1) \/ t = scrollBottom(s, 1)
      BY <1>3 DEF CommonKey
    <2> QED
      BY <2>1, ScrollBottomKeeps
  <1>4. CASE key = "r"
    <2>1. t = scan
      BY <1>4 DEF CommonKey
    <2>2. Control("Scan", 0) \in Controls
      BY ControlsInUse
    <2> QED
      BY <2>1, <2>2, ListFocusMoves
  <1>5. CASE key \in {"e", "j"}
    <2>1. PICK tab \in {0, 1} : t = Bottom(tab)
      BY <1>5 DEF CommonKey
    <2> DEFINE control == Control("BottomTab", tab)
               moved == [s EXCEPT !.mode = "DriveList", !.focus = control]
    <2>2. control \in Controls
      BY ControlsInUse
    <2>3. t = [s EXCEPT !.mode = "DriveList", !.bottom_tab = tab, !.focus = control]
      BY <2>1
    <2> HIDE DEF control
    <2>4. Free(moved) /\ Steady(s, moved)
      BY <2>2, ListFocusMoves
    <2>5. t = [moved EXCEPT !.bottom_tab = tab]
      <3>1. DOMAIN s = Fields
        BY FreeHas
      <3> QED
        BY <2>3, <3>1 DEF Fields
    <2> HIDE DEF moved
    <2>6. Free(t) /\ Steady(moved, t)
      BY <2>4, <2>5, BottomTabKeeps
    <2> QED
      BY <2>4, <2>6 DEF Steady
  <1>6. CASE key \notin {"q", "Q", "PageUp", "PageDown", "r", "e", "j"}
    <2>1. t = selectFeatureShortcut(s, key)
      BY <1>6 DEF CommonKey
    <2> QED
      BY <2>1, TabKeysKeep
  <1> QED
    BY <1>1, <1>2, <1>3, <1>4, <1>5, <1>6

LEMMA ListKeyKeeps ==
    ASSUME NEW s, Free(s), s.mode = "DriveList", NEW key, NEW t, t = DriveListKey(s, key)
    PROVE  Handled(s, t)
  <1> DEFINE drives == s.focus.kind \in {"Scan", "SelectDrive", "DriveUp", "DriveDown"}
             bottom == s.focus.kind \in {"BottomTab", "BottomUp", "BottomDown", "JobPrimary", "JobStop"}
             delta == IF key = "Up" THEN -1 ELSE 1
  <1>1. \/ t = cycleFocus(s, 1) \/ t = cycleFocus(s, -1)
        \/ t = moveDriveFocus(s, -1) \/ t = moveDriveFocus(s, 1)
        \/ t = scrollBottom(s, -1) \/ t = scrollBottom(s, 1)
        \/ s.focus \in Hits(s) /\ t = applyHit(s, s.focus)
        \/ t = s
    <2>1. delta = -1 \/ delta = 1
      OBVIOUS
    <2>2. CASE key = "Tab"
      BY <2>2 DEF DriveListKey
    <2>3. CASE key = "BackTab"
      BY <2>3 DEF DriveListKey
    <2>4. CASE key \in {"Up", "Down"} /\ drives
      <3>1. t = moveDriveFocus(s, delta)
        BY <2>4 DEF DriveListKey
      <3> HIDE DEF delta
      <3> QED
        BY <2>1, <3>1
    <2>5. CASE key \in {"Up", "Down"} /\ bottom
      <3>1. t = scrollBottom(s, delta)
        BY <2>5 DEF DriveListKey
      <3> HIDE DEF delta
      <3> QED
        BY <2>1, <3>1
    <2>6. CASE key = "Enter" /\ s.focus \in Hits(s)
      BY <2>6 DEF DriveListKey
    <2>7. CASE /\ key \notin {"Tab", "BackTab"}
               /\ ~(key \in {"Up", "Down"} /\ drives)
               /\ ~(key \in {"Up", "Down"} /\ bottom)
               /\ ~(key = "Enter" /\ s.focus \in Hits(s))
      BY <2>7 DEF DriveListKey
    <2> HIDE DEF drives, bottom, delta
    <2> QED
      BY <2>2, <2>3, <2>4, <2>5, <2>6, <2>7
  <1>2. CASE s.focus \in Hits(s) /\ t = applyHit(s, s.focus)
    BY <1>2, HitKeeps DEF Handled, Touches
  <1>3. CASE t = cycleFocus(s, 1) \/ t = cycleFocus(s, -1)
    BY <1>3, CycleKeeps, SteadyIsHandled
  <1>4. CASE t = moveDriveFocus(s, -1) \/ t = moveDriveFocus(s, 1)
    BY <1>4, DriveFocusKeeps, SteadyIsHandled
  <1>5. CASE t = scrollBottom(s, -1) \/ t = scrollBottom(s, 1)
    BY <1>5, ScrollBottomKeeps, SteadyIsHandled
  <1>6. CASE t = s
    BY <1>6 DEF Handled, Free
  <1> QED
    BY <1>1, <1>2, <1>3, <1>4, <1>5, <1>6

LEMMA TabsKeyKeeps ==
    ASSUME NEW s, Free(s), NEW key, NEW t, t = DriveTabsKey(s, key)
    PROVE  Handled(s, t)
  <1>1. CASE t = cycleFocus(s, 1) \/ t = cycleFocus(s, -1)
    BY <1>1, CycleKeeps, SteadyIsHandled
  <1>2. CASE t = moveFeatureTab(s, -1) \/ t = moveFeatureTab(s, 1)
    BY <1>2, TabKeysKeep, SteadyIsHandled
  <1>3. CASE t = enterFeaturePanel(s)
    BY <1>3, EnterPanelKeeps, SteadyIsHandled
  <1>4. CASE t = returnToDriveList(s)
    BY <1>4, ReturnKeeps, SteadyIsHandled
  <1>5. CASE t = s
    BY <1>5 DEF Handled, Free
  <1> QED
    BY <1>1, <1>2, <1>3, <1>4, <1>5 DEF DriveTabsKey

LEMMA PanelKeyKeeps ==
    ASSUME NEW s, Free(s), s.mode = "FeaturePanel", NEW key, NEW t, t = FeaturePanelKey(s, key)
    PROVE  Handled(s, t)
  <1>1. CASE t = cycleFeatureFocus(s, 1) \/ t = cycleFeatureFocus(s, -1)
    BY <1>1, FeatureFocusKeeps, SteadyIsHandled
  <1>2. CASE t = openWorkflowDialog(s)
    BY <1>2, WorkflowDialogKeeps, SteadyIsHandled
  <1>3. CASE t = OnTab(s, s.main_tab)
    BY <1>3, FreeHas, OnTabKeeps, SteadyIsHandled
  <1>4. CASE t = s
    BY <1>4 DEF Handled, Free
  <1> QED
    BY <1>1, <1>2, <1>3, <1>4 DEF FeaturePanelKey

LEMMA KeyKeeps ==
    ASSUME NEW s, Free(s), NEW key, NEW t, t = handleKey(s, key)
    PROVE  Handled(s, t)
  <1>1. s.dialog = "None" /\ s.mode \in Modes
    BY FreeHas
  <1>2. CASE t = CommonKey(s, key)
    BY <1>2, CommonKeyKeeps, SteadyIsHandled
  <1>3. CASE s.mode = "DriveList" /\ t = DriveListKey(s, key)
    BY <1>3, ListKeyKeeps
  <1>4. CASE s.mode = "DriveTabs" /\ t = DriveTabsKey(s, key)
    BY <1>4, TabsKeyKeeps
  <1>5. CASE s.mode = "FeaturePanel" /\ t = FeaturePanelKey(s, key)
    BY <1>5, PanelKeyKeeps
  <1> QED
    BY <1>1, <1>2, <1>3, <1>4, <1>5 DEF handleKey, Modes

\* What ends a dialog: it changes nothing but the focus, or runs what it asked about.
Answers(s, t) ==
    Free(t) /\ (t.jobs = s.jobs \/ (s.dialog = "Workflow" /\ Adds(s, t)))

LEMMA AnswersAre ==
    ASSUME NEW s, Sound(s), s.dialog # "None", NEW t,
           t = closeDialog(s) \/ (s.dialog = "Workflow" /\ t = runSelectedWorkflowSimulation(closeDialog(s)))
    PROVE  Answers(s, t)
  <1> DEFINE c == closeDialog(s)
  <1>1. Free(c) /\ c.jobs = s.jobs
    BY CloseDialogKeeps DEF Steady
  <1> HIDE DEF c
  <1>2. CASE t = closeDialog(s)
    BY <1>1, <1>2 DEF Answers, c
  <1>3. CASE s.dialog = "Workflow" /\ t = runSelectedWorkflowSimulation(closeDialog(s))
    <2>1. t = runSelectedWorkflowSimulation(c)
      BY <1>3 DEF c
    <2>2. Free(t) /\ (t.jobs = c.jobs \/ Adds(c, t))
      BY <1>1, <2>1, RunKeeps
    <2> QED
      BY <1>1, <1>3, <2>2 DEF Answers, Adds
  <1> QED
    BY <1>2, <1>3

\* The answer that Enter gives, or a click.
Leaving(s, answer) == answer = "Confirm" /\ s.dialog \in {"Detach", "Terminate"}

LEMMA DialogKeyKeeps ==
    ASSUME NEW s, Sound(s), s.dialog # "None", NEW key, ~(key = "Enter" /\ Leaving(s, s.choice)),
           NEW t, t = DialogKey(s, key)
    PROVE  Answers(s, t) \/ (Sound(t) /\ Differs(s, t, {"choice", "focus"}))
  <1> DEFINE other == IF s.choice = "Cancel" THEN "Confirm" ELSE "Cancel"
             answer == Control(other, 0)
  <1>1. DOMAIN s = Fields /\ s.choice \in {"Cancel", "Confirm"} /\ s.dialog \in Dialogs
    BY DEF Sound, Typed
  <1>2. CASE t = s
    BY <1>1, <1>2 DEF Differs
  <1>3. CASE t = closeDialog(s)
    BY <1>3, AnswersAre
  <1>4. CASE /\ t = runSelectedWorkflowSimulation(closeDialog(s))
             /\ key = "Enter" /\ s.choice # "Cancel" /\ s.dialog # "Settings"
    <2>1. s.dialog = "Workflow"
      BY <1>1, <1>4 DEF Leaving, Dialogs
    <2> QED
      BY <1>4, <2>1, AnswersAre
  <1>5. CASE t = [s EXCEPT !.choice = other, !.focus = answer] /\ s.dialog # "Settings"
    <2>1. other \in {"Cancel", "Confirm"}
      OBVIOUS
    <2>2. answer = Control(other, 0) /\ answer \in Controls
      BY <2>1, ControlsInUse
    <2> HIDE DEF other, answer
    <2>3. Differs(s, t, {"choice", "focus"}) /\ t.choice = other /\ t.focus = answer
      BY <1>1, <1>5 DEF Differs, Fields
    <2>4. /\ t.selected_drive = s.selected_drive /\ t.main_tab = s.main_tab /\ t.option = s.option
          /\ t.drive_offset = s.drive_offset /\ t.job_offset = s.job_offset /\ t.mode = s.mode
          /\ t.bottom_tab = s.bottom_tab /\ t.content_offsets = s.content_offsets
          /\ t.dialog = s.dialog /\ t.return = s.return
          /\ t.jobs = s.jobs /\ t.layout = s.layout /\ DOMAIN t = Fields
      BY <2>3 DEF Differs, Fields
    <2>5. /\ s.drive_offset \in Int /\ s.job_offset \in Int /\ s.bottom_tab \in {0, 1}
          /\ s.content_offsets \in Offsets /\ s.jobs \in Seq(JobType) /\ s.layout \in Layouts
          /\ s.mode \in Modes /\ s.return \in [mode : Modes, focus : Controls]
      BY DEF Sound, Typed
    <2>6. /\ InPlace(s, s.return.mode, s.return.focus)
          /\ s.dialog = "Workflow" =>
              s.return.mode = "FeaturePanel" /\ selectedFeature(s) # "Overview" /\ ~Drive(s).protected
      BY DEF Sound, Asked
    <2>7. t.focus = Control(IF t.dialog = "Settings" THEN "CloseSettings" ELSE t.choice, 0)
      BY <1>5, <2>2, <2>3, <2>4
    <2>8. Sound(t)
      BY <1>1, <2>1, <2>2, <2>3, <2>4, <2>5, <2>6, <2>7, StaysSound
    <2> QED
      BY <2>3, <2>8
  <1> QED
    BY <1>2, <1>3, <1>4, <1>5 DEF DialogKey

LEMMA DialogHitKeeps ==
    ASSUME NEW s, Sound(s), s.dialog # "None", NEW control \in Hits(s), ~Leaving(s, control.kind),
           NEW t, t = applyHit(s, control)
    PROVE  Answers(s, t)
  <1>1. control \in DialogHits(s)
    BY DEF Hits
  <1>2. s.dialog \in Dialogs
    BY DEF Sound, Typed
  <1>3. \/ control.kind \in {"Cancel", "CloseSettings"}
        \/ control.kind = "Confirm" /\ s.dialog # "Settings"
    BY <1>1, ControlsAre DEF DialogHits
  <1>4. control.kind \notin DOMAIN s.option
    BY <1>3, OptionsAreFeatures DEF Features
  <1>5. CASE control.kind \in {"Cancel", "CloseSettings"}
    <2>1. t = closeDialog(s)
      BY <1>4, <1>5 DEF applyHit
    <2> QED
      BY <2>1, AnswersAre
  <1>6. CASE control.kind = "Confirm" /\ s.dialog # "Settings"
    <2>1. t = runSelectedWorkflowSimulation(closeDialog(s))
      BY <1>4, <1>6 DEF applyHit
    <2>2. s.dialog = "Workflow"
      BY <1>2, <1>6 DEF Leaving, Dialogs
    <2> QED
      BY <2>1, <2>2, AnswersAre
  <1> QED
    BY <1>3, <1>5, <1>6

-----------------------------------------------------------------------------
(* The turns of the loop: what becomes of the state before it is drawn. *)

\* While time passes jobs start and end.
Passes(s, t) ==
    /\ Len(t.jobs) = Len(s.jobs)
    /\ \A i \in 1..Len(s.jobs) :
          \/ Starts(s.jobs[i], t.jobs[i])
          \/ s.jobs[i].state = "Running" /\ t.jobs[i].state = "Ended"

\* Without a dialog no turn creates a job; with one it is answered, or stays.
Turned(s, t) ==
    /\ Sound(t)
    /\ s.dialog = "None" => Len(t.jobs) = Len(s.jobs)
    /\ s.dialog # "None" =>
          \/ Answers(s, t)
          \/ Differs(s, t, {"choice", "focus", "jobs", "job_offset", "layout"}) /\ Passes(s, t)

LEMMA SameJobsPass ==
    ASSUME NEW s, NEW t, t.jobs = s.jobs
    PROVE  Passes(s, t)
  BY DEF Passes, Starts

LEMMA TickTurns ==
    ASSUME NEW s, Sound(s), NEW ended \in SUBSET {i \in DOMAIN s.jobs : s.jobs[i].state = "Running"},
           NEW t,
           t = normalizeJobControlFocus(refreshCoreState(s, InState(s.jobs, ended, "Ended")))
    PROVE  Turned(s, t) /\ Len(t.jobs) = Len(s.jobs)
  <1> DEFINE jobs == InState(s.jobs, ended, "Ended")
             r == refreshCoreState(s, jobs)
  <1>1. s.jobs \in Seq(JobType) /\ "Ended" \in JobStates \ {"Queued"}
    BY DEF Sound, Typed, JobStates
  <1>2. /\ jobs \in Seq(JobType) /\ Len(jobs) = Len(s.jobs)
        /\ \A i \in 1..Len(s.jobs) : i \notin ended => Starts(s.jobs[i], jobs[i])
        /\ \A i \in 1..Len(s.jobs) : i \in ended => jobs[i].state = "Ended"
    BY <1>1, InStateChanges
  <1> HIDE DEF jobs
  <1>3. Sound(r) /\ r.jobs = jobs /\ Differs(s, r, {"jobs", "job_offset"})
    BY <1>2, RefreshKeepsSound
  <1>4. t = normalizeJobControlFocus(r)
    BY DEF jobs
  <1> HIDE DEF r
  <1>5. /\ Sound(t) /\ t.jobs = r.jobs /\ Differs(r, t, {"mode", "focus"})
        /\ r.dialog # "None" => t = r
    BY <1>3, <1>4, LostControlKeeps
  <1>6. r.dialog = s.dialog
    BY <1>3 DEF Differs, Fields
  <1>7. Passes(s, t)
    BY <1>2, <1>3, <1>5 DEF Passes
  <1>8. s.dialog # "None" => Differs(s, t, {"choice", "focus", "jobs", "job_offset", "layout"})
    BY <1>3, <1>5, <1>6 DEF Differs
  <1> QED
    BY <1>2, <1>3, <1>5, <1>7, <1>8 DEF Turned

LEMMA ResizeTurns ==
    ASSUME NEW s, Sound(s), NEW size \in plan.sizes, NEW t, t = [s EXCEPT !.layout = makeLayout(size)]
    PROVE  Turned(s, t)
  <1> DEFINE layout == makeLayout(size)
  <1>1. /\ DOMAIN s = Fields /\ s.drive_offset \in Int /\ s.job_offset \in Int
        /\ s.content_offsets \in Offsets /\ s.jobs \in Seq(JobType)
    BY DEF Sound, Typed
  <1>2. layout \in Layouts
    BY DEF Layouts
  <1> HIDE DEF layout
  <1>3. Differs(s, t, {"layout"}) /\ t.layout = layout
    BY <1>1 DEF Differs, Fields, layout
  <1>4. /\ Differs(s, t, ViewFields) /\ t.drive_offset = s.drive_offset
        /\ t.job_offset = s.job_offset /\ t.content_offsets = s.content_offsets /\ t.jobs = s.jobs
    BY <1>3 DEF Differs, Fields, ViewFields
  <1>5. Sound(t)
    BY <1>1, <1>2, <1>3, <1>4, StaysAsked
  <1>6. Differs(s, t, {"choice", "focus", "jobs", "job_offset", "layout"})
    BY <1>3 DEF Differs
  <1> QED
    BY <1>4, <1>5, <1>6, SameJobsPass DEF Turned

LEMMA KeyTurns ==
    ASSUME NEW s, Sound(s), NEW key, ~(key = "Enter" /\ Leaving(s, s.choice)),
           NEW t, t = handleKey(s, key)
    PROVE  Turned(s, t)
  <1>1. CASE s.dialog = "None"
    <2>1. Handled(s, t)
      BY <1>1, KeyKeeps DEF Free
    <2> QED
      BY <1>1, <2>1 DEF Handled, Turned
  <1>2. CASE s.dialog # "None"
    <2>1. t = DialogKey(s, key)
      BY <1>2 DEF handleKey
    <2>2. Answers(s, t) \/ (Sound(t) /\ Differs(s, t, {"choice", "focus"}))
      BY <1>2, <2>1, DialogKeyKeeps
    <2>3. CASE Answers(s, t)
      BY <1>2, <2>3 DEF Turned, Answers, Free
    <2>4. CASE Sound(t) /\ Differs(s, t, {"choice", "focus"})
      <3>1. t.jobs = s.jobs /\ Differs(s, t, {"choice", "focus", "jobs", "job_offset", "layout"})
        BY <2>4 DEF Differs, Fields
      <3> QED
        BY <1>2, <2>4, <3>1, SameJobsPass DEF Turned
    <2> QED
      BY <2>2, <2>3, <2>4
  <1> QED
    BY <1>1, <1>2

LEMMA HitTurns ==
    ASSUME NEW s, Sound(s), NEW control \in Hits(s), ~Leaving(s, control.kind),
           NEW t, t = applyHit(s, control)
    PROVE  Turned(s, t)
  <1>1. CASE s.dialog = "None"
    <2>1. Sound(t) /\ Len(t.jobs) = Len(s.jobs)
      BY <1>1, HitKeeps DEF Free, Touches
    <2> QED
      BY <1>1, <2>1 DEF Turned
  <1>2. CASE s.dialog # "None"
    <2>1. Answers(s, t)
      BY <1>2, DialogHitKeeps
    <2> QED
      BY <1>2, <2>1 DEF Turned, Answers, Free
  <1> QED
    BY <1>1, <1>2

LEMMA WheelTurns ==
    ASSUME NEW s, Free(s), NEW delta \in {-1, 1},
           NEW t, t \in {scrollBottom(s, delta), scrollDriveViewport(s, delta), scrollMainContent(s, delta)}
    PROVE  Turned(s, t) /\ Len(t.jobs) = Len(s.jobs)
  <1>1. Steady(s, t)
    BY ScrollBottomKeeps, ScrollDrivesKeeps, ScrollContentKeeps
  <1> QED
    BY <1>1 DEF Turned, Steady, Free

-----------------------------------------------------------------------------
(* The invariant. *)

\* A button that is held down names its job by its place from the end of the list.
HeldJob == pressed # Nothing => pressed.job = Len(ui.jobs) - pressed.control.value

UiInv ==
    /\ Sound(ui)
    /\ ui.layout.valid => ui.focus \in Hits(ui)
    /\ HeldJob

\* At first the session shows its first drive, and of every feature a workflow is chosen.
Beginning(s) ==
    /\ DOMAIN s = Fields
    /\ s.selected_drive = 0 /\ s.drive_offset = 0 /\ s.main_tab = 0 /\ s.bottom_tab = 0
    /\ s.job_offset = 0 /\ s.content_offsets \in Offsets
    /\ s.mode = "DriveList" /\ s.focus \in Controls
    /\ s.option \in [DOMAIN plan.catalog -> Int]
    /\ \A f \in DOMAIN plan.catalog : s.option[f] = IF f = "Smart" THEN 1 ELSE 0
    /\ s.dialog = "None" /\ s.choice = "Cancel" /\ s.return \in [mode : Modes, focus : Controls]
    /\ s.jobs = <<>> /\ s.layout \in Layouts

LEMMA BeginningIsSound ==
    ASSUME plan \in Screens, NEW s, Beginning(s)
    PROVE  Sound(s)
  <1> DEFINE option == s.option
  <1>1. /\ s.selected_drive = 0 /\ s.main_tab = 0 /\ s.option = option
        /\ s.mode = "DriveList" /\ s.dialog = "None"
    BY DEF Beginning
  <1>2. \A f \in DOMAIN plan.catalog : option[f] = IF f = "Smart" THEN 1 ELSE 0
    BY DEF Beginning
  <1> HIDE DEF option
  <1>3. 0 \in 0..LastDrive
    <2> DEFINE D == [protected : BOOLEAN, hdd : BOOLEAN]
    <2>1. plan.drives \in Seq(D) \ {<<>>}
      BY PlanIsSound DEF ScreenAssumption
    <2> HIDE DEF D
    <2>2. Len(plan.drives) \in Nat /\ Len(plan.drives) # 0
      BY <2>1, EmptySeq
    <2> QED
      BY <2>2 DEF LastDrive
  <1>4. Placed(s)
    <2>1. s.selected_drive \in 0..LastDrive
      BY <1>1, <1>3
    <2>2. visibleTabCount(s) \in 2..Len(plan.features)
      BY <2>1, DriveHasTabs
    <2>3. plan.features \in Seq(Features)
      BY PlanIsSound DEF ScreenAssumption
    <2>4. Len(plan.features) \in Nat
      BY <2>3
    <2> QED
      BY <1>1, <2>1, <2>2, <2>4 DEF Placed
  <1>5. Typed(s)
    <2>1. <<>> \in Seq(JobType)
      BY EmptySeq
    <2> QED
      BY <1>4, <2>1 DEF Beginning, Typed, Modes, Dialogs
  <1>6. Supported(s)
    <2>1. SUFFICES ASSUME NEW g \in DOMAIN plan.catalog
                   PROVE  /\ option[g] + 1 \in DOMAIN plan.catalog[g]
                          /\ ~Drive(s).protected => Supports(s, g, option[g])
      BY <1>1 DEF Supported
    <2>2. /\ plan.catalog[g] \in Seq(Workflows) /\ Len(plan.catalog[g]) \in Nat
          /\ Len(plan.catalog[g]) >= 1
          /\ ~Drive(s).protected => featureWorkflows(s, g) = plan.catalog[g]
      BY <1>4, WorkflowsOfAFeature DEF Placed
    <2>3. CASE g = "Smart"
      <3>1. Len(plan.catalog[g]) >= 2 /\ ~plan.catalog[g][2].hdd_only /\ option[g] = 1
        BY <1>2, <2>3, PlanIsSound DEF ScreenAssumption
      <3>2. 2 \in DOMAIN plan.catalog[g]
        BY <2>2, <3>1
      <3> QED
        BY <2>2, <3>1, <3>2 DEF Supports
    <2>4. CASE g # "Smart"
      <3>1. option[g] = 0 /\ \A i \in DOMAIN plan.catalog[g] : ~plan.catalog[g][i].hdd_only
        BY <1>2, <2>4, PlanIsSound DEF ScreenAssumption
      <3>2. 1 \in DOMAIN plan.catalog[g]
        BY <2>2
      <3> QED
        BY <2>2, <3>1, <3>2 DEF Supports
    <2> QED
      BY <2>3, <2>4
  <1>7. Asked(s)
    BY <1>1 DEF Asked, InPlace
  <1> QED
    BY <1>5, <1>6, <1>7 DEF Sound

LEMMA InitIsSound ==
    ASSUME Init
    PROVE  UiInv
  <1>1. plan \in Screens /\ pressed = Nothing
    BY DEF Init
  <1> DEFINE X == [tab \in 0..(Len(plan.features) - 1) |-> 0]
             option == [f \in DOMAIN plan.catalog |-> IF f = "Smart" THEN 1 ELSE 0]
             scan == Control("Scan", 0)
             from == [mode |-> "DriveList", focus |-> scan]
             First(layout) ==
                [selected_drive |-> 0, drive_offset |-> 0, main_tab |-> 0, bottom_tab |-> 0,
                 job_offset |-> 0, content_offsets |-> X, mode |-> "DriveList", focus |-> scan,
                 option |-> option, dialog |-> "None", choice |-> "Cancel", return |-> from,
                 jobs |-> <<>>, layout |-> layout]
  <1>2. PICK size \in plan.sizes : ui = Settled(First(makeLayout(size)))
    BY DEF Init
  <1> DEFINE layout == makeLayout(size)
  <1>3. X \in Offsets /\ layout \in Layouts
    BY DEF Offsets, Layouts
  <1>4. /\ option \in [DOMAIN plan.catalog -> Int]
        /\ \A f \in DOMAIN plan.catalog : option[f] = IF f = "Smart" THEN 1 ELSE 0
    OBVIOUS
  <1>5. scan \in Controls
    BY ControlsInUse
  <1>6. from \in [mode : Modes, focus : Controls]
    BY <1>5 DEF Modes
  <1> HIDE DEF X, option, scan, from, layout
  <1>7. Beginning(First(layout))
    BY <1>3, <1>4, <1>5, <1>6 DEF Beginning, Fields
  <1>8. ui = Settled(First(layout))
    BY <1>2 DEF layout
  <1> HIDE DEF First
  <1>9. Sound(First(layout))
    BY <1>1, <1>7, BeginningIsSound
  <1>10. Sound(ui) /\ (ui.layout.valid => ui.focus \in Hits(ui))
    BY <1>8, <1>9, SettledIsVisible
  <1> QED
    BY <1>1, <1>10 DEF UiInv, HeldJob

\* A step draws what a turn left, or changes nothing of the screen; and a button that is
\* still held down is so with as many jobs as before, or went down just now.
StepIs ==
    /\ plan' = plan
    /\ ui' = ui \/ \E t : Turned(ui, t) /\ ui' = Settled(t)
    /\ \/ pressed' = Nothing
       \/ pressed' = pressed /\ Len(ui'.jobs) = Len(ui.jobs)
       \/ ui' = ui /\ pressed'.job = Len(ui.jobs) - pressed'.control.value

LEMMA SettledKeepsJobs ==
    ASSUME NEW s, Sound(s)
    PROVE  Settled(s).jobs = s.jobs
  BY SettledIsVisible DEF Differs, Fields

LEMMA ActivateSteps ==
    ASSUME Sound(ui), NEW control \in Hits(ui), Activate(control)
    PROVE  plan' = plan /\ (ui' = ui \/ \E t : Turned(ui, t) /\ ui' = Settled(t))
  <1>1. CASE AnswersLeaving(control)
    BY <1>1 DEF Activate, Leave
  <1>2. CASE ~AnswersLeaving(control)
    <2>1. plan' = plan /\ ui' = Settled(applyHit(ui, control))
      BY <1>2 DEF Activate, Turn
    <2>2. ~Leaving(ui, control.kind)
      BY <1>2 DEF AnswersLeaving, Leaving
    <2> QED
      BY <2>1, <2>2, HitTurns
  <1> QED
    BY <1>1, <1>2

LEMMA NextSteps ==
    ASSUME UiInv, Next
    PROVE  StepIs
  <1>0. Sound(ui)
    BY DEF UiInv
  <1>1. CASE tickCore
    <2>1. PICK ended \in SUBSET {i \in DOMAIN ui.jobs : ui.jobs[i].state = "Running"} :
            Turn(normalizeJobControlFocus(refreshCoreState(ui, InState(ui.jobs, ended, "Ended"))))
      BY <1>1 DEF tickCore
    <2> DEFINE t == normalizeJobControlFocus(refreshCoreState(ui, InState(ui.jobs, ended, "Ended")))
    <2>2. plan' = plan /\ ui' = Settled(t) /\ pressed' = pressed
      BY <1>1, <2>1 DEF tickCore, Turn
    <2>3. Turned(ui, t) /\ Len(t.jobs) = Len(ui.jobs)
      BY <1>0, TickTurns
    <2> HIDE DEF t
    <2>4. ui'.jobs = t.jobs
      BY <2>2, <2>3, SettledKeepsJobs DEF Turned
    <2> QED
      BY <2>2, <2>3, <2>4 DEF StepIs
  <1>2. ASSUME NEW key, Key(key) PROVE StepIs
    <2>1. pressed' = Nothing /\ KeyTurn(key)
      BY <1>2 DEF Key
    <2>2. CASE key = "Enter" /\ AnswersLeaving(Control(ui.choice, 0))
      BY <2>1, <2>2 DEF KeyTurn, Leave, StepIs
    <2>3. CASE ~(key = "Enter" /\ AnswersLeaving(Control(ui.choice, 0)))
      <3>1. plan' = plan /\ ui' = Settled(handleKey(ui, key))
        BY <2>1, <2>3 DEF KeyTurn, Turn
      <3>2. ~(key = "Enter" /\ Leaving(ui, ui.choice))
        BY <2>3, ControlsAre DEF AnswersLeaving, Leaving
      <3>3. Turned(ui, handleKey(ui, key))
        BY <1>0, <3>2, KeyTurns
      <3> QED
        BY <2>1, <3>1, <3>3 DEF StepIs
    <2> QED
      BY <2>2, <2>3
  <1>3. ASSUME NEW control \in Hits(ui), Click(control) PROVE StepIs
    BY <1>0, <1>3, ActivateSteps DEF Click, StepIs
  <1>4. ASSUME NEW control \in Hits(ui), Press(control) PROVE StepIs
    <2>1. /\ pressed' = [control |-> control, job |-> JobId(ui, control.value)]
          /\ plan' = plan /\ ui' = ui
      BY <1>4 DEF Press
    <2>2. pressed'.job = Len(ui.jobs) - pressed'.control.value
      BY <2>1 DEF JobId
    <2> QED
      BY <2>1, <2>2 DEF StepIs
  <1>5. CASE Release
    BY <1>0, <1>5, ActivateSteps DEF Release, StepIs
  <1>6. CASE ReleaseElsewhere
    BY <1>6 DEF ReleaseElsewhere, StepIs
  <1>7. CASE handleMouseWheel
    <2>1. PICK delta \in {-1, 1} :
             \/ Turn(scrollBottom(ui, delta))
             \/ Turn(scrollDriveViewport(ui, delta))
             \/ Turn(scrollMainContent(ui, delta))
      BY <1>7 DEF handleMouseWheel
    <2>2. PICK t \in {scrollBottom(ui, delta), scrollDriveViewport(ui, delta),
                      scrollMainContent(ui, delta)} : Turn(t)
      BY <2>1
    <2>3. Free(ui) /\ pressed' = pressed
      BY <1>0, <1>7 DEF handleMouseWheel, Free
    <2>4. Turned(ui, t) /\ Len(t.jobs) = Len(ui.jobs)
      BY <2>2, <2>3, WheelTurns
    <2>5. plan' = plan /\ ui' = Settled(t)
      BY <2>2 DEF Turn
    <2>6. ui'.jobs = t.jobs
      BY <2>4, <2>5, SettledKeepsJobs DEF Turned
    <2> QED
      BY <2>3, <2>4, <2>5, <2>6 DEF StepIs
  <1>8. CASE Resize
    <2>1. PICK size \in plan.sizes : Turn([ui EXCEPT !.layout = makeLayout(size)])
      BY <1>8 DEF Resize
    <2> DEFINE t == [ui EXCEPT !.layout = makeLayout(size)]
    <2>2. plan' = plan /\ ui' = Settled(t) /\ pressed' = Nothing
      BY <1>8, <2>1 DEF Resize, Turn
    <2>3. Turned(ui, t)
      BY <1>0, ResizeTurns
    <2> QED
      BY <2>2, <2>3 DEF StepIs
  <1> QED
    BY <1>1, <1>2, <1>3, <1>4, <1>5, <1>6, <1>7, <1>8 DEF Next

-----------------------------------------------------------------------------
(* Nothing that is computed of a state changes with the set-up left as it is. *)

LEMMA DrivesStay ==
    ASSUME plan' = plan
    PROVE  /\ LastDrive' = LastDrive /\ Offsets' = Offsets /\ Layouts' = Layouts
           /\ \A s : Drive(s)' = Drive(s)
           /\ \A s : availableFeatures(s)' = availableFeatures(s)
           /\ \A s : visibleTabCount(s)' = visibleTabCount(s)
           /\ \A s : selectedFeature(s)' = selectedFeature(s)
           /\ \A s, f : featureWorkflows(s, f)' = featureWorkflows(s, f)
           /\ \A s, f, option : Supports(s, f, option)' <=> Supports(s, f, option)
           /\ \A s : Placed(s)' <=> Placed(s)
  <1>1. \A s : Drive(s)' = Drive(s)
    BY DEF Drive
  <1>2. \A s : availableFeatures(s)' = availableFeatures(s)
    BY <1>1 DEF availableFeatures
  <1>3. \A s : visibleTabCount(s)' = visibleTabCount(s)
    BY <1>2 DEF visibleTabCount
  <1>4. \A s : selectedFeature(s)' = selectedFeature(s)
    BY <1>2, <1>3 DEF selectedFeature, Clamp
  <1>5. \A s, f : featureWorkflows(s, f)' = featureWorkflows(s, f)
    BY <1>1 DEF featureWorkflows
  <1>6. \A s, f, option : Supports(s, f, option)' <=> Supports(s, f, option)
    BY <1>1, <1>5 DEF Supports
  <1>7. LastDrive' = LastDrive /\ Offsets' = Offsets /\ Layouts' = Layouts
    BY DEF LastDrive, Offsets, Layouts
  <1>8. \A s : Placed(s)' <=> Placed(s)
    BY <1>3, <1>7 DEF Placed
  <1> QED
    BY <1>1, <1>2, <1>3, <1>4, <1>5, <1>6, <1>7, <1>8

LEMMA PanelStays ==
    ASSUME plan' = plan
    PROVE  /\ \A s : featureTargets(s)' = featureTargets(s)
           /\ \A s, control : DrawnRow(s, control)' = DrawnRow(s, control)
           /\ \A s : ViewportHeight(s)' = ViewportHeight(s)
           /\ \A s : PanelHits(s)' = PanelHits(s)
  <1>1. \A s : featureTargets(s)' = featureTargets(s)
    BY DrivesStay DEF featureTargets
  <1>2. \A s, control : DrawnRow(s, control)' = DrawnRow(s, control)
    BY DrivesStay DEF DrawnRow
  <1>3. \A s : drawMainTabs(s)' = drawMainTabs(s)
    <2>1. SUFFICES ASSUME NEW s PROVE drawMainTabs(s)' = drawMainTabs(s)
      OBVIOUS
    <2> DEFINE shortcut(features) == IF Len(features) <= 2 \/ s.layout.width >= 52 THEN 4 ELSE 0
               Tab(features, f) ==
                  [width |-> shortcut(features) + IF f \in {"Overview", "Sanitize"} THEN 12 ELSE 13]
               rows(features) ==
                  optionRow([i \in DOMAIN features |-> Tab(features, features[i])],
                            Len(features) - 1, s.layout.width)
    <2>2. drawMainTabs(s) = rows(availableFeatures(s))
      BY Zenon DEF drawMainTabs
    <2>3. drawMainTabs(s)' = rows(availableFeatures(s)')
      BY Zenon DEF drawMainTabs
    <2> HIDE DEF rows
    <2> QED
      BY <2>2, <2>3, DrivesStay
  <1>4. \A s : ViewportHeight(s)' = ViewportHeight(s)
    BY <1>3 DEF ViewportHeight
  <1>5. \A s : PanelHits(s)' = PanelHits(s)
    BY <1>1, <1>2, <1>4 DEF PanelHits
  <1> QED
    BY <1>1, <1>2, <1>4, <1>5

LEMMA HitsStay ==
    ASSUME plan' = plan
    PROVE  \A s : Hits(s)' = Hits(s)
  <1>1. \A s : MainTabs(s)' = MainTabs(s)
    BY DrivesStay DEF MainTabs
  <1>2. \A s : ShownDrives(s)' = ShownDrives(s)
    BY DEF ShownDrives
  <1>3. \A s : MainHits(s)' = MainHits(s)
    BY <1>1, <1>2, PanelStays DEF MainHits
  <1> QED
    BY <1>3 DEF Hits

LEMMA SoundStays ==
    ASSUME plan' = plan
    PROVE  \A s : Sound(s)' <=> Sound(s)
  <1>1. \A s : Typed(s)' <=> Typed(s)
    BY DrivesStay DEF Typed
  <1>2. \A s : Supported(s)' <=> Supported(s)
    BY DrivesStay DEF Supported
  <1>3. \A s, mode, focus : InPlace(s, mode, focus)' <=> InPlace(s, mode, focus)
    BY PanelStays DEF InPlace
  <1>4. \A s : Asked(s)' <=> Asked(s)
    BY <1>3, DrivesStay DEF Asked
  <1> QED
    BY <1>1, <1>2, <1>4 DEF Sound

LEMMA UiInvStays ==
    ASSUME UiInv, [Next]_vars
    PROVE  UiInv'
  <1>1. StepIs \/ UNCHANGED vars
    BY NextSteps
  <1>2. CASE UNCHANGED vars
    <2>1. plan' = plan /\ ui' = ui /\ pressed' = pressed
      BY <1>2 DEF vars
    <2>2. HeldJob'
      BY <2>1 DEF UiInv, HeldJob, Nothing
    <2>3. Sound(ui)'
      BY <2>1, SoundStays DEF UiInv
    <2>4. (ui.layout.valid => ui.focus \in Hits(ui))'
      BY <2>1, HitsStay DEF UiInv
    <2> QED
      BY <2>2, <2>3, <2>4 DEF UiInv
  <1>3. CASE StepIs
    <2>1. plan' = plan
      BY <1>3 DEF StepIs
    <2>2. PICK r : ui' = r /\ Sound(r) /\ (r.layout.valid => r.focus \in Hits(r))
      <3>1. CASE ui' = ui
        BY <3>1 DEF UiInv
      <3>2. ASSUME NEW t, Turned(ui, t), ui' = Settled(t)
            PROVE  \E r : ui' = r /\ Sound(r) /\ (r.layout.valid => r.focus \in Hits(r))
        <4>1. Sound(t)
          BY <3>2 DEF Turned
        <4> QED
          BY <3>2, <4>1, SettledIsVisible
      <3> QED
        BY <1>3, <3>1, <3>2 DEF StepIs
    <2>3. Sound(ui)'
      BY <2>1, <2>2, SoundStays
    <2>4. (ui.layout.valid => ui.focus \in Hits(ui))'
      BY <2>1, <2>2, HitsStay
    <2>5. HeldJob'
      BY <1>3 DEF StepIs, HeldJob, UiInv, Nothing
    <2> QED
      BY <2>3, <2>4, <2>5 DEF UiInv
  <1> QED
    BY <1>1, <1>2, <1>3

\* A state of the screen is one of sound choices, and shows the focus.
THEOREM UiIsSound == Spec => []UiInv
  <1>1. Init => UiInv
    BY InitIsSound
  <1>2. UiInv /\ [Next]_vars => UiInv'
    BY UiInvStays
  <1> QED
    BY <1>1, <1>2, PTL DEF Spec

\* Whatever scrolling, resizing, jobs and dialogs did, whenever the loop of demo_ui.cpp
\* waits for a key the focus is on a control that it drew, and in a dialog on the answer
\* that Enter gives.
THEOREM FocusAlwaysVisible == Spec => []FocusIsVisible
  <1>1. UiInv => FocusIsVisible
    <2>1. SUFFICES ASSUME UiInv, ui.layout.valid
                   PROVE  /\ ui.focus \in Hits(ui)
                          /\ ui.dialog \in {"Workflow", "Detach", "Terminate"} => ui.focus.kind = ui.choice
      BY DEF FocusIsVisible
    <2>2. ASSUME ui.dialog \in {"Workflow", "Detach", "Terminate"}
          PROVE  ui.focus.kind = ui.choice
      <3>1. ui.focus = Control(ui.choice, 0)
        BY <2>1, <2>2 DEF UiInv, Sound, Asked
      <3> QED
        BY <3>1, ControlsAre
    <2> QED
      BY <2>1, <2>2 DEF UiInv
  <1> QED
    BY <1>1, UiIsSound, PTL

\* In the panel of a feature the keys that go from control to control take the focus to
\* the next one, and the drawing leaves it there: the row that ensureFeatureFocusVisible
\* scrolls to is the row where the panel draws that control, for every catalog and width.
THEOREM PanelAlwaysInReach == Spec => []PanelIsInReach
  <1>1. UiInv => PanelIsInReach
    <2>1. SUFFICES ASSUME UiInv, ui.mode = "FeaturePanel", ui.dialog = "None",
                          NEW key \in {"Tab", "Down", "BackTab", "Up"}
                   PROVE  Settled(handleKey(ui, key)).focus =
                            Neighbour(featureTargets(ui), ui.focus, IF key \in {"Tab", "Down"} THEN 1 ELSE -1)
      BY DEF PanelIsInReach
    <2>2. Free(ui)
      BY <2>1 DEF UiInv, Free
    <2>3. handleKey(ui, key) = FeaturePanelKey(ui, key)
      BY <2>1 DEF handleKey, Arrows
    <2>4. CASE key \in {"Tab", "Down"}
      <3>1. handleKey(ui, key) = cycleFeatureFocus(ui, 1)
        BY <2>3, <2>4 DEF FeaturePanelKey
      <3> QED
        BY <2>1, <2>2, <2>4, <3>1, FeatureFocusKeeps
    <2>5. CASE key \in {"BackTab", "Up"}
      <3>1. handleKey(ui, key) = cycleFeatureFocus(ui, -1)
        BY <2>3, <2>5 DEF FeaturePanelKey
      <3>2. Settled(handleKey(ui, key)).focus = Neighbour(featureTargets(ui), ui.focus, -1)
        BY <2>1, <2>2, <3>1, FeatureFocusKeeps
      <3> QED
        BY <2>5, <3>2
    <2> QED
      BY <2>1, <2>4, <2>5
  <1> QED
    BY <1>1, UiIsSound, PTL

-----------------------------------------------------------------------------
(* What a step may do to the jobs. *)

\* The button went down on the job that its control still names.
LEMMA ReleaseActs ==
    ASSUME UiInv, pressed # Nothing, Release, NEW id \in 1..Len(ui.jobs)
    PROVE  LET Job(s) == s.jobs[Len(s.jobs) - id + 1]
           IN  Job(ui') # Job(ui) =>
                   \/ id = pressed.job
                   \/ Job(ui).state = "Queued" /\ Job(ui').state = "Running"
  <1> DEFINE Job(s) == s.jobs[Len(s.jobs) - id + 1]
             control == pressed.control
             i == Len(ui.jobs) - id + 1
  <1>1. /\ Sound(ui) /\ control \in Hits(ui) /\ Activate(control)
        /\ pressed.job = Len(ui.jobs) - control.value
    BY DEF UiInv, HeldJob, Release
  <1>2. Len(ui.jobs) \in Nat /\ i \in 1..Len(ui.jobs)
    <2>1. ui.jobs \in Seq(JobType)
      BY <1>1 DEF Sound, Typed
    <2>2. Len(ui.jobs) \in Nat
      BY <2>1, JobsAre
    <2> QED
      BY <2>2
  <1> SUFFICES ASSUME Job(ui') # Job(ui), id # pressed.job
               PROVE  Job(ui).state = "Queued" /\ Job(ui').state = "Running"
    OBVIOUS
  <1>3. ~AnswersLeaving(control)
    BY <1>1 DEF Activate, Leave
  <1> DEFINE t == applyHit(ui, control)
  <1>4. ui' = Settled(t) /\ ~Leaving(ui, control.kind)
    BY <1>1, <1>3 DEF Activate, Turn, AnswersLeaving, Leaving
  <1>5. Sound(t)
    BY <1>1, <1>4, HitTurns DEF Turned
  <1>6. ui'.jobs = t.jobs
    BY <1>4, <1>5, SettledKeepsJobs
  <1>7. CASE ui.dialog = "None"
    <2>1. Free(ui)
      BY <1>1, <1>7 DEF Free
    <2>2. \/ t.jobs = ui.jobs
          \/ control.kind \in {"JobPrimary", "JobStop"} /\ Touches(ui, t, control.value)
      BY <1>1, <2>1, HitKeeps
    <2>3. t.jobs # ui.jobs
      BY <1>6
    <2>4. control \in Controls
      <3>1. control.kind # "MainTab"
        BY <2>2, <2>3
      <3>2. control \in ListControls \/ control \in ToSet(featureTargets(ui))
        BY <1>1, <2>1, <3>1, HitsAre, ControlsAre
      <3> DEFINE C == Controls
      <3>3. featureTargets(ui) \in Seq(C)
        BY <2>1, FreeHas, TargetsOfAPanel
      <3> HIDE DEF C
      <3>4. control \in ToSet(featureTargets(ui)) => control \in C
        BY <3>3 DEF ToSet
      <3> QED
        BY <3>2, <3>4 DEF C, ListControls
    <2>5. control.value \in Int
      BY <2>4 DEF Controls
    <2>6. Len(t.jobs) = Len(ui.jobs)
      BY <2>2, <2>3 DEF Touches
    <2> DEFINE n == Len(ui.jobs)
               v == control.value
    <2>9. n \in Nat /\ v \in Int /\ id \in 1..n /\ id # n - v
      BY <1>1, <1>2, <2>5
    <2>10. i # v + 1
      <3> HIDE DEF n, v
      <3>1. n - id + 1 # v + 1
        BY <2>9
      <3> QED
        BY <3>1 DEF n
    <2>7. Starts(ui.jobs[i], t.jobs[i])
      BY <1>2, <2>2, <2>3, <2>10 DEF Touches
    <2>8. Job(ui) = ui.jobs[i] /\ Job(ui') = t.jobs[i]
      BY <1>6, <2>6
    <2> QED
      BY <2>7, <2>8 DEF Starts
  <1>8. CASE ui.dialog # "None"
    <2>1. Answers(ui, t)
      BY <1>1, <1>4, <1>8, DialogHitKeeps
    <2>2. Adds(ui, t)
      BY <1>6, <2>1 DEF Answers
    <2>3. Len(t.jobs) = Len(ui.jobs) + 1 /\ Starts(ui.jobs[i], t.jobs[i + 1])
      BY <1>2, <2>2 DEF Adds
    <2>4. Len(t.jobs) - id + 1 = i + 1
      BY <1>2, <2>3
    <2>5. Job(ui) = ui.jobs[i] /\ Job(ui') = t.jobs[i + 1]
      BY <1>6, <2>4
    <2> QED
      BY <2>3, <2>5 DEF Starts
  <1> QED
    BY <1>7, <1>8

\* A mouse button that goes up (demo_ui.cpp) acts on the job that it went down on,
\* although new jobs have been put before it meanwhile: whatever else changes in the
\* list is a job that starts because a drive has become free.
THEOREM ClickNeverStrays == Spec => ClickActsOnPressed
  <1>1. UiInv /\ [Next]_vars =>
            [pressed # Nothing /\ Release =>
                \A id \in 1..Len(ui.jobs) :
                    LET Job(s) == s.jobs[Len(s.jobs) - id + 1]
                    IN  Job(ui') # Job(ui) =>
                            \/ id = pressed.job
                            \/ Job(ui).state = "Queued" /\ Job(ui').state = "Running"]_vars
    BY ReleaseActs
  <1> QED
    BY <1>1, UiIsSound, PTL DEF Spec, ClickActsOnPressed

\* What a turn does to a dialog, and to the jobs behind it.
LEMMA TurnIsModal ==
    ASSUME NEW s, Sound(s), NEW t, Turned(s, t), NEW r, r = Settled(t)
    PROVE  /\ s.dialog # "None" /\ r.dialog # "None" =>
                 Differs(s, r, {"choice", "focus", "jobs", "job_offset", "layout", "drive_offset",
                                "content_offsets"})
                 /\ Len(r.jobs) = Len(s.jobs)
           /\ Len(r.jobs) > Len(s.jobs) => s.dialog = "Workflow"
           /\ s.dialog # "None" =>
                 \A id \in 1..Len(s.jobs) :
                    LET Before == s.jobs[Len(s.jobs) - id + 1]
                        After == r.jobs[Len(r.jobs) - id + 1]
                    IN  After.state # Before.state =>
                            Before.state # "Paused" /\ After.state \in {"Running", "Ended"}
  <1> DEFINE n == Len(s.jobs)
             Moved == {"drive_offset", "content_offsets", "job_offset", "focus"}
             Turning == {"choice", "focus", "jobs", "job_offset", "layout"}
             Both == {"choice", "focus", "jobs", "job_offset", "layout", "drive_offset", "content_offsets"}
  <1>1. Sound(t) /\ Differs(t, r, Moved)
    BY SettledIsVisible DEF Turned
  <1>2. r.dialog = t.dialog /\ r.jobs = t.jobs
    BY <1>1 DEF Differs, Fields
  <1>3. n \in Nat
    <2>1. s.jobs \in Seq(JobType)
      BY DEF Sound, Typed
    <2> QED
      BY <2>1, JobsAre
  <1>4. CASE s.dialog = "None"
    BY <1>2, <1>4 DEF Turned
  <1>5. CASE s.dialog # "None" /\ Differs(s, t, Turning) /\ Passes(s, t)
    <2>1. Differs(s, r, Both) /\ Len(r.jobs) = n
      BY <1>1, <1>2, <1>5, DiffersTwice DEF Passes
    <2>2. ASSUME NEW id \in 1..n
          PROVE  LET Before == s.jobs[n - id + 1]
                     After == r.jobs[n - id + 1]
                 IN  After.state # Before.state =>
                         Before.state # "Paused" /\ After.state \in {"Running", "Ended"}
      <3> DEFINE i == n - id + 1
      <3>1. i \in 1..n
        BY <1>3
      <3>2. Starts(s.jobs[i], r.jobs[i]) \/ (s.jobs[i].state = "Running" /\ r.jobs[i].state = "Ended")
        BY <1>2, <1>5, <3>1 DEF Passes
      <3> QED
        BY <3>2 DEF Starts
    <2> QED
      BY <1>3, <1>5, <2>1, <2>2
  <1>6. CASE s.dialog # "None" /\ Answers(s, t)
    <2>1. r.dialog = "None"
      BY <1>2, <1>6 DEF Answers, Free
    <2>2. CASE t.jobs = s.jobs
      BY <1>2, <1>3, <2>1, <2>2
    <2>3. CASE s.dialog = "Workflow" /\ Adds(s, t)
      <3>1. Len(r.jobs) = n + 1
        BY <1>2, <2>3 DEF Adds
      <3>2. ASSUME NEW id \in 1..n
            PROVE  LET Before == s.jobs[n - id + 1]
                       After == r.jobs[Len(r.jobs) - id + 1]
                   IN  After.state # Before.state =>
                           Before.state # "Paused" /\ After.state \in {"Running", "Ended"}
        <4> DEFINE i == n - id + 1
        <4>1. i \in 1..n /\ Len(r.jobs) - id + 1 = i + 1
          BY <1>3, <3>1
        <4>2. Starts(s.jobs[i], r.jobs[i + 1])
          BY <1>2, <2>3, <4>1 DEF Adds
        <4> QED
          BY <4>1, <4>2 DEF Starts
      <3> QED
        BY <2>1, <2>3, <3>2
    <2> QED
      BY <1>6, <2>2, <2>3 DEF Answers
  <1> QED
    BY <1>4, <1>5, <1>6 DEF Turned

\* What the dialog of a workflow offers can be done with the chosen drive.
LEMMA OfferIsSupported ==
    ASSUME NEW s, Sound(s), s.dialog = "Workflow"
    PROVE  LET f == selectedFeature(s)
           IN  /\ f \in DOMAIN s.option /\ Supports(s, f, s.option[f])
               /\ s.return.mode = "FeaturePanel"
  <1>1. /\ s.return.mode = "FeaturePanel" /\ selectedFeature(s) # "Overview" /\ ~Drive(s).protected
    BY DEF Sound, Asked
  <1>2. Placed(s) /\ DOMAIN s.option = DOMAIN plan.catalog
    BY DEF Sound, Typed
  <1>3. selectedFeature(s) \in DOMAIN plan.catalog
    BY <1>1, <1>2, TabHasFeature
  <1> QED
    BY <1>1, <1>2, <1>3 DEF Sound, Supported

\* While a dialog of demo_ui.cpp is open neither keys nor clicks nor the wheel reach what
\* is behind it, jobs alone go on; only "Run Simulation" creates a job, and it is offered
\* only for a workflow that the chosen drive supports.
THEOREM DialogsStayModal == Spec => DialogsAreModal
  <1>1. ASSUME UiInv, UiInv', Next
        PROVE  /\ ui.dialog # "None" /\ ui'.dialog # "None" =>
                     /\ ui'.dialog = ui.dialog
                     /\ \A field \in {"selected_drive", "main_tab", "bottom_tab", "option", "return"} :
                            ui'[field] = ui[field]
                     /\ Len(ui'.jobs) = Len(ui.jobs)
               /\ Len(ui'.jobs) > Len(ui.jobs) => ui.dialog = "Workflow"
               /\ ui.dialog # "None" =>
                     \A id \in 1..Len(ui.jobs) :
                        LET Before == ui.jobs[Len(ui.jobs) - id + 1]
                            After == ui'.jobs[Len(ui'.jobs) - id + 1]
                        IN  After.state # Before.state =>
                                Before.state # "Paused" /\ After.state \in {"Running", "Ended"}
               /\ ui'.dialog = "Workflow" =>
                     LET f == selectedFeature(ui')
                     IN  /\ f \in DOMAIN ui'.option
                         /\ Supports(ui', f, ui'.option[f])
                         /\ ui'.return.mode = "FeaturePanel"
    <2>1. StepIs /\ Sound(ui)
      BY <1>1, NextSteps DEF UiInv
    <2>2. PICK r : ui' = r
      OBVIOUS
    <2>3. Sound(r)
      BY <1>1, <2>1, <2>2, SoundStays DEF UiInv, StepIs
    <2>4. r.dialog = "Workflow" =>
             LET f == selectedFeature(r)
             IN  /\ f \in DOMAIN r.option /\ Supports(r, f, r.option[f])
                 /\ r.return.mode = "FeaturePanel"
      BY <2>3, OfferIsSupported
    <2>5. CASE r = ui
      <3>1. Len(ui.jobs) \in Nat
        <4>1. ui.jobs \in Seq(JobType)
          BY <2>1 DEF Sound, Typed
        <4> QED
          BY <4>1, JobsAre
      <3> QED
        BY <2>2, <2>4, <2>5, <3>1
    <2>6. ASSUME NEW t, Turned(ui, t), r = Settled(t)
          PROVE  /\ ui.dialog # "None" /\ r.dialog # "None" =>
                       Differs(ui, r, {"choice", "focus", "jobs", "job_offset", "layout",
                                       "drive_offset", "content_offsets"})
                       /\ Len(r.jobs) = Len(ui.jobs)
                 /\ Len(r.jobs) > Len(ui.jobs) => ui.dialog = "Workflow"
                 /\ ui.dialog # "None" =>
                       \A id \in 1..Len(ui.jobs) :
                          LET Before == ui.jobs[Len(ui.jobs) - id + 1]
                              After == r.jobs[Len(r.jobs) - id + 1]
                          IN  After.state # Before.state =>
                                  Before.state # "Paused" /\ After.state \in {"Running", "Ended"}
      BY <2>1, <2>6, TurnIsModal
    <2>7. CASE \E t : Turned(ui, t) /\ r = Settled(t)
      BY <2>2, <2>4, <2>6, <2>7 DEF Differs, Fields
    <2> QED
      BY <2>1, <2>2, <2>5, <2>7 DEF StepIs
  <1>2. UiInv /\ UiInv' /\ [Next]_vars =>
            [/\ ui.dialog # "None" /\ ui'.dialog # "None" =>
                   /\ ui'.dialog = ui.dialog
                   /\ \A field \in {"selected_drive", "main_tab", "bottom_tab", "option", "return"} :
                          ui'[field] = ui[field]
                   /\ Len(ui'.jobs) = Len(ui.jobs)
             /\ Len(ui'.jobs) > Len(ui.jobs) => ui.dialog = "Workflow"
             /\ ui.dialog # "None" =>
                   \A id \in 1..Len(ui.jobs) :
                      LET Before == ui.jobs[Len(ui.jobs) - id + 1]
                          After == ui'.jobs[Len(ui'.jobs) - id + 1]
                      IN  After.state # Before.state =>
                              Before.state # "Paused" /\ After.state \in {"Running", "Ended"}
             /\ ui'.dialog = "Workflow" =>
                   LET f == selectedFeature(ui')
                   IN  /\ f \in DOMAIN ui'.option
                       /\ Supports(ui', f, ui'.option[f])
                       /\ ui'.return.mode = "FeaturePanel"]_vars
    BY <1>1
  <1> QED
    BY <1>2, UiIsSound, PTL DEF Spec, DialogsAreModal
=============================================================================

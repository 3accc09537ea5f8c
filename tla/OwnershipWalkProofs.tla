------------------------- MODULE OwnershipWalkProofs -------------------------
(***************************************************************************)
(* The walk finds the trace, in every finite graph and in every order:     *)
(* what the closed form of OwnershipTrace says is what the depth-first     *)
(* search of the code computes.                                            *)
(***************************************************************************)
EXTENDS OwnershipWalk, TLAPS, SequenceTheorems, FiniteSetTheorems

keys == DOMAIN graph.onward
reached == Reached(graph.onward, start)

\* The limit is not in the way.
Unlimited == limit >= Cardinality(keys)

\* The keys that the walk has looked at.
seen == visited \cup active

-----------------------------------------------------------------------------
(* The inductive invariant. *)

Frame == [key : keys, left : SUBSET keys]

WalkTypeOK ==
    /\ graph \in Graphs /\ start \in graph.nodes /\ limit \in DepthLimits
    /\ current \in keys \cup {NoKey}
    /\ stack \in Seq(Frame)
    /\ visited \subseteq keys /\ faults \subseteq keys
    /\ topology \in BOOLEAN

\* The stack is a path from the start, of keys that the walk has not left.
StackIsPath ==
    /\ \A i \in DOMAIN stack : /\ stack[i].left \subseteq graph.onward[stack[i].key]
                               /\ stack[i].key \notin visited
    /\ \A i \in DOMAIN stack : \A j \in DOMAIN stack : stack[i].key = stack[j].key => i = j
    /\ \A i \in 1..(Len(stack) - 1) : stack[i + 1].key \in graph.onward[stack[i].key]
    /\ stack # <<>> /\ current # NoKey => current \in graph.onward[Last(stack).key]

StartIsKnown ==
    /\ stack # <<>> => stack[1].key = start
    /\ stack = <<>> => current = start \/ (current = NoKey /\ start \in visited)

\* All that was looked at is reached, and what it showed is recorded.
LooksAreKept ==
    /\ seen \subseteq reached /\ (current # NoKey => current \in reached)
    /\ owners = seen \cap graph.physical
    /\ seen \cap (graph.tainted \cup Rootless(graph) \cup graph.unusable) \subseteq faults
    /\ topology => seen \cap (graph.tainted \cup Rootless(graph)) = {}
    /\ ~topology => faults # {}

\* If no limit is in the way, nothing behind a key is forgotten, and what is found
\* to be wrong is.
NothingIsForgotten ==
    Unlimited =>
        /\ \A v \in visited : graph.onward[v] \subseteq seen
        /\ \A i \in DOMAIN stack :
            graph.onward[stack[i].key] \subseteq seen \cup stack[i].left \cup {current}
        /\ faults \subseteq reached \cap (Broken(graph) \cup graph.unusable)
        /\ ~topology => reached \cap Broken(graph) # {}

\* As long as nothing is wrong, a key is left only after all behind it, and none of
\* them goes on for ever.
LeftIsFinished ==
    topology =>
        /\ \A v \in visited : graph.onward[v] \subseteq visited
        /\ \A i \in DOMAIN stack :
            graph.onward[stack[i].key] \subseteq
                visited \cup stack[i].left
                    \cup (IF i = Len(stack) THEN {current} ELSE {stack[i + 1].key})
        /\ visited \cap Circling(graph.onward) = {}

WalkInv ==
    /\ WalkTypeOK /\ StackIsPath /\ StartIsKnown /\ LooksAreKept
    /\ NothingIsForgotten /\ LeftIsFinished

-----------------------------------------------------------------------------
(* Reaching, and sequences. *)

\* Reached has the key and, with each of its keys, what the walk goes on to; nothing
\* else.
LEMMA ReachedIsClosure ==
    ASSUME NEW onward, NEW key \in DOMAIN onward,
           \A m \in DOMAIN onward : onward[m] \subseteq DOMAIN onward
    PROVE  /\ key \in Reached(onward, key)
           /\ Reached(onward, key) \subseteq DOMAIN onward
           /\ \A m \in Reached(onward, key) : onward[m] \subseteq Reached(onward, key)
           /\ \A S \in SUBSET DOMAIN onward :
                key \in S /\ (\A m \in S : onward[m] \subseteq S) => Reached(onward, key) \subseteq S
  <1>1. key \in Reached(onward, key) /\ Reached(onward, key) \subseteq DOMAIN onward
    BY DEF Reached
  <1>2. \A S \in SUBSET DOMAIN onward :
            key \in S /\ (\A m \in S : onward[m] \subseteq S) => Reached(onward, key) \subseteq S
    BY DEF Reached
  <1>3. ASSUME NEW m \in Reached(onward, key), NEW n \in onward[m]
        PROVE  n \in Reached(onward, key)
    <2>1. n \in DOMAIN onward
      BY <1>1
    <2>2. ASSUME NEW S \in SUBSET DOMAIN onward, key \in S, \A k \in S : onward[k] \subseteq S
          PROVE  n \in S
      BY <1>2, <2>2
    <2> QED
      BY <2>1, <2>2 DEF Reached
  <1> QED
    BY <1>1, <1>2, <1>3

\* What has just been called is the last; the others stay.
LEMMA StackGrows ==
    ASSUME NEW S, NEW s \in Seq(S), NEW x \in S
    PROVE  /\ Append(s, x) \in Seq(S) /\ Append(s, x) # <<>>
           /\ Len(s) \in Nat /\ DOMAIN s = 1..Len(s)
           /\ Len(Append(s, x)) = Len(s) + 1
           /\ DOMAIN Append(s, x) = 1..(Len(s) + 1)
           /\ \A i \in 1..Len(s) : Append(s, x)[i] = s[i]
           /\ Append(s, x)[Len(s) + 1] = x
  OBVIOUS

LEMMA StackShrinks ==
    ASSUME NEW S, NEW s \in Seq(S), s # <<>>
    PROVE  /\ Front(s) \in Seq(S)
           /\ Len(s) \in Nat /\ Len(s) >= 1 /\ DOMAIN s = 1..Len(s)
           /\ Len(Front(s)) = Len(s) - 1
           /\ DOMAIN Front(s) = 1..(Len(s) - 1)
           /\ \A i \in 1..(Len(s) - 1) : Front(s)[i] = s[i]
           /\ Last(s) = s[Len(s)] /\ Last(s) \in S
  <1>1. /\ Len(s) \in Nat /\ Len(s) >= 1 /\ DOMAIN s = 1..Len(s)
        /\ \A i \in 1..Len(s) : s[i] \in S
    BY LenProperties, EmptySeq
  <1> DEFINE n == Len(s) - 1
  <1>2. n \in Nat /\ Len(s) = n + 1 /\ Front(s) = SubSeq(s, 1, n)
    BY <1>1 DEF Front
  <1> HIDE DEF n
  <1>3. /\ Front(s) \in Seq(S)
        /\ Len(Front(s)) = n
        /\ \A i \in 1..n : Front(s)[i] = s[i]
    <2>1. \A i \in 1..n : s[i] \in S
      BY <1>1, <1>2
    <2>2. /\ SubSeq(s, 1, n) \in Seq(S)
          /\ Len(SubSeq(s, 1, n)) = IF 1 <= n THEN n - 1 + 1 ELSE 0
          /\ \A i \in 1..(n - 1 + 1) : SubSeq(s, 1, n)[i] = s[1 + i - 1]
      BY <1>2, <2>1, SubSeqProperties
    <2>3. /\ (IF 1 <= n THEN n - 1 + 1 ELSE 0) = n /\ n - 1 + 1 = n
          /\ \A i \in 1..n : 1 + i - 1 = i
      BY <1>2
    <2> QED
      BY <1>2, <2>2, <2>3
  <1>4. DOMAIN Front(s) = 1..n
    BY <1>2, <1>3, LenProperties
  <1>5. Last(s) = s[Len(s)] /\ Last(s) \in S
    BY <1>1 DEF Last
  <1> QED
    BY <1>1, <1>2, <1>3, <1>4, <1>5 DEF n

-----------------------------------------------------------------------------
(* What the invariant says of the walk. *)

LEMMA WalkFacts ==
    ASSUME WalkTypeOK
    PROVE  /\ Len(stack) \in Nat /\ DOMAIN stack = 1..Len(stack)
           /\ stack = <<>> <=> Len(stack) = 0
           /\ \A i \in 1..Len(stack) : stack[i].key \in keys /\ stack[i].left \subseteq keys
           /\ active = {stack[i].key : i \in 1..Len(stack)}
           /\ IsFiniteSet(keys) /\ NoKey \notin keys
           /\ \A m \in keys : graph.onward[m] \subseteq keys
           /\ limit \in Nat /\ start \in keys
           /\ start \in reached /\ reached \subseteq keys
           /\ \A m \in reached : graph.onward[m] \subseteq reached
           /\ \A S \in SUBSET keys :
                start \in S /\ (\A m \in S : graph.onward[m] \subseteq S) => reached \subseteq S
  <1>1. /\ Len(stack) \in Nat /\ DOMAIN stack = 1..Len(stack)
        /\ stack = <<>> <=> Len(stack) = 0
        /\ \A i \in 1..Len(stack) : stack[i] \in Frame
    BY LenProperties, EmptySeq DEF WalkTypeOK
  <1>2. \A i \in 1..Len(stack) : stack[i].key \in keys /\ stack[i].left \subseteq keys
    BY <1>1 DEF Frame
  <1>3. active = {stack[i].key : i \in 1..Len(stack)}
    BY <1>1 DEF active
  <1>4. /\ IsFiniteSet(keys) /\ NoKey \notin keys
        /\ \A m \in keys : graph.onward[m] \subseteq keys
        /\ limit \in Nat /\ start \in keys
    BY OwnershipWalkAssumption DEF WalkTypeOK, keys
  <1>5. /\ start \in reached /\ reached \subseteq keys
        /\ \A m \in reached : graph.onward[m] \subseteq reached
        /\ \A S \in SUBSET keys :
              start \in S /\ (\A m \in S : graph.onward[m] \subseteq S) => reached \subseteq S
    BY <1>4, ReachedIsClosure DEF keys, reached
  <1> QED
    BY <1>1, <1>2, <1>3, <1>4, <1>5

\* The stack has no key twice: it does not outgrow the graph.
LEMMA StackIsBounded ==
    ASSUME WalkTypeOK, StackIsPath
    PROVE  Len(stack) <= Cardinality(keys) /\ Cardinality(keys) \in Nat
  <1> DEFINE f == [i \in 1..Len(stack) |-> stack[i].key]
  <1>1. /\ \A i \in 1..Len(stack) : stack[i].key \in keys
        /\ Len(stack) \in Nat /\ DOMAIN stack = 1..Len(stack) /\ IsFiniteSet(keys)
    BY WalkFacts
  <1>2. f \in Injection(1..Len(stack), keys)
    BY <1>1 DEF StackIsPath, Injection, IsInjective
  <1> HIDE DEF f
  <1>3. Cardinality(1..Len(stack)) <= Cardinality(keys)
    BY <1>1, <1>2, FS_Injection
  <1>4. Cardinality(1..Len(stack)) = Len(stack)
    <2>1. Cardinality(1..Len(stack)) = IF 1 > Len(stack) THEN 0 ELSE Len(stack) - 1 + 1
      BY <1>1, FS_Interval
    <2> QED
      BY <1>1, <2>1
  <1> QED
    BY <1>1, <1>3, <1>4, FS_CardinalityType

\* A key that is called for again, before it is left, is in a circle.
LEMMA CalledAgainCircles ==
    ASSUME WalkTypeOK, StackIsPath, current # NoKey, current \in active
    PROVE  current \in Circling(graph.onward)
  <1>1. PICK j \in 1..Len(stack) : stack[j].key = current
    BY WalkFacts
  <1> DEFINE S == {stack[i].key : i \in j..Len(stack)}
  <1>2. /\ Len(stack) \in Nat /\ DOMAIN stack = 1..Len(stack) /\ stack # <<>>
        /\ \A i \in 1..Len(stack) : stack[i].key \in keys
    BY <1>1, WalkFacts
  <1>3. S \in SUBSET DOMAIN graph.onward /\ current \in S
    BY <1>1, <1>2 DEF keys
  <1>4. ASSUME NEW i \in j..Len(stack)
        PROVE  graph.onward[stack[i].key] \cap S # {}
    <2>1. CASE i = Len(stack)
      BY <1>2, <1>3, <2>1 DEF StackIsPath, Last
    <2>2. CASE i # Len(stack)
      <3>1. i \in 1..(Len(stack) - 1) /\ i + 1 \in j..Len(stack)
        <4> DEFINE n == Len(stack)
        <4>1. n \in Nat /\ j \in 1..n /\ i \in j..n /\ i # n
          BY <1>1, <1>2, <2>2
        <4> HIDE DEF n
        <4>2. i \in 1..(n - 1) /\ i + 1 \in j..n
          BY <4>1
        <4> QED
          BY <4>2 DEF n
      <3>2. stack[i + 1].key \in graph.onward[stack[i].key]
        BY <3>1 DEF StackIsPath
      <3> QED
        BY <3>1, <3>2
    <2> QED
      BY <2>1, <2>2
  <1>5. \A m \in S : graph.onward[m] \cap S # {}
    BY <1>4
  <1> HIDE DEF S
  <1> QED
    BY <1>3, <1>5 DEF Circling

-----------------------------------------------------------------------------
(* The steps.  The graph, the start and the limit stay in each. *)

\* What is said of the graph and the start stays.
LEMMA GivenStays ==
    ASSUME UNCHANGED given
    PROVE  /\ graph' = graph /\ start' = start /\ limit' = limit
           /\ keys' = keys /\ reached' = reached /\ Unlimited' = Unlimited /\ Frame' = Frame
  BY DEF given, keys, reached, Unlimited, Frame

LEMMA RefuseKeeps ==
    ASSUME WalkInv, Refuse
    PROVE  WalkInv'
  <1>1. /\ WalkTypeOK /\ StackIsPath /\ StartIsKnown /\ LooksAreKept /\ NothingIsForgotten
        /\ Len(stack) \in Nat /\ DOMAIN stack = 1..Len(stack)
        /\ stack = <<>> <=> Len(stack) = 0
        /\ NoKey \notin keys /\ limit \in Nat
        /\ active = {stack[i].key : i \in 1..Len(stack)}
    BY WalkFacts DEF WalkInv
  <1>2. /\ current # NoKey /\ Refused /\ current' = NoKey /\ topology' = FALSE
        /\ faults' = faults \cup {current}
        /\ stack' = stack /\ visited' = visited /\ owners' = owners
    BY DEF Refuse
  <1>3. /\ graph' = graph /\ start' = start /\ limit' = limit
        /\ keys' = keys /\ reached' = reached /\ Unlimited' = Unlimited /\ Frame' = Frame
    BY GivenStays DEF Refuse
  <1>4. active' = active /\ seen' = seen
    BY <1>2 DEF active, seen
  <1>5. stack # <<>> /\ current \in keys
    BY <1>1, <1>2 DEF Refused, WalkTypeOK
  <1>6. Unlimited => current \in active
    <2>1. Len(stack) <= Cardinality(keys) /\ Cardinality(keys) \in Nat
      BY <1>1, StackIsBounded
    <2> QED
      BY <1>1, <1>2, <2>1 DEF Refused, Unlimited
  <1>7. WalkTypeOK'
    BY <1>1, <1>2, <1>3, <1>5 DEF WalkTypeOK
  <1>8. StackIsPath'
    BY <1>1, <1>2, <1>3 DEF StackIsPath
  <1>9. StartIsKnown'
    BY <1>1, <1>2, <1>3, <1>5 DEF StartIsKnown
  <1>10. LooksAreKept'
    <2>1. Rootless(graph') = Rootless(graph)
      BY <1>3
    <2> QED
      BY <1>1, <1>2, <1>3, <1>4, <2>1 DEF LooksAreKept
  <1>11. NothingIsForgotten'
    <2> SUFFICES ASSUME Unlimited
                 PROVE  /\ \A v \in visited : graph.onward[v] \subseteq seen
                        /\ \A i \in DOMAIN stack :
                            graph.onward[stack[i].key] \subseteq seen \cup stack[i].left \cup {NoKey}
                        /\ faults' \subseteq reached \cap (Broken(graph) \cup graph.unusable)
                        /\ reached \cap Broken(graph) # {}
      BY <1>2, <1>3, <1>4 DEF NothingIsForgotten
    <2>1. current \in seen /\ current \in reached /\ current \in Broken(graph)
      <3>1. current \in Circling(graph.onward)
        BY <1>1, <1>2, <1>6, CalledAgainCircles
      <3> QED
        BY <1>1, <1>2, <1>6, <3>1 DEF seen, LooksAreKept, Broken
    <2> QED
      BY <1>1, <1>2, <2>1 DEF NothingIsForgotten
  <1>12. LeftIsFinished'
    BY <1>2 DEF LeftIsFinished
  <1> QED
    BY <1>7, <1>8, <1>9, <1>10, <1>11, <1>12 DEF WalkInv

LEMMA SkipKeeps ==
    ASSUME WalkInv, Skip
    PROVE  WalkInv'
  <1>1. /\ WalkTypeOK /\ StackIsPath /\ StartIsKnown /\ LooksAreKept
        /\ NothingIsForgotten /\ LeftIsFinished
        /\ DOMAIN stack = 1..Len(stack)
    BY WalkFacts DEF WalkInv
  <1>2. /\ current # NoKey /\ current \in visited /\ current' = NoKey
        /\ stack' = stack /\ visited' = visited /\ owners' = owners
        /\ topology' = topology /\ faults' = faults
    BY DEF Skip, found
  <1>3. /\ graph' = graph /\ start' = start /\ limit' = limit
        /\ keys' = keys /\ reached' = reached /\ Unlimited' = Unlimited /\ Frame' = Frame
    BY GivenStays DEF Skip
  <1>4. active' = active /\ seen' = seen
    BY <1>2 DEF active, seen
  <1>5. WalkTypeOK'
    BY <1>1, <1>2, <1>3 DEF WalkTypeOK
  <1>6. StackIsPath'
    BY <1>1, <1>2, <1>3 DEF StackIsPath
  <1>7. StartIsKnown'
    BY <1>1, <1>2, <1>3 DEF StartIsKnown
  <1>8. LooksAreKept'
    BY <1>1, <1>2, <1>3, <1>4 DEF LooksAreKept
  <1>9. NothingIsForgotten'
    <2>1. current \in seen
      BY <1>2 DEF seen
    <2> QED
      BY <1>1, <1>2, <1>3, <1>4, <2>1 DEF NothingIsForgotten
  <1>10. LeftIsFinished'
    <2> SUFFICES ASSUME topology
                 PROVE  \A i \in DOMAIN stack :
                            graph.onward[stack[i].key] \subseteq
                                visited \cup stack[i].left
                                    \cup (IF i = Len(stack) THEN {NoKey} ELSE {stack[i + 1].key})
      BY <1>1, <1>2, <1>3 DEF LeftIsFinished
    <2> TAKE i \in DOMAIN stack
    <2>1. graph.onward[stack[i].key] \subseteq visited \cup stack[i].left
                \cup (IF i = Len(stack) THEN {current} ELSE {stack[i + 1].key})
      BY <1>1 DEF LeftIsFinished
    <2>2. CASE i = Len(stack)
      BY <1>2, <2>1, <2>2
    <2>3. CASE i # Len(stack)
      BY <2>1, <2>3
    <2> QED
      BY <2>2, <2>3
  <1> QED
    BY <1>5, <1>6, <1>7, <1>8, <1>9, <1>10 DEF WalkInv

\* What the first look at a key adds, whether the key leads on or not.
LEMMA VisitLooks ==
    ASSUME WalkInv, Visit, seen' = seen \cup {current}
    PROVE  /\ LooksAreKept'
           /\ Unlimited => /\ faults' \subseteq reached \cap (Broken(graph) \cup graph.unusable)
                           /\ ~topology' => reached \cap Broken(graph) # {}
           /\ faults' \subseteq keys /\ topology' \in BOOLEAN
           /\ topology' => topology
  <1> DEFINE broken == current \in graph.tainted \cup Rootless(graph)
  <1>1. /\ WalkTypeOK /\ LooksAreKept /\ NothingIsForgotten
        /\ current \in keys /\ current # NoKey /\ current' = NoKey
    BY DEF WalkInv, WalkTypeOK, Visit
  <1>2. /\ topology' = (topology /\ ~broken)
        /\ faults' = IF broken \/ current \in graph.unusable THEN faults \cup {current} ELSE faults
        /\ owners' = owners \cup ({current} \cap graph.physical)
    BY DEF Visit
  <1>3. graph' = graph /\ start' = start /\ reached' = reached
    BY GivenStays DEF Visit
  <1>4. /\ seen \subseteq reached /\ current \in reached /\ owners = seen \cap graph.physical
        /\ seen \cap (graph.tainted \cup Rootless(graph) \cup graph.unusable) \subseteq faults
        /\ topology => seen \cap (graph.tainted \cup Rootless(graph)) = {}
        /\ ~topology => faults # {}
    BY <1>1 DEF LooksAreKept
  <1>5. topology' \in BOOLEAN /\ (topology' => topology)
    BY <1>1, <1>2 DEF WalkTypeOK
  <1>6. faults \subseteq faults' /\ (broken \/ current \in graph.unusable => current \in faults')
    BY <1>2
  <1>7. faults' \subseteq keys
    BY <1>1, <1>2 DEF WalkTypeOK
  <1>8. Rootless(graph') = Rootless(graph)
    BY <1>3
  <1>9. ~topology' => ~topology \/ broken
    BY <1>1, <1>2
  <1>10. topology' => topology /\ ~broken
    BY <1>2
  <1>11. LooksAreKept'
    <2>1. seen' \subseteq reached' /\ (current' # NoKey => current' \in reached')
      BY <1>1, <1>3, <1>4
    <2>2. owners' = seen' \cap graph'.physical
      BY <1>2, <1>3, <1>4
    <2>3. seen' \cap (graph'.tainted \cup Rootless(graph') \cup graph'.unusable) \subseteq faults'
      BY <1>3, <1>4, <1>6, <1>8
    <2>4. topology' => seen' \cap (graph'.tainted \cup Rootless(graph')) = {}
      BY <1>3, <1>4, <1>8, <1>10
    <2>5. ~topology' => faults' # {}
      BY <1>4, <1>6, <1>9
    <2> QED
      BY <2>1, <2>2, <2>3, <2>4, <2>5 DEF LooksAreKept
  <1>12. broken => current \in reached \cap Broken(graph)
    BY <1>4 DEF Broken
  <1>13. ASSUME Unlimited
         PROVE  /\ faults' \subseteq reached \cap (Broken(graph) \cup graph.unusable)
                /\ ~topology' => reached \cap Broken(graph) # {}
    <2>1. /\ faults \subseteq reached \cap (Broken(graph) \cup graph.unusable)
          /\ ~topology => reached \cap Broken(graph) # {}
      BY <1>1, <1>13 DEF NothingIsForgotten
    <2>2. faults' \subseteq faults \cup {current}
      BY <1>2
    <2>3. current \in faults' => current \in faults \/ broken \/ current \in graph.unusable
      BY <1>2
    <2> HIDE DEF broken
    <2> QED
      BY <1>4, <1>9, <1>12, <2>1, <2>2, <2>3
  <1> QED
    BY <1>5, <1>7, <1>11, <1>13

\* A key that leads nowhere.
LEMMA VisitOfEndKeeps ==
    ASSUME WalkInv, Visit, graph.onward[current] = {}
    PROVE  WalkInv'
  <1>1. /\ WalkTypeOK /\ StackIsPath /\ StartIsKnown /\ LooksAreKept
        /\ NothingIsForgotten /\ LeftIsFinished
        /\ DOMAIN stack = 1..Len(stack) /\ Len(stack) \in Nat
        /\ active = {stack[i].key : i \in 1..Len(stack)}
    BY WalkFacts DEF WalkInv
  <1>2. /\ current # NoKey /\ current \notin visited /\ current \notin active
        /\ current \in keys /\ current' = NoKey
        /\ stack' = stack /\ visited' = visited \cup {current}
    BY <1>1 DEF Visit, Refused, WalkTypeOK
  <1>3. /\ graph' = graph /\ start' = start /\ limit' = limit
        /\ keys' = keys /\ reached' = reached /\ Unlimited' = Unlimited /\ Frame' = Frame
    BY GivenStays DEF Visit
  <1>4. active' = active /\ seen' = seen \cup {current}
    BY <1>2 DEF active, seen
  <1>5. /\ LooksAreKept'
        /\ Unlimited => /\ faults' \subseteq reached \cap (Broken(graph) \cup graph.unusable)
                        /\ ~topology' => reached \cap Broken(graph) # {}
        /\ faults' \subseteq keys /\ topology' \in BOOLEAN
        /\ topology' => topology
    BY <1>4, VisitLooks
  <1>6. WalkTypeOK'
    BY <1>1, <1>2, <1>3, <1>5 DEF WalkTypeOK
  <1>7. StackIsPath'
    <2>1. \A i \in DOMAIN stack : stack[i].key \in active
      BY <1>1
    <2> QED
      BY <1>1, <1>2, <1>3, <2>1 DEF StackIsPath
  <1>8. StartIsKnown'
    BY <1>1, <1>2, <1>3 DEF StartIsKnown
  <1>9. NothingIsForgotten'
    <2> SUFFICES ASSUME Unlimited
                 PROVE  /\ \A v \in visited' : graph.onward[v] \subseteq seen'
                        /\ \A i \in DOMAIN stack :
                            graph.onward[stack[i].key] \subseteq seen' \cup stack[i].left \cup {NoKey}
      BY <1>2, <1>3, <1>5 DEF NothingIsForgotten
    <2> QED
      BY <1>1, <1>2, <1>4 DEF NothingIsForgotten
  <1>10. LeftIsFinished'
    <2> SUFFICES ASSUME topology
                 PROVE  /\ \A v \in visited' : graph.onward[v] \subseteq visited'
                        /\ \A i \in DOMAIN stack :
                            graph.onward[stack[i].key] \subseteq
                                visited' \cup stack[i].left
                                    \cup (IF i = Len(stack) THEN {NoKey} ELSE {stack[i + 1].key})
                        /\ visited' \cap Circling(graph.onward) = {}
      BY <1>2, <1>3, <1>5 DEF LeftIsFinished
    <2>1. \A v \in visited' : graph.onward[v] \subseteq visited'
      BY <1>1, <1>2 DEF LeftIsFinished
    <2>2. ASSUME NEW i \in DOMAIN stack
          PROVE  graph.onward[stack[i].key] \subseteq visited' \cup stack[i].left
                    \cup (IF i = Len(stack) THEN {NoKey} ELSE {stack[i + 1].key})
      <3>1. graph.onward[stack[i].key] \subseteq visited \cup stack[i].left
                \cup (IF i = Len(stack) THEN {current} ELSE {stack[i + 1].key})
        BY <1>1 DEF LeftIsFinished
      <3>2. CASE i = Len(stack)
        BY <1>2, <3>1, <3>2
      <3>3. CASE i # Len(stack)
        BY <1>2, <3>1, <3>3
      <3> QED
        BY <3>2, <3>3
    <2>3. current \notin Circling(graph.onward)
      BY DEF Circling
    <2> QED
      BY <1>1, <1>2, <2>1, <2>2, <2>3 DEF LeftIsFinished
  <1> QED
    BY <1>5, <1>6, <1>7, <1>8, <1>9, <1>10 DEF WalkInv

\* A key that leads on: the walk is in it.
LEMMA VisitOnTheWayKeeps ==
    ASSUME WalkInv, Visit, graph.onward[current] # {}
    PROVE  WalkInv'
  <1> DEFINE n == Len(stack)
             frame == [key |-> current, left |-> graph.onward[current]]
  <1>1. /\ WalkTypeOK /\ StackIsPath /\ StartIsKnown /\ LooksAreKept
        /\ NothingIsForgotten /\ LeftIsFinished
        /\ DOMAIN stack = 1..n /\ n \in Nat /\ (stack = <<>> <=> n = 0)
        /\ \A m \in keys : graph.onward[m] \subseteq keys
        /\ active = {stack[i].key : i \in 1..n}
    BY WalkFacts DEF WalkInv
  <1>2. /\ current # NoKey /\ current \notin visited /\ current \notin active
        /\ current \in keys /\ current' = NoKey
        /\ stack' = Append(stack, frame) /\ visited' = visited
    BY <1>1 DEF Visit, Refused, WalkTypeOK
  <1>3. /\ graph' = graph /\ start' = start /\ limit' = limit
        /\ keys' = keys /\ reached' = reached /\ Unlimited' = Unlimited /\ Frame' = Frame
    BY GivenStays DEF Visit
  <1>4. frame \in Frame /\ frame.key = current /\ frame.left = graph.onward[current]
    BY <1>1, <1>2 DEF Frame
  <1> HIDE DEF n, frame
  <1>5. /\ stack' \in Seq(Frame) /\ stack' # <<>>
        /\ Len(stack') = n + 1 /\ DOMAIN stack' = 1..(n + 1)
        /\ \A i \in 1..n : stack'[i] = stack[i]
        /\ stack'[n + 1] = frame
    BY <1>1, <1>2, <1>4, StackGrows DEF WalkTypeOK, n
  <1>6. \A i \in 1..(n + 1) : i \in 1..n \/ i = n + 1
    BY <1>1
  <1>7. active' = active \cup {current}
    <2>1. active' = {stack'[i].key : i \in 1..(n + 1)}
      BY <1>5 DEF active
    <2>2. \A i \in 1..n : i \in 1..(n + 1) /\ stack'[i].key = stack[i].key
      BY <1>1, <1>5
    <2>3. n + 1 \in 1..(n + 1) /\ stack'[n + 1].key = current
      BY <1>1, <1>4, <1>5
    <2> QED
      BY <1>1, <1>6, <2>1, <2>2, <2>3
  <1>8. seen' = seen \cup {current}
    BY <1>2, <1>7 DEF seen
  <1>9. /\ LooksAreKept'
        /\ Unlimited => /\ faults' \subseteq reached \cap (Broken(graph) \cup graph.unusable)
                        /\ ~topology' => reached \cap Broken(graph) # {}
        /\ faults' \subseteq keys /\ topology' \in BOOLEAN
        /\ topology' => topology
    BY <1>8, VisitLooks
  <1>10. WalkTypeOK'
    BY <1>1, <1>2, <1>3, <1>5, <1>9 DEF WalkTypeOK
  <1>11. StackIsPath'
    <2>1. \A i \in DOMAIN stack' : /\ stack'[i].left \subseteq graph.onward[stack'[i].key]
                                   /\ stack'[i].key \notin visited
      BY <1>1, <1>2, <1>4, <1>5, <1>6 DEF StackIsPath
    <2>2. ASSUME NEW i \in DOMAIN stack', NEW j \in DOMAIN stack', stack'[i].key = stack'[j].key
          PROVE  i = j
      <3>1. \A k \in 1..n : stack'[k].key # current
        BY <1>1, <1>2, <1>5
      <3>2. CASE i \in 1..n /\ j \in 1..n
        BY <1>1, <1>5, <2>2, <3>2 DEF StackIsPath
      <3>3. CASE i = n + 1 \/ j = n + 1
        BY <1>4, <1>5, <1>6, <2>2, <3>1, <3>3
      <3> QED
        BY <1>5, <1>6, <3>2, <3>3
    <2>3. ASSUME NEW i \in 1..(Len(stack') - 1)
          PROVE  stack'[i + 1].key \in graph.onward[stack'[i].key]
      <3>1. i \in 1..n
        BY <1>1, <1>5
      <3>2. CASE i = n
        <4>1. stack'[i + 1].key = current /\ stack'[i] = stack[i] /\ stack # <<>>
          BY <1>1, <1>4, <1>5, <3>1, <3>2
        <4>2. Last(stack) = stack[i]
          BY <3>2 DEF Last, n
        <4> QED
          BY <1>1, <1>2, <4>1, <4>2 DEF StackIsPath
      <3>3. CASE i # n
        <4>1. i \in 1..(n - 1) /\ i + 1 \in 1..n
          BY <1>1, <3>1, <3>3
        <4> QED
          BY <1>1, <1>5, <3>1, <4>1 DEF StackIsPath, n
      <3> QED
        BY <3>2, <3>3
    <2> QED
      BY <1>2, <1>3, <2>1, <2>2, <2>3 DEF StackIsPath
  <1>12. StartIsKnown'
    <2>1. CASE n = 0
      BY <1>1, <1>2, <1>3, <1>4, <1>5, <2>1 DEF StartIsKnown
    <2>2. CASE n # 0
      <3>1. stack'[1] = stack[1] /\ stack # <<>>
        BY <1>1, <1>5, <2>2
      <3> QED
        BY <1>1, <1>3, <1>5, <3>1 DEF StartIsKnown
    <2> QED
      BY <2>1, <2>2
  <1>13. NothingIsForgotten'
    <2> SUFFICES ASSUME Unlimited
                 PROVE  /\ \A v \in visited : graph.onward[v] \subseteq seen'
                        /\ \A i \in DOMAIN stack' :
                            graph.onward[stack'[i].key]
                                \subseteq seen' \cup stack'[i].left \cup {NoKey}
      BY <1>2, <1>3, <1>9 DEF NothingIsForgotten
    <2>1. \A v \in visited : graph.onward[v] \subseteq seen'
      BY <1>1, <1>8 DEF NothingIsForgotten
    <2>2. ASSUME NEW i \in DOMAIN stack'
          PROVE  graph.onward[stack'[i].key] \subseteq seen' \cup stack'[i].left \cup {NoKey}
      <3>1. CASE i \in 1..n
        BY <1>1, <1>5, <1>8, <3>1 DEF NothingIsForgotten
      <3>2. CASE i = n + 1
        BY <1>4, <1>5, <3>2
      <3> QED
        BY <1>5, <1>6, <3>1, <3>2
    <2> QED
      BY <2>1, <2>2
  <1>14. LeftIsFinished'
    <2> SUFFICES ASSUME topology, NEW i \in DOMAIN stack'
                 PROVE  graph.onward[stack'[i].key] \subseteq
                            visited \cup stack'[i].left
                                \cup (IF i = n + 1 THEN {NoKey} ELSE {stack'[i + 1].key})
      BY <1>1, <1>2, <1>3, <1>5, <1>9 DEF LeftIsFinished
    <2>1. CASE i = n + 1
      BY <1>4, <1>5, <2>1
    <2>2. CASE i = n /\ i \in 1..n
      <3>1. graph.onward[stack[i].key] \subseteq visited \cup stack[i].left \cup {current}
        BY <1>1, <2>2 DEF LeftIsFinished, n
      <3>2. i # n + 1 /\ stack'[i] = stack[i] /\ stack'[i + 1].key = current
        BY <1>1, <1>4, <1>5, <2>2
      <3> QED
        BY <3>1, <3>2
    <2>3. CASE i # n /\ i \in 1..n
      <3>1. i # n + 1 /\ i + 1 \in 1..n
        BY <1>1, <2>3
      <3>2. stack'[i] = stack[i] /\ stack'[i + 1] = stack[i + 1]
        BY <1>5, <2>3, <3>1
      <3>3. graph.onward[stack[i].key] \subseteq visited \cup stack[i].left \cup {stack[i + 1].key}
        BY <1>1, <2>3 DEF LeftIsFinished, n
      <3> QED
        BY <3>1, <3>2, <3>3
    <2> QED
      BY <1>5, <1>6, <2>1, <2>2, <2>3
  <1> QED
    BY <1>9, <1>10, <1>11, <1>12, <1>13, <1>14 DEF WalkInv

LEMMA VisitKeeps ==
    ASSUME WalkInv, Visit
    PROVE  WalkInv'
  BY VisitOfEndKeeps, VisitOnTheWayKeeps

LEMMA GoOnKeeps ==
    ASSUME WalkInv, GoOn
    PROVE  WalkInv'
  <1> DEFINE n == Len(stack)
  <1>1. /\ WalkTypeOK /\ StackIsPath /\ StartIsKnown /\ LooksAreKept
        /\ NothingIsForgotten /\ LeftIsFinished
        /\ DOMAIN stack = 1..n /\ n \in Nat /\ n # 0
        /\ \A m \in reached : graph.onward[m] \subseteq reached
        /\ \A m \in keys : graph.onward[m] \subseteq keys
        /\ NoKey \notin keys
    BY WalkFacts DEF WalkInv, GoOn
  <1>2. PICK provider \in stack[n].left :
            /\ current' = provider
            /\ stack' = [stack EXCEPT ![n].left = @ \ {provider}]
    BY DEF GoOn, Last
  <1>3. /\ current = NoKey /\ visited' = visited /\ owners' = owners
        /\ topology' = topology /\ faults' = faults
    BY DEF GoOn, found
  <1>4. /\ graph' = graph /\ start' = start /\ limit' = limit
        /\ keys' = keys /\ reached' = reached /\ Unlimited' = Unlimited /\ Frame' = Frame
    BY GivenStays DEF GoOn
  <1> HIDE DEF n
  <1>5. /\ n \in 1..n /\ stack[n] \in Frame /\ stack[n].key \in keys
        /\ stack[n].left \subseteq graph.onward[stack[n].key]
    <2>1. n \in 1..n
      BY <1>1
    <2>2. stack[n] \in Frame
      BY <1>1, <2>1 DEF WalkTypeOK
    <2> QED
      BY <1>1, <2>1, <2>2 DEF StackIsPath, Frame
  <1>6. /\ stack' \in Seq(Frame) /\ DOMAIN stack' = 1..n /\ Len(stack') = n
        /\ \A i \in 1..n : i # n => stack'[i] = stack[i]
        /\ stack'[n].key = stack[n].key /\ stack'[n].left = stack[n].left \ {provider}
    <2> DEFINE frame == [stack[n] EXCEPT !.left = @ \ {provider}]
    <2>1. /\ frame \in Frame /\ frame.key = stack[n].key
          /\ frame.left = stack[n].left \ {provider}
      BY <1>5 DEF Frame
    <2>2. stack' = [stack EXCEPT ![n] = frame]
      BY <1>2
    <2> HIDE DEF frame
    <2>3. stack \in Seq(Frame) /\ Len(stack) = n
      BY <1>1 DEF WalkTypeOK, n
    <2>4. stack' \in Seq(Frame) /\ Len(stack') = n
      BY <1>5, <2>1, <2>2, <2>3
    <2> QED
      BY <1>1, <1>5, <2>1, <2>2, <2>4
  <1>7. \A i \in 1..n : stack'[i].key = stack[i].key /\ stack'[i].left \subseteq stack[i].left
    BY <1>6
  <1>8. active' = active /\ seen' = seen
    <2>1. active' = {stack'[i].key : i \in 1..n} /\ active = {stack[i].key : i \in 1..n}
      BY <1>1, <1>6 DEF active
    <2>2. active' = active
      BY <1>7, <2>1
    <2> QED
      BY <1>3, <2>2 DEF seen
  <1>9. provider \in graph.onward[stack[n].key] /\ provider \in keys
    BY <1>1, <1>2, <1>5
  <1>10. WalkTypeOK'
    BY <1>1, <1>2, <1>3, <1>4, <1>6, <1>9 DEF WalkTypeOK
  <1>11. StackIsPath'
    <2>1. \A i \in 1..n : /\ stack'[i].left \subseteq graph.onward[stack'[i].key]
                          /\ stack'[i].key \notin visited
      BY <1>1, <1>7 DEF StackIsPath
    <2>2. \A i \in 1..n : \A j \in 1..n : stack'[i].key = stack'[j].key => i = j
      BY <1>1, <1>7 DEF StackIsPath
    <2>3. \A i \in 1..(n - 1) : stack'[i + 1].key \in graph.onward[stack'[i].key]
      <3>1. \A i \in 1..(n - 1) : i \in 1..n /\ i + 1 \in 1..n
        BY <1>1
      <3> QED
        BY <1>1, <1>7, <3>1 DEF StackIsPath, n
    <2>4. current' \in graph.onward[Last(stack').key]
      BY <1>2, <1>6, <1>9 DEF Last
    <2> QED
      BY <1>3, <1>4, <1>6, <2>1, <2>2, <2>3, <2>4 DEF StackIsPath
  <1>12. StartIsKnown'
    <2>1. 1 \in 1..n
      BY <1>1
    <2>2. stack # <<>>
      BY <1>1, WalkFacts DEF n
    <2>3. stack' # <<>>
      BY <1>1, <1>6, EmptySeq
    <2> QED
      BY <1>1, <1>4, <1>7, <2>1, <2>2, <2>3 DEF StartIsKnown
  <1>13. LooksAreKept'
    <2>1. stack[n].key \in seen
      BY <1>1, <1>5 DEF seen, active
    <2>2. current' \in reached
      BY <1>1, <1>2, <1>9, <2>1 DEF LooksAreKept
    <2>3. Rootless(graph') = Rootless(graph)
      BY <1>4
    <2> QED
      BY <1>1, <1>3, <1>4, <1>8, <2>2, <2>3 DEF LooksAreKept
  <1>14. NothingIsForgotten'
    <2> SUFFICES ASSUME Unlimited
                 PROVE  \A i \in DOMAIN stack' :
                            graph.onward[stack'[i].key]
                                \subseteq seen \cup stack'[i].left \cup {provider}
      BY <1>1, <1>2, <1>3, <1>4, <1>8 DEF NothingIsForgotten
    <2> SUFFICES ASSUME NEW i \in 1..n
                 PROVE  graph.onward[stack'[i].key] \subseteq seen \cup stack'[i].left \cup {provider}
      BY <1>6
    <2>1. graph.onward[stack[i].key] \subseteq seen \cup stack[i].left
      <3>1. graph.onward[stack[i].key] \subseteq seen \cup stack[i].left \cup {current}
        BY <1>1 DEF NothingIsForgotten
      <3>2. stack[i].key \in keys
        BY WalkFacts, <1>1 DEF n
      <3> QED
        BY <1>1, <1>3, <3>1, <3>2
    <2>2. stack[i].left \subseteq stack'[i].left \cup {provider}
      BY <1>6
    <2> QED
      BY <1>7, <2>1, <2>2
  <1>15. LeftIsFinished'
    <2> SUFFICES ASSUME topology, NEW i \in 1..n
                 PROVE  graph.onward[stack'[i].key] \subseteq
                            visited \cup stack'[i].left
                                \cup (IF i = n THEN {provider} ELSE {stack'[i + 1].key})
      BY <1>1, <1>2, <1>3, <1>4, <1>6 DEF LeftIsFinished
    <2>1. CASE i = n
      <3>1. graph.onward[stack[n].key] \subseteq visited \cup stack[n].left \cup {NoKey}
        BY <1>1, <1>3, <1>5 DEF LeftIsFinished, n
      <3>2. graph.onward[stack[n].key] \subseteq visited \cup stack[n].left
        BY <1>1, <1>5, <3>1
      <3> QED
        BY <1>6, <2>1, <3>2
    <2>2. CASE i # n
      <3>1. i + 1 \in 1..n
        BY <1>1, <2>2
      <3>2. graph.onward[stack[i].key] \subseteq visited \cup stack[i].left \cup {stack[i + 1].key}
        BY <1>1, <2>2 DEF LeftIsFinished, n
      <3>3. stack'[i] = stack[i] /\ stack'[i + 1].key = stack[i + 1].key
        BY <1>6, <1>7, <2>2, <3>1
      <3> QED
        BY <2>2, <3>2, <3>3
    <2> QED
      BY <2>1, <2>2
  <1> QED
    BY <1>10, <1>11, <1>12, <1>13, <1>14, <1>15 DEF WalkInv

LEMMA LeaveKeeps ==
    ASSUME WalkInv, Leave
    PROVE  WalkInv'
  <1> DEFINE n == Len(stack) - 1
             key == Last(stack).key
  <1>1. /\ WalkTypeOK /\ StackIsPath /\ StartIsKnown /\ LooksAreKept
        /\ NothingIsForgotten /\ LeftIsFinished
        /\ NoKey \notin keys
        /\ active = {stack[i].key : i \in 1..Len(stack)}
        /\ \A i \in 1..Len(stack) : stack[i].key \in keys
        /\ \A m \in keys : graph.onward[m] \subseteq keys
    BY WalkFacts DEF WalkInv
  <1>2. /\ stack # <<>> /\ Last(stack).left = {}
        /\ current = NoKey /\ current' = NoKey
        /\ visited' = visited \cup {key} /\ stack' = Front(stack)
        /\ owners' = owners /\ topology' = topology /\ faults' = faults
    BY DEF Leave, found
  <1>3. /\ graph' = graph /\ start' = start /\ limit' = limit
        /\ keys' = keys /\ reached' = reached /\ Unlimited' = Unlimited /\ Frame' = Frame
    BY GivenStays DEF Leave
  <1>4. /\ n \in Nat /\ Len(stack) = n + 1 /\ DOMAIN stack = 1..(n + 1)
        /\ stack' \in Seq(Frame) /\ Len(stack') = n /\ DOMAIN stack' = 1..n
        /\ \A i \in 1..n : stack'[i] = stack[i]
        /\ Last(stack) = stack[n + 1]
    <2>1. stack \in Seq(Frame) /\ stack # <<>>
      BY <1>1, <1>2 DEF WalkTypeOK
    <2>2. /\ Front(stack) \in Seq(Frame)
          /\ Len(stack) \in Nat /\ Len(stack) >= 1 /\ DOMAIN stack = 1..Len(stack)
          /\ Len(Front(stack)) = Len(stack) - 1
          /\ DOMAIN Front(stack) = 1..(Len(stack) - 1)
          /\ \A i \in 1..(Len(stack) - 1) : Front(stack)[i] = stack[i]
          /\ Last(stack) = stack[Len(stack)]
      BY <2>1, StackShrinks
    <2>3. n \in Nat /\ Len(stack) = n + 1 /\ n = Len(stack) - 1
      BY <2>2
    <2>4. stack' = Front(stack)
      BY <1>2
    <2> HIDE DEF n
    <2>5. Len(stack) - 1 = n /\ 1..Len(stack) = 1..(n + 1) /\ 1..(Len(stack) - 1) = 1..n
      BY <2>3
    <2> QED
      BY <2>2, <2>3, <2>4, <2>5
  <1>5. key = stack[n + 1].key /\ stack[n + 1].left = {}
    BY <1>2, <1>4
  <1> HIDE DEF n, key
  <1>6. \A i \in 1..(n + 1) : i \in 1..n \/ i = n + 1
    BY <1>4
  <1>7. n + 1 \in 1..(n + 1) /\ \A i \in 1..n : i \in 1..(n + 1) /\ i # n + 1
    BY <1>4
  <1>8. /\ key \in keys /\ key \in active /\ key \notin visited
        /\ graph.onward[key] \subseteq keys
        /\ \A i \in 1..n : stack[i].key # key
    BY <1>1, <1>4, <1>5, <1>7 DEF StackIsPath
  <1>9. active = active' \cup {key}
    <2>1. active' = {stack'[i].key : i \in 1..n}
      BY <1>4 DEF active
    <2>2. active = {stack[i].key : i \in 1..(n + 1)}
      BY <1>1, <1>4
    <2> QED
      BY <1>4, <1>5, <1>6, <1>7, <2>1, <2>2
  <1>10. seen' = seen
    BY <1>2, <1>9 DEF seen
  <1>11. WalkTypeOK'
    BY <1>1, <1>2, <1>3, <1>4, <1>8 DEF WalkTypeOK
  <1>12. StackIsPath'
    <2>1. \A i \in 1..n : /\ stack'[i].left \subseteq graph.onward[stack'[i].key]
                          /\ stack'[i].key \notin visited'
      BY <1>1, <1>2, <1>4, <1>7, <1>8 DEF StackIsPath
    <2>2. \A i \in 1..n : \A j \in 1..n : stack'[i].key = stack'[j].key => i = j
      BY <1>1, <1>4, <1>7 DEF StackIsPath
    <2>3. \A i \in 1..(n - 1) : stack'[i + 1].key \in graph.onward[stack'[i].key]
      <3>1. \A i \in 1..(n - 1) : i \in 1..n /\ i + 1 \in 1..n /\ i \in 1..(Len(stack) - 1)
        BY <1>4
      <3> QED
        BY <1>1, <1>4, <3>1 DEF StackIsPath
    <2> QED
      BY <1>2, <1>3, <1>4, <2>1, <2>2, <2>3 DEF StackIsPath
  <1>13. StartIsKnown'
    <2>1. stack[1].key = start
      BY <1>1, <1>2 DEF StartIsKnown
    <2>2. CASE n = 0
      <3>1. stack' = <<>> /\ key = start
        BY <1>4, <1>5, <2>1, <2>2, EmptySeq
      <3> QED
        BY <1>2, <1>3, <3>1 DEF StartIsKnown
    <2>3. CASE n # 0
      <3>1. stack' # <<>> /\ 1 \in 1..n
        BY <1>4, <2>3, EmptySeq
      <3> QED
        BY <1>3, <1>4, <2>1, <3>1 DEF StartIsKnown
    <2> QED
      BY <2>2, <2>3
  <1>14. LooksAreKept'
    <2>1. Rootless(graph') = Rootless(graph)
      BY <1>3
    <2> QED
      BY <1>1, <1>2, <1>3, <1>10, <2>1 DEF LooksAreKept
  <1>15. NothingIsForgotten'
    <2> SUFFICES ASSUME Unlimited
                 PROVE  /\ \A v \in visited' : graph.onward[v] \subseteq seen
                        /\ \A i \in 1..n : graph.onward[stack[i].key]
                                            \subseteq seen \cup stack[i].left \cup {NoKey}
      BY <1>1, <1>2, <1>3, <1>4, <1>10 DEF NothingIsForgotten
    <2>1. graph.onward[key] \subseteq seen
      <3>1. graph.onward[key] \subseteq seen \cup {} \cup {NoKey}
        BY <1>1, <1>2, <1>4, <1>5, <1>7 DEF NothingIsForgotten
      <3> QED
        BY <1>1, <1>8, <3>1
    <2> QED
      BY <1>1, <1>2, <1>4, <1>7, <2>1 DEF NothingIsForgotten
  <1>16. LeftIsFinished'
    <2> SUFFICES ASSUME topology
                 PROVE  /\ \A v \in visited' : graph.onward[v] \subseteq visited'
                        /\ \A i \in 1..n : graph.onward[stack[i].key] \subseteq
                            visited' \cup stack[i].left
                                \cup (IF i = n THEN {NoKey} ELSE {stack'[i + 1].key})
                        /\ visited' \cap Circling(graph.onward) = {}
      BY <1>1, <1>2, <1>3, <1>4 DEF LeftIsFinished
    <2>1. graph.onward[key] \subseteq visited
      <3>1. graph.onward[key] \subseteq visited \cup {} \cup {NoKey}
        BY <1>1, <1>2, <1>4, <1>5, <1>7 DEF LeftIsFinished
      <3> QED
        BY <1>1, <1>8, <3>1
    <2>2. \A v \in visited' : graph.onward[v] \subseteq visited'
      BY <1>1, <1>2, <2>1 DEF LeftIsFinished
    <2>3. ASSUME NEW i \in 1..n
          PROVE  graph.onward[stack[i].key] \subseteq visited' \cup stack[i].left
                    \cup (IF i = n THEN {NoKey} ELSE {stack'[i + 1].key})
      <3>1. i # Len(stack) /\ i \in DOMAIN stack
        BY <1>4, <1>7
      <3>2. graph.onward[stack[i].key] \subseteq visited \cup stack[i].left \cup {stack[i + 1].key}
        BY <1>1, <3>1 DEF LeftIsFinished
      <3>3. CASE i = n
        BY <1>2, <1>5, <3>2, <3>3
      <3>4. CASE i # n
        <4>1. i + 1 \in 1..n
          BY <1>4, <3>4
        <4>2. stack'[i + 1].key = stack[i + 1].key
          BY <1>4, <4>1
        <4> QED
          BY <1>2, <3>2, <3>4, <4>2
      <3> QED
        BY <3>3, <3>4
    <2>4. key \notin Circling(graph.onward)
      <3> SUFFICES ASSUME NEW S \in SUBSET DOMAIN graph.onward,
                          \A m \in S : graph.onward[m] \cap S # {}, key \in S
                   PROVE  FALSE
        BY DEF Circling
      <3>1. PICK m \in S : m \in graph.onward[key]
        OBVIOUS
      <3>2. m \in Circling(graph.onward)
        BY <3>1 DEF Circling
      <3> QED
        BY <1>1, <2>1, <3>1, <3>2 DEF LeftIsFinished
    <2> QED
      BY <1>1, <1>2, <2>2, <2>3, <2>4 DEF LeftIsFinished
  <1> QED
    BY <1>11, <1>12, <1>13, <1>14, <1>15, <1>16 DEF WalkInv

LEMMA WalkInitially ==
    ASSUME Init
    PROVE  WalkInv
  <1>1. /\ graph \in Graphs /\ start \in graph.nodes /\ limit \in DepthLimits
        /\ current = start /\ stack = <<>> /\ visited = {} /\ owners = {} /\ faults = {}
        /\ topology = TRUE
    BY DEF Init
  <1>2. WalkTypeOK
    <2>1. start \in keys
      BY <1>1, OwnershipWalkAssumption DEF keys
    <2>2. <<>> \in Seq(Frame)
      OBVIOUS
    <2> QED
      BY <1>1, <2>1, <2>2 DEF WalkTypeOK
  <1>3. /\ DOMAIN stack = {} /\ start \in reached /\ start \in keys /\ NoKey \notin keys
        /\ active = {} /\ seen = {}
    BY <1>1, <1>2, WalkFacts DEF active, seen
  <1>4. Len(stack) = 0
    BY <1>1, EmptySeq
  <1>5. StackIsPath
    BY <1>1, <1>3, <1>4 DEF StackIsPath
  <1>6. StartIsKnown /\ LooksAreKept
    BY <1>1, <1>3 DEF StartIsKnown, LooksAreKept
  <1>7. NothingIsForgotten /\ LeftIsFinished
    BY <1>1, <1>3 DEF NothingIsForgotten, LeftIsFinished
  <1> QED
    BY <1>2, <1>5, <1>6, <1>7 DEF WalkInv

LEMMA WalkAlways ==
    ASSUME WalkInv, [Next]_walkVars
    PROVE  WalkInv'
  <1>1. CASE UNCHANGED walkVars
    <2>1. UNCHANGED given /\ UNCHANGED <<current, stack, visited, owners, faults, topology>>
      BY <1>1 DEF walkVars, found
    <2>2. /\ graph' = graph /\ start' = start /\ limit' = limit
          /\ keys' = keys /\ reached' = reached /\ Unlimited' = Unlimited /\ Frame' = Frame
      BY <2>1, GivenStays
    <2>3. active' = active /\ seen' = seen /\ Rootless(graph') = Rootless(graph)
      BY <2>1, <2>2 DEF active, seen
    <2>4. WalkTypeOK' /\ StackIsPath' /\ StartIsKnown'
      BY <2>1, <2>2 DEF WalkInv, WalkTypeOK, StackIsPath, StartIsKnown
    <2>5. LooksAreKept' /\ NothingIsForgotten' /\ LeftIsFinished'
      BY <2>1, <2>2, <2>3 DEF WalkInv, LooksAreKept, NothingIsForgotten, LeftIsFinished
    <2> QED
      BY <2>4, <2>5 DEF WalkInv
  <1> QED
    BY <1>1, RefuseKeeps, SkipKeeps, VisitKeeps, GoOnKeeps, LeaveKeeps DEF Next

\* A walk that is done has left all that it reached.
LEMMA DoneIsExact ==
    ASSUME WalkInv
    PROVE  WalkIsExact
  <1> SUFFICES ASSUME Done
               PROVE  LET trace == Trace(graph, start)
                      IN  /\ limit >= Cardinality(DOMAIN graph.onward) =>
                               /\ owners = trace.owners
                               /\ faults \subseteq trace.faults
                               /\ faults = {} <=> trace.faults = {}
                               /\ topology = trace.topology
                          /\ owners \subseteq trace.owners
                          /\ topology => trace.topology /\ owners = trace.owners
    BY DEF WalkIsExact
  <1> DEFINE trace == Trace(graph, start)
  <1>1. /\ current = NoKey /\ stack = <<>> /\ start \in keys /\ NoKey \notin keys
        /\ \A S \in SUBSET keys :
              start \in S /\ (\A m \in S : graph.onward[m] \subseteq S) => reached \subseteq S
        /\ visited \subseteq keys /\ topology \in BOOLEAN
    BY WalkFacts DEF Done, WalkInv, WalkTypeOK
  <1>2. start \in visited /\ seen = visited
    BY <1>1 DEF WalkInv, StartIsKnown, seen, active
  <1>3. /\ visited \subseteq reached
        /\ owners = visited \cap graph.physical
        /\ visited \cap (graph.tainted \cup Rootless(graph) \cup graph.unusable) \subseteq faults
        /\ topology => visited \cap (graph.tainted \cup Rootless(graph)) = {}
        /\ ~topology => faults # {}
    BY <1>2 DEF WalkInv, LooksAreKept
  <1>4. /\ trace.owners = reached \cap graph.physical
        /\ trace.faults = reached \cap (Broken(graph) \cup graph.unusable)
    BY DEF Trace, reached
  <1>5. trace.topology = (reached \cap Broken(graph) = {})
    BY DEF Trace, reached
  <1> HIDE DEF trace
  <1>6. owners \subseteq trace.owners
    BY <1>3, <1>4
  <1>7. ASSUME topology
        PROVE  trace.topology /\ owners = trace.owners /\ reached = visited
    <2>1. /\ \A v \in visited : graph.onward[v] \subseteq visited
          /\ visited \cap Circling(graph.onward) = {}
      BY <1>7 DEF WalkInv, LeftIsFinished
    <2>2. reached = visited
      BY <1>1, <1>2, <1>3, <2>1
    <2>3. reached \cap Broken(graph) = {}
      BY <1>3, <1>7, <2>1, <2>2 DEF Broken
    <2> QED
      BY <1>3, <1>4, <1>5, <2>2, <2>3
  <1>8. ASSUME limit >= Cardinality(DOMAIN graph.onward)
        PROVE  /\ owners = trace.owners
               /\ faults \subseteq trace.faults
               /\ faults = {} <=> trace.faults = {}
               /\ topology = trace.topology
    <2>1. /\ \A v \in visited : graph.onward[v] \subseteq visited
          /\ faults \subseteq reached \cap (Broken(graph) \cup graph.unusable)
          /\ ~topology => reached \cap Broken(graph) # {}
      BY <1>2, <1>8 DEF WalkInv, NothingIsForgotten, Unlimited, keys
    <2>2. reached = visited
      BY <1>1, <1>2, <1>3, <2>1
    <2>3. owners = trace.owners /\ faults \subseteq trace.faults
      BY <1>3, <1>4, <2>1, <2>2
    <2>4. topology <=> trace.topology
      BY <1>5, <1>7, <2>1
    <2>5. ASSUME faults = {}
          PROVE  trace.faults = {}
      <3>1. trace.topology
        BY <1>3, <1>7, <2>5
      <3>2. reached \cap Broken(graph) = {} /\ reached \cap graph.unusable = {}
        BY <1>3, <1>5, <2>2, <2>5, <3>1
      <3> QED
        BY <1>4, <3>2
    <2>6. topology = trace.topology
      <3>1. trace.topology \in BOOLEAN
        BY <1>5
      <3> QED
        BY <1>1, <2>4, <3>1
    <2> QED
      BY <2>3, <2>5, <2>6
  <1> QED
    BY <1>6, <1>7, <1>8 DEF trace

\* In every finite graph, in every order and under every limit, a walk that is done
\* has found what the trace is, or knows that it has not
\* (core/ownership_graph.cpp:222-277).
THEOREM WalkIsAlwaysExact == WalkSpec => []WalkIsExact
  <1>1. Init => WalkInv
    BY WalkInitially
  <1>2. WalkInv /\ [Next]_walkVars => WalkInv'
    BY WalkAlways
  <1>3. WalkInv => WalkIsExact
    BY DoneIsExact
  <1> QED
    BY <1>1, <1>2, <1>3, PTL DEF WalkSpec
=============================================================================

---------------------------- MODULE PositionProofs ----------------------------
(***************************************************************************)
(* Proofs about the account's positions: how IntentProcessing brings them  *)
(* to a target, and how Reconciliation watches them, for any contracts and *)
(* targets and for any drift keys, amounts, tolerance and threshold.       *)
(***************************************************************************)
EXTENDS IntentProcessing, Reconciliation, FiniteSetTheorems, TLAPS

(***************************************************************************)
(* Intents.  Plans are made once, from what is held at the start, and      *)
(* carried out one by one, so the target is a fact about the end of a      *)
(* loop.  The invariant is the loop's: the plans still to be processed are *)
(* exactly what is missing, for as long as every answer was a fill under a *)
(* number of its own.                                                      *)
(***************************************************************************)

\* A set's elements can be listed, each of them once.
LEMMA SetListed ==
    ASSUME NEW S, IsFiniteSet(S)
    PROVE  /\ SetToSeq(S) \in Seq(S)
           /\ \A x \in S : \E i \in DOMAIN SetToSeq(S) : SetToSeq(S)[i] = x
           /\ \A i, j \in DOMAIN SetToSeq(S) : SetToSeq(S)[i] = SetToSeq(S)[j] => i = j
<1> DEFINE n == Cardinality(S)
<1>1. n \in Nat /\ ExistsBijection(1..n, S)
  BY FS_CardinalityType
<1>2. PICK g \in [1..n -> S] : IsInjective(g)
  BY <1>1 DEF ExistsBijection, Bijection, Injection, IsInjective
<1>3. SetToSeq(S) \in [1..n -> S] /\ IsInjective(SetToSeq(S))
  BY <1>2 DEF SetToSeq
<1>4. SetToSeq(S) \in Seq(S) /\ DOMAIN SetToSeq(S) = 1..n
  BY <1>1, <1>3
<1>5. \A i, j \in 1..n : SetToSeq(S)[i] = SetToSeq(S)[j] => i = j
  BY <1>3 DEF IsInjective
<1>6. SetToSeq(S) \in Injection(1..n, S)
  BY <1>3, <1>5 DEF Injection, IsInjective
<1>7. IsFiniteSet(1..n) /\ Cardinality(1..n) = n
  <2>1. 1 \in Int /\ n \in Int
    BY <1>1
  <2>2. Cardinality(1..n) = (IF 1 > n THEN 0 ELSE n - 1 + 1) /\ IsFiniteSet(1..n)
    BY <2>1, FS_Interval, Zenon
  <2> QED BY <1>1, <2>2
<1>8. SetToSeq(S) \in Surjection(1..n, S)
  BY <1>6, <1>7, FS_Injection
<1> QED BY <1>4, <1>5, <1>8 DEF Surjection

\* What the account shall hold when the last intent has been carried out.
Goal(c) == IF c = target.instrument THEN target.quantity ELSE 0

Noted(t) == \E c \in Contracts, q \in Int, b \in BOOLEAN :
               t = [instrument |-> c, quantity |-> q, clean |-> b]

Shapes ==
    /\ front \in Contracts /\ intents \in Nat /\ orderCount \in Nat
    /\ position \in [Contracts -> Int]
    /\ plans \in Seq([instrument : Contracts, delta : Int, number : Int])
    /\ processed \in Seq(Int)
    /\ Noted(target)

\* Report and fill ids are remembered for numbers that were sent, and for no others.
Remembered == reported \subseteq used /\ booked \subseteq used

\* What is still to be planned for is exactly what is missing: each contract has one
\* plan at most, its plan leads from the holding to the goal, and a contract without
\* a plan is at its goal.
Missing ==
    /\ \A i, j \in DOMAIN plans : plans[i].instrument = plans[j].instrument => i = j
    /\ \A i \in DOMAIN plans :
          position[plans[i].instrument] + plans[i].delta = Goal(plans[i].instrument)
    /\ \A c \in Contracts :
          (\A i \in DOMAIN plans : plans[i].instrument # c) => position[c] = Goal(c)

OnCourse ==
    /\ ~busy => plans = <<>>
    /\ intents > 0 /\ target.clean => Missing

IntentInv == Shapes /\ Remembered /\ OnCourse

\* The elements of a concatenation.
LEMMA Concatenated ==
    ASSUME NEW S, NEW s \in Seq(S), NEW t \in Seq(S)
    PROVE  /\ s \o t \in Seq(S) /\ Len(s \o t) = Len(s) + Len(t)
           /\ \A i \in 1..Len(s) : (s \o t)[i] = s[i]
           /\ \A i \in 1..Len(t) : (s \o t)[Len(s) + i] = t[i]
OBVIOUS

\* The plans of an intent lead from what is held to its goal, each contract once.
LEMMA PlansLead ==
    ASSUME Shapes, NEW q \in Int
    PROVE  LET D == Deltas(q)
               Aim(c) == IF c = front THEN q ELSE 0
           IN /\ D \in Seq([instrument : Contracts, delta : Int])
              /\ \A i, j \in DOMAIN D : D[i].instrument = D[j].instrument => i = j
              /\ \A i \in DOMAIN D : position[D[i].instrument] + D[i].delta = Aim(D[i].instrument)
              /\ \A c \in Contracts :
                    (\A i \in DOMAIN D : D[i].instrument # c) => position[c] = Aim(c)
<1> DEFINE leave == {c \in Contracts \ {front} : position[c] # 0}
           list == SetToSeq(leave)
           D == Deltas(q)
           n == Len(list)
           Aim(c) == IF c = front THEN q ELSE 0
<1>0. IsFiniteSet(leave)
  <2>1. leave \in SUBSET Contracts
    OBVIOUS
  <2>2. IsFiniteSet(Contracts)
    BY IntentAssumption
  <2> QED BY <2>1, <2>2, FS_Subset
<1>1. /\ list \in Seq(leave)
      /\ \A x \in leave : \E i \in DOMAIN list : list[i] = x
      /\ \A i, j \in DOMAIN list : list[i] = list[j] => i = j
  <2> HIDE DEF leave
  <2> QED BY <1>0, SetListed
<1>2. n \in Nat /\ DOMAIN list = 1..n
  BY <1>1
<1>3. \A i \in 1..n : list[i] \in Contracts /\ list[i] # front
  BY <1>1, <1>2
<1> DEFINE close == [i \in 1..n |-> [instrument |-> list[i], delta |-> -position[list[i]]]]
           trade == IF q = position[front] THEN <<>>
                    ELSE <<[instrument |-> front, delta |-> q - position[front]]>>
           Legs == [instrument : Contracts, delta : Int]
<1>4. D = close \o trade
  BY DEF Deltas
<1>5. position \in [Contracts -> Int] /\ front \in Contracts
  BY DEF Shapes
<1>6. close \in Seq(Legs) /\ Len(close) = n
  <2>1. \A i \in 1..n : [instrument |-> list[i], delta |-> -position[list[i]]] \in Legs
    BY <1>3, <1>5
  <2> HIDE DEF list, n
  <2>2. close \in [1..n -> Legs]
    BY <2>1
  <2>3. n \in Nat
    BY <1>2
  <2> QED BY <2>2, <2>3
<1>7. trade \in Seq(Legs) /\ (Len(trade) = 0 \/ Len(trade) = 1)
  <2>1. CASE q = position[front]
    BY <2>1
  <2>2. CASE q # position[front]
    <3>1. [instrument |-> front, delta |-> q - position[front]] \in Legs
      BY <1>5
    <3> QED BY <2>2, <3>1
  <2> QED BY <2>1, <2>2
<1>8. Len(trade) = 0 => position[front] = q
  BY <1>7
<1>9. Len(trade) = 1 => trade[1].instrument = front /\ trade[1].delta = q - position[front]
  BY <1>7
<1>10. \A i \in 1..n : close[i].instrument = list[i] /\ close[i].delta = -position[list[i]]
  <2> HIDE DEF list, n
  <2> QED OBVIOUS
<1> HIDE DEF close, trade
<1>11. D \in Seq(Legs) /\ Len(D) = n + Len(trade)
  <2> HIDE DEF D, Legs, n
  <2> QED BY <1>4, <1>6, <1>7, Concatenated
<1>c. /\ \A i \in 1..n : D[i] = close[i]
      /\ \A i \in 1..Len(trade) : D[n + i] = trade[i]
  <2> HIDE DEF D, Legs, n
  <2> QED BY <1>4, <1>6, <1>7, Concatenated
<1> HIDE DEF D, leave, list, n
<1>12. \A i \in 1..n : D[i].instrument = list[i] /\ D[i].delta = -position[list[i]]
  BY <1>10, <1>c
<1>13. Len(trade) = 1 => D[n + 1].instrument = front /\ D[n + 1].delta = q - position[front]
  <2>1. ASSUME Len(trade) = 1 PROVE D[n + 1] = trade[1]
    BY <1>c, <2>1
  <2> QED BY <1>9, <2>1
<1>14. DOMAIN D = 1..(n + Len(trade))
  BY <1>11
<1>15. \A i \in DOMAIN D : i \in 1..n \/ (i = n + 1 /\ Len(trade) = 1)
  <2>1. CASE Len(trade) = 0
    BY <1>2, <1>14, <2>1
  <2>2. CASE Len(trade) = 1
    BY <1>2, <1>14, <2>2
  <2> QED BY <1>7, <2>1, <2>2
<1>16. \A i, j \in DOMAIN D : D[i].instrument = D[j].instrument => i = j
  BY <1>1, <1>2, <1>3, <1>12, <1>13, <1>15
<1>17. \A i \in DOMAIN D : position[D[i].instrument] + D[i].delta = Aim(D[i].instrument)
  <2> SUFFICES ASSUME NEW i \in DOMAIN D
               PROVE  position[D[i].instrument] + D[i].delta = Aim(D[i].instrument)
    OBVIOUS
  <2>1. CASE i \in 1..n
    BY <1>3, <1>5, <1>12, <2>1
  <2>2. CASE i = n + 1 /\ Len(trade) = 1
    BY <1>5, <1>13, <2>2
  <2> QED BY <1>15, <2>1, <2>2
<1>18. ASSUME NEW c \in Contracts, \A i \in DOMAIN D : D[i].instrument # c
       PROVE  position[c] = Aim(c)
  <2>1. CASE c = front
    <3>1. Len(trade) # 1
      <4>1. Len(trade) = 1 => n + 1 \in DOMAIN D
        BY <1>2, <1>14
      <4> QED BY <1>13, <1>18, <2>1, <4>1
    <3> QED BY <1>7, <1>8, <2>1, <3>1
  <2>2. CASE c # front
    <3>1. c \notin leave
      <4> SUFFICES ASSUME c \in leave PROVE FALSE
        OBVIOUS
      <4>1. PICK i \in 1..n : list[i] = c
        BY <1>1, <1>2
      <4>2. i \in DOMAIN D
        BY <1>2, <1>7, <1>14
      <4> QED BY <1>12, <1>18, <4>1, <4>2
    <3> QED BY <2>2, <3>1 DEF leave
  <2> QED BY <2>1, <2>2
<1> QED BY <1>11, <1>16, <1>17, <1>18 DEF D

-----------------------------------------------------------------------------

\* Nothing is held and nothing planned.
LEMMA IntentInitial == IntentInit => IntentInv
<1> SUFFICES ASSUME IntentInit PROVE IntentInv
  OBVIOUS
<1>1. Shapes
  <2>1. position \in [Contracts -> Int] /\ plans = <<>> /\ processed = <<>>
    BY DEF IntentInit, Flat
  <2>2. target = [instrument |-> front, quantity |-> 0, clean |-> TRUE] /\ front \in Contracts
    BY DEF IntentInit
  <2>3. Noted(target)
    <3>1. 0 \in Int /\ TRUE \in BOOLEAN
      OBVIOUS
    <3> QED BY <2>2, <3>1, Zenon DEF Noted
  <2> QED BY <2>1, <2>2, <2>3 DEF Shapes, IntentInit
<1>2. Remembered /\ OnCourse
  BY DEF IntentInit, Remembered, OnCourse
<1> QED BY <1>1, <1>2 DEF IntentInv

\* An intent starts with plans for what is missing.
LEMMA StartKeeps ==
    ASSUME IntentInv, NEW q \in Quantities, StartIntent(q)
    PROVE  IntentInv'
<1> DEFINE D == Deltas(q)
           Aim(c) == IF c = front THEN q ELSE 0
           Legs == [instrument : Contracts, delta : Int]
<1>0. q \in Int /\ Shapes
  BY IntentAssumption DEF IntentInv
<1>1. /\ D \in Seq(Legs)
      /\ \A i, j \in DOMAIN D : D[i].instrument = D[j].instrument => i = j
      /\ \A i \in DOMAIN D : position[D[i].instrument] + D[i].delta = Aim(D[i].instrument)
      /\ \A c \in Contracts :
            (\A i \in DOMAIN D : D[i].instrument # c) => position[c] = Aim(c)
  BY <1>0, PlansLead
<1>2. /\ plans' = [i \in 1..Len(D) |-> [instrument |-> D[i].instrument, delta |-> D[i].delta,
                                        number |-> OrderNumber + i - 1]]
      /\ target' = [instrument |-> front, quantity |-> q, clean |-> TRUE]
      /\ intents' = intents + 1 /\ processed' = <<>> /\ busy'
      /\ UNCHANGED <<front, orderCount, position, reported, booked, used>>
  BY DEF StartIntent, BuildPlans, actorVars, history
<1>3. OrderNumber \in Int
  BY <1>0 DEF Shapes, OrderNumber
<1> HIDE DEF D
<1>4. /\ plans' \in Seq([instrument : Contracts, delta : Int, number : Int])
      /\ DOMAIN plans' = DOMAIN D
      /\ \A i \in DOMAIN D : /\ plans'[i].instrument = D[i].instrument
                             /\ plans'[i].delta = D[i].delta
  <2>1. Len(D) \in Nat /\ DOMAIN D = 1..Len(D) /\ \A i \in 1..Len(D) : D[i] \in Legs
    <3> HIDE DEF Legs
    <3> QED BY <1>1
  <2>2. \A i \in 1..Len(D) : D[i].instrument \in Contracts /\ D[i].delta \in Int
    BY <2>1
  <2> QED BY <1>2, <1>3, <2>1, <2>2
<1>5. Shapes'
  <2>1. Noted(target')
    BY <1>0, <1>2 DEF Noted, Shapes
  <2>2. intents' \in Nat /\ processed' \in Seq(Int)
    BY <1>0, <1>2 DEF Shapes
  <2> QED BY <1>0, <1>2, <1>4, <2>1, <2>2 DEF Shapes
<1>6. \A c : Goal(c)' = Aim(c)
  BY <1>2 DEF Goal
<1>7. Missing'
  BY <1>1, <1>2, <1>4, <1>6 DEF Missing
<1>8. Remembered' /\ OnCourse'
  BY <1>2, <1>7 DEF IntentInv, Remembered, OnCourse
<1> QED BY <1>5, <1>8 DEF IntentInv

\* A plan that is rejected leaves the intent's goal out of reach.
LEMMA RejectKeeps ==
    ASSUME IntentInv, RejectPlan
    PROVE  IntentInv'
<1>1. PICK c \in Contracts, q \in Int, b \in BOOLEAN :
        target = [instrument |-> c, quantity |-> q, clean |-> b]
  BY DEF IntentInv, Shapes, Noted
<1>2. target' = [instrument |-> c, quantity |-> q, clean |-> FALSE]
  BY <1>1 DEF RejectPlan
<1>3. plans' = Tail(plans) /\ plans # <<>> /\ busy /\ busy'
  BY DEF RejectPlan, IntentInv, OnCourse
<1>4. Shapes'
  <2>1. Noted(target')
    BY <1>2 DEF Noted
  <2> DEFINE Plans == [instrument : Contracts, delta : Int, number : Int]
  <2>2. plans' \in Seq(Plans)
    <3>1. plans \in Seq(Plans)
      BY DEF IntentInv, Shapes
    <3> HIDE DEF Plans
    <3> QED BY <1>3, <3>1
  <2> QED BY <2>1, <2>2 DEF RejectPlan, IntentInv, Shapes, actorVars
<1>5. OnCourse'
  BY <1>2, <1>3 DEF OnCourse
<1>6. Remembered'
  BY DEF RejectPlan, IntentInv, Remembered, actorVars, history
<1> QED BY <1>4, <1>5, <1>6 DEF IntentInv

\* A plan that is filled under a number of its own brings its contract to the goal; any
\* other answer leaves the goal out of reach.
LEMMA SubmitKeeps ==
    ASSUME IntentInv, NEW status \in ReportStatus, SubmitPlan(status)
    PROVE  IntentInv'
<1> DEFINE plan == Head(plans)
           n == plan.number
           filled == status = "FILLED"
           Plans == [instrument : Contracts, delta : Int, number : Int]
<1>1. PICK c \in Contracts, q \in Int, b \in BOOLEAN :
        target = [instrument |-> c, quantity |-> q, clean |-> b]
  BY DEF IntentInv, Shapes, Noted
<1>2. PICK d \in BOOLEAN :
        /\ target' = [instrument |-> c, quantity |-> q, clean |-> d]
        /\ d => b /\ filled /\ n \notin used
  <2> DEFINE d == b /\ filled /\ n \notin used
  <2>1. target' = [target EXCEPT !.clean = @ /\ filled /\ n \notin used]
    BY DEF SubmitPlan
  <2>2. target' = [instrument |-> c, quantity |-> q, clean |-> d]
    BY <1>1, <2>1
  <2>3. d \in BOOLEAN
    OBVIOUS
  <2> QED BY <2>2, <2>3
<1>3. /\ plans \in Seq(Plans) /\ plans # <<>> /\ processed \in Seq(Int)
      /\ position \in [Contracts -> Int]
      /\ reported \subseteq used /\ booked \subseteq used
  BY DEF SubmitPlan, IntentInv, Shapes, Remembered
<1>4. plan \in Plans /\ plan = plans[1] /\ 1 \in DOMAIN plans /\ n \in Int
  <2>1. plan \in Plans /\ plan = plans[1] /\ 1 \in DOMAIN plans
    <3> HIDE DEF Plans
    <3> QED BY <1>3
  <2> QED BY <2>1
<1>5. /\ plans' = Tail(plans) /\ processed' = Append(processed, n)
      /\ reported' = reported \cup {n} /\ used' = used \cup {n}
      /\ booked' \in {booked, booked \cup {n}}
      /\ UNCHANGED <<intents, orderCount, front, busy>>
  BY DEF SubmitPlan
<1>6. position' = Book(plan) \/ position' = position
  BY DEF SubmitPlan
<1>7. filled /\ n \notin used => position' = Book(plan)
  BY <1>3 DEF SubmitPlan
<1>8. Book(plan) \in [Contracts -> Int]
  BY <1>3, <1>4 DEF Book
<1>9. Shapes'
  <2>1. plans' \in Seq(Plans) /\ processed' \in Seq(Int)
    <3> HIDE DEF Plans
    <3> QED BY <1>3, <1>4, <1>5
  <2>2. position' \in [Contracts -> Int]
    BY <1>3, <1>6, <1>8
  <2>3. Noted(target')
    BY <1>2 DEF Noted
  <2> QED BY <1>5, <2>1, <2>2, <2>3 DEF IntentInv, Shapes
<1>10. Remembered'
  BY <1>3, <1>5 DEF Remembered
<1>11. busy
  BY <1>3 DEF IntentInv, OnCourse
<1>12. ASSUME intents > 0, d PROVE Missing'
  <2>1. Missing /\ position' = Book(plan)
    BY <1>1, <1>2, <1>7, <1>12 DEF IntentInv, OnCourse
  <2>2. \A x : Goal(x)' = Goal(x)
    BY <1>1, <1>2 DEF Goal
  <2>3. /\ DOMAIN plans = 1..Len(plans) /\ Len(plans) \in Nat \ {0}
        /\ DOMAIN plans' = 1..(Len(plans) - 1)
        /\ \A i \in DOMAIN plans' : plans'[i] = plans[i + 1] /\ i + 1 \in DOMAIN plans /\ i + 1 # 1
    <3> HIDE DEF Plans
    <3> QED BY <1>3, <1>5
  <2>4. \A i \in DOMAIN plans : plans[i] \in Plans
    <3> HIDE DEF Plans
    <3> QED BY <1>3
  <2>5. \A x \in Contracts : position'[x] = IF x = plan.instrument THEN position[x] + plan.delta
                                             ELSE position[x]
    BY <1>3, <1>4, <2>1 DEF Book
  <2>6. \A i, j \in DOMAIN plans' : plans'[i].instrument = plans'[j].instrument => i = j
    <3> SUFFICES ASSUME NEW i \in DOMAIN plans', NEW j \in DOMAIN plans',
                        plans'[i].instrument = plans'[j].instrument
                 PROVE  i = j
      OBVIOUS
    <3>1. i + 1 = j + 1
      BY <2>1, <2>3 DEF Missing
    <3> QED BY <2>3, <3>1
  <2>7. \A i \in DOMAIN plans' :
           position'[plans'[i].instrument] + plans'[i].delta = Goal(plans'[i].instrument)
    <3> SUFFICES ASSUME NEW i \in DOMAIN plans'
                 PROVE  position'[plans'[i].instrument] + plans'[i].delta
                           = Goal(plans'[i].instrument)
      OBVIOUS
    <3> DEFINE p == plans[i + 1]
    <3>1. p = plans'[i] /\ p.instrument # plan.instrument /\ p.instrument \in Contracts
      BY <1>4, <2>1, <2>3, <2>4 DEF Missing
    <3>2. position[p.instrument] + p.delta = Goal(p.instrument)
      BY <2>1, <2>3 DEF Missing
    <3> QED BY <2>5, <3>1, <3>2
  <2>8. ASSUME NEW x \in Contracts, \A i \in DOMAIN plans' : plans'[i].instrument # x
        PROVE  position'[x] = Goal(x)
    <3>1. CASE x = plan.instrument
      <4>1. position[x] + plan.delta = Goal(x)
        BY <1>4, <2>1, <3>1 DEF Missing
      <4> QED BY <2>5, <3>1, <4>1
    <3>2. CASE x # plan.instrument
      <4>1. \A i \in DOMAIN plans : plans[i].instrument # x
        <5> SUFFICES ASSUME NEW i \in DOMAIN plans, i # 1 PROVE plans[i].instrument # x
          BY <1>4, <3>2
        <5>1. i - 1 \in DOMAIN plans' /\ plans'[i - 1] = plans[i]
          BY <2>3
        <5> QED BY <2>8, <5>1
      <4>2. position[x] = Goal(x)
        BY <2>1, <4>1 DEF Missing
      <4> QED BY <2>5, <3>2, <4>2
    <3> QED BY <3>1, <3>2
  <2> QED BY <2>2, <2>6, <2>7, <2>8 DEF Missing
<1>13. OnCourse'
  BY <1>2, <1>5, <1>11, <1>12 DEF OnCourse
<1> QED BY <1>9, <1>10, <1>13 DEF IntentInv

\* What is left to be done, and what the account holds, is the same after the step.
LEMMA OthersKeep ==
    ASSUME IntentInv, FinishIntent \/ (\E c \in Contracts : Roll(c)) \/ UNCHANGED intentVars
    PROVE  IntentInv'
<1>1. /\ UNCHANGED <<position, plans, target, booked, used, intents>>
      /\ processed' \in Seq(Int) /\ front' \in Contracts
      /\ orderCount' \in Nat
      /\ reported' \subseteq reported
      /\ busy' = busy \/ plans = <<>>
  BY DEF FinishIntent, Roll, intentVars, IntentInv, Shapes, OnCourse, actorVars, history
<1>2. Shapes'
  BY <1>1 DEF IntentInv, Shapes
<1>3. Missing => Missing'
  BY <1>1 DEF Missing, Goal
<1>4. OnCourse' /\ Remembered'
  BY <1>1, <1>3 DEF IntentInv, OnCourse, Remembered
<1> QED BY <1>2, <1>4 DEF IntentInv

\* The plans of the intent under way lead from what is held to its goal for as long as
\* all of it was filled under new numbers.
THEOREM IntentInvariant == IntentSpec => []IntentInv
<1>1. IntentInit => IntentInv
  BY IntentInitial
<1>2. IntentInv /\ [IntentNext]_intentVars => IntentInv'
  BY StartKeeps, RejectKeeps, SubmitKeeps, OthersKeep DEF IntentNext
<1> QED BY <1>1, <1>2, PTL DEF IntentSpec

\* Whatever rolls, rejections and open orders came before, an intent all of whose plans
\* were filled under new numbers leaves the account with its target in the contract it
\* was resolved to and with nothing in the others, for any set of contracts and any
\* targets (OrderPlanBuilder.build, process_intent).
THEOREM TargetReachedAlways == IntentSpec => []TargetReached
<1>1. IntentInv => TargetReached
  <2> SUFFICES ASSUME IntentInv, ~busy, target.clean, intents > 0
               PROVE  position = [c \in Contracts |-> IF c = target.instrument
                                                      THEN target.quantity ELSE 0]
    BY DEF TargetReached
  <2>1. Missing /\ plans = <<>> /\ position \in [Contracts -> Int]
    BY DEF IntentInv, OnCourse, Shapes
  <2>2. \A c \in Contracts : position[c] = Goal(c)
    BY <2>1 DEF Missing
  <2> QED BY <2>1, <2>2 DEF Goal
<1> QED BY <1>1, IntentInvariant, PTL

\* As long as no number is sent twice the account holds what was executed: a number that
\* was not sent has neither a report nor a fill that could be taken for a repetition
\* (process_report, _apply_fill).
THEOREM DivergesOnlyByReuseAlways == IntentSpec => []DivergesOnlyByReuse
<1>1. IntentInit => DivergesOnlyByReuse
  BY DEF IntentInit, DivergesOnlyByReuse
<1>2. IntentInv /\ DivergesOnlyByReuse /\ [IntentNext]_intentVars => DivergesOnlyByReuse'
  <2> SUFFICES ASSUME IntentInv, DivergesOnlyByReuse, [IntentNext]_intentVars
               PROVE  DivergesOnlyByReuse'
    OBVIOUS
  <2>1. ASSUME NEW status \in ReportStatus, SubmitPlan(status) PROVE DivergesOnlyByReuse'
    <3> DEFINE n == Head(plans).number
    <3>1. CASE n \in used
      BY <2>1, <3>1 DEF SubmitPlan, DivergesOnlyByReuse
    <3>2. CASE n \notin used
      <4>1. n \notin reported /\ n \notin booked
        BY <3>2 DEF IntentInv, Remembered
      <4> QED BY <2>1, <3>2, <4>1 DEF SubmitPlan, DivergesOnlyByReuse, Book
    <3> QED BY <3>1, <3>2
  <2>2. CASE \/ \E c \in Contracts : Roll(c)
             \/ \E q \in Quantities : StartIntent(q)
             \/ RejectPlan \/ FinishIntent \/ UNCHANGED intentVars
    <3>1. UNCHANGED <<position, executed, reused>>
      BY <2>2 DEF Roll, StartIntent, RejectPlan, FinishIntent, intentVars, actorVars, history
    <3> QED BY <3>1 DEF DivergesOnlyByReuse
  <2> QED BY <2>1, <2>2 DEF IntentNext
<1> QED BY <1>1, <1>2, IntentInvariant, PTL DEF IntentSpec

-----------------------------------------------------------------------------
(***************************************************************************)
(* Reconciliation.  The properties speak of what the reports have said of  *)
(* each key; the switch keeps one key and one count.  The invariant ties   *)
(* them together: until it trips, the count is exactly how long its key    *)
(* has been leading, no other key has been leading at all, and its key has *)
(* been divergent for at least as long.                                    *)
(***************************************************************************)

StreakIsLead ==
    ~tripped =>
        /\ streakCount < Threshold
        /\ trippedKey = None
        /\ \A k \in Keys : lead[k] = IF k = streakKey THEN streakCount ELSE 0

StreakIsRun ==
    ~tripped /\ streakKey # None => streakCount <= run[streakKey]

TripNotified ==
    /\ tripped => notified /\ (killSwitch \/ lifted)
    /\ notified => tripped

SwitchInv == ReconTypeOK /\ StreakIsLead /\ StreakIsRun /\ TripNotified

-----------------------------------------------------------------------------
\* The focus of a report is a divergent key, and the only one that no divergent
\* key precedes.
LEMMA FocusIsLeast ==
    ASSUME DivergentKeys # {}
    PROVE  /\ First(DivergentKeys) \in DivergentKeys
           /\ First(DivergentKeys) \in Keys
           /\ \A k \in DivergentKeys :
                (\A j \in DivergentKeys : k <= j) <=> k = First(DivergentKeys)
<1>1. DivergentKeys \in SUBSET Keys
  BY DEF DivergentKeys, Items
<1>2. \E k \in DivergentKeys : \A j \in DivergentKeys : k <= j
  BY <1>1, KeyOrder
<1>3. /\ First(DivergentKeys) \in DivergentKeys
      /\ \A j \in DivergentKeys : First(DivergentKeys) <= j
  BY <1>2 DEF First
<1>4. \A k \in DivergentKeys : k \in Int
  BY <1>1, ReconciliationAssumption
<1> QED BY <1>1, <1>3, <1>4

\* Initially the switch has seen nothing.
LEMMA SwitchInitial == ReconInit => SwitchInv
<1> SUFFICES ASSUME ReconInit PROVE SwitchInv
  OBVIOUS
<1> USE ReconciliationAssumption DEF ReconInit
<1>1. ReconTypeOK
  <2>1. internal \in [Keys -> Amounts \cup {None}] /\ broker \in [Keys -> Amounts \cup {None}]
    OBVIOUS
  <2>2. run \in [Keys -> 0..Threshold] /\ lead \in [Keys -> 0..Threshold]
    OBVIOUS
  <2>3. /\ streakKey \in Keys \cup {None} /\ streakCount \in 0..Threshold
        /\ trippedKey \in Keys \cup {None}
    OBVIOUS
  <2> QED BY <2>1, <2>2, <2>3 DEF ReconTypeOK
<1>2. StreakIsLead
  BY DEF StreakIsLead
<1>3. StreakIsRun /\ TripNotified
  BY DEF StreakIsRun, TripNotified
<1> QED BY <1>1, <1>2, <1>3 DEF SwitchInv

\* A report keeps the count of the switch and the counts of the keys in step.
LEMMA ObserveKeepsInv == SwitchInv /\ Observe => SwitchInv'
<1> SUFFICES ASSUME SwitchInv, Observe PROVE SwitchInv'
  OBVIOUS
<1> USE ReconciliationAssumption
<1>t. ReconTypeOK /\ StreakIsLead /\ StreakIsRun /\ TripNotified
  BY DEF SwitchInv
<1>d. DivergentKeys \subseteq Keys
  BY DEF DivergentKeys, Items
<1>c. \A n \in 0..Threshold : Capped(n) \in 0..Threshold /\ (n < Threshold => Capped(n) = n + 1)
                              /\ Capped(n) >= 1
  BY DEF Capped
<1>h. /\ run' \in [Keys -> 0..Threshold] /\ lead' \in [Keys -> 0..Threshold]
      /\ \A k \in Keys : run'[k] = IF k \in DivergentKeys THEN Capped(run[k]) ELSE 0
      /\ \A k \in Keys : lead'[k] =
            IF k \in DivergentKeys /\ \A j \in DivergentKeys : k <= j
            THEN Capped(lead[k]) ELSE 0
  BY <1>t, <1>c DEF Observe, Count, ReconTypeOK
<1>u. UNCHANGED <<internal, broker, trading, lifted>>
  BY DEF Observe, books
<1>n. /\ notified' = (notified \/ tripped')
      /\ killSwitch' = (killSwitch \/ (tripped' /\ ~notified))
  BY DEF Observe, Notify
<1>1. CASE tripped
  <2>1. UNCHANGED <<streakKey, streakCount, tripped, trippedKey>>
    BY <1>1 DEF Observe, ObserveSwitch, switchVars
  <2>2. ReconTypeOK'
    BY <1>t, <1>h, <1>u, <1>n, <2>1 DEF ReconTypeOK
  <2>3. (StreakIsLead /\ StreakIsRun)'
    BY <1>1, <2>1 DEF StreakIsLead, StreakIsRun
  <2>4. TripNotified'
    BY <1>t, <1>1, <1>n, <1>u, <2>1 DEF TripNotified, ReconTypeOK
  <2> QED BY <2>2, <2>3, <2>4 DEF SwitchInv
<1>2. CASE ~tripped /\ DivergentKeys = {}
  <2>1. streakKey' = None /\ streakCount' = 0 /\ tripped' = tripped /\ trippedKey' = trippedKey
    BY <1>2 DEF Observe, ObserveSwitch
  <2>2. ReconTypeOK'
    BY <1>t, <1>h, <1>u, <1>n, <2>1 DEF ReconTypeOK
  <2>3. \A k \in Keys : lead'[k] = 0
    BY <1>h, <1>2
  <2>4. StreakIsLead'
    BY <1>t, <1>2, <2>1, <2>3 DEF StreakIsLead
  <2>5. StreakIsRun' /\ TripNotified'
    BY <1>t, <1>2, <1>n, <1>u, <2>1 DEF StreakIsRun, TripNotified, ReconTypeOK
  <2> QED BY <2>2, <2>4, <2>5 DEF SwitchInv
<1>3. CASE ~tripped /\ DivergentKeys # {}
  <2> DEFINE f == First(DivergentKeys)
  <2>f. /\ f \in DivergentKeys /\ f \in Keys /\ f # None
        /\ \A k \in DivergentKeys : (\A j \in DivergentKeys : k <= j) <=> k = f
    BY <1>3, FocusIsLeast
  <2> HIDE DEF f
  <2>1. /\ streakKey' = f
        /\ streakCount' = Streak(f)
        /\ tripped' = (Streak(f) >= Threshold)
        /\ trippedKey' = IF Streak(f) >= Threshold THEN f ELSE None
    BY <1>3 DEF Observe, ObserveSwitch, f
  <2>2. /\ Streak(f) \in 1..Threshold
        /\ Streak(f) = IF streakKey = f THEN streakCount + 1 ELSE 1
    BY <1>t, <1>3 DEF Streak, StreakIsLead, ReconTypeOK
  <2>3. ReconTypeOK'
    BY <1>t, <1>h, <1>u, <1>n, <2>f, <2>1, <2>2 DEF ReconTypeOK
  <2>4. \A k \in Keys : lead'[k] = IF k = f THEN Capped(lead[f]) ELSE 0
    BY <1>h, <2>f
  <2>5. ASSUME Streak(f) < Threshold
        PROVE  Capped(lead[f]) = Streak(f)
    <3>1. lead[f] = IF f = streakKey THEN streakCount ELSE 0
      BY <1>t, <1>3, <2>f DEF StreakIsLead
    <3>2. lead[f] \in 0..Threshold /\ lead[f] < Threshold
      BY <1>t, <1>3, <2>f, <3>1 DEF ReconTypeOK, StreakIsLead
    <3>3. Capped(lead[f]) = lead[f] + 1
      BY <1>c, <3>2
    <3> QED BY <2>2, <3>1, <3>3
  <2>6. StreakIsLead'
    <3> SUFFICES ASSUME ~tripped' PROVE StreakIsLead'
      BY DEF StreakIsLead
    <3>1. Streak(f) < Threshold
      <4>1. ~(Streak(f) >= Threshold)
        BY <2>1
      <4> QED BY <2>2, <4>1
    <3>2. streakCount' < Threshold /\ trippedKey' = None
      BY <2>1, <2>2, <3>1
    <3>3. \A k \in Keys : lead'[k] = IF k = streakKey' THEN streakCount' ELSE 0
      BY <2>1, <2>4, <2>5, <3>1
    <3> QED BY <3>2, <3>3 DEF StreakIsLead
  <2>7. Streak(f) <= run'[f]
    <3>1. run'[f] = Capped(run[f])
      BY <1>h, <2>f
    <3>2. run[f] \in 0..Threshold
      BY <1>t, <2>f DEF ReconTypeOK
    <3>3. streakKey = f => streakCount <= run[f]
      BY <1>t, <1>3, <2>f DEF StreakIsRun
    <3> QED BY <1>t, <1>3, <2>2, <3>1, <3>2, <3>3 DEF Capped, StreakIsLead, ReconTypeOK
  <2>8. StreakIsRun'
    BY <2>1, <2>7 DEF StreakIsRun
  <2>9. TripNotified'
    BY <1>t, <1>3, <1>n, <1>u, <2>3 DEF TripNotified, ReconTypeOK
  <2> QED BY <2>3, <2>6, <2>8, <2>9 DEF SwitchInv
<1> QED BY <1>1, <1>2, <1>3

\* So does every other step.
LEMMA SwitchStep == SwitchInv /\ [ReconNext]_reconVars => SwitchInv'
<1> SUFFICES ASSUME SwitchInv, [ReconNext]_reconVars PROVE SwitchInv'
  OBVIOUS
<1> USE ReconciliationAssumption DEF SwitchInv, ReconTypeOK
<1>1. CASE Observe
  BY <1>1, ObserveKeepsInv
<1>2. CASE Startup
  <2> USE <1>2 DEF Startup, books
  <2>1. ReconTypeOK'
    <3>1. trading' \in BOOLEAN
      BY DEF HasDrift
    <3>2. /\ run' \in [Keys -> 0..Threshold] /\ lead' \in [Keys -> 0..Threshold]
          /\ streakCount' \in 0..Threshold
      OBVIOUS
    <3> QED BY <3>1, <3>2
  <2>2. StreakIsLead'
    BY DEF StreakIsLead
  <2>3. (StreakIsRun /\ TripNotified)'
    BY DEF StreakIsRun, TripNotified
  <2> QED BY <2>1, <2>2, <2>3
<1>3. CASE Deactivate
  BY <1>3 DEF Deactivate, StreakIsLead, StreakIsRun, TripNotified, books, switchVars
<1>4. ASSUME NEW k \in Keys, NEW a \in Amounts \cup {None},
             InternalChanges(k, a) \/ BrokerChanges(k, a)
      PROVE  SwitchInv'
  BY <1>4 DEF InternalChanges, BrokerChanges, StreakIsLead, StreakIsRun, TripNotified,
              switchVars, histories
<1>5. CASE UNCHANGED reconVars
  BY <1>5 DEF reconVars, StreakIsLead, StreakIsRun, TripNotified, books, switchVars, histories
<1> QED BY <1>1, <1>2, <1>3, <1>4, <1>5 DEF ReconNext

\* The switch's one count and the history of every key stay in step, for any keys,
\* any books and any threshold (PersistentDriftKillSwitch.observe).
THEOREM SwitchInvariant == ReconSpec => []SwitchInv
<1>1. ReconInit => SwitchInv
  BY SwitchInitial
<1>2. SwitchInv /\ [ReconNext]_reconVars => SwitchInv'
  BY SwitchStep
<1> QED BY <1>1, <1>2, PTL DEF ReconSpec

-----------------------------------------------------------------------------
\* The state of the switch and of its reports is well typed.
THEOREM ReconTypeCorrect == ReconSpec => []ReconTypeOK
<1>1. SwitchInv => ReconTypeOK
  BY DEF SwitchInv
<1> QED BY <1>1, SwitchInvariant, PTL

\* Drift that leads for the threshold has tripped the switch
\* (PersistentDriftKillSwitch.observe).
THEOREM LeadingDriftTripsAlways == ReconSpec => []LeadingDriftTrips
<1>1. SwitchInv => LeadingDriftTrips
  BY ReconciliationAssumption DEF SwitchInv, StreakIsLead, LeadingDriftTrips, ReconTypeOK
<1> QED BY <1>1, SwitchInvariant, PTL

\* A tripped switch has activated the runtime's kill switch
\* (PersistentDriftCoordinator.observe).
THEOREM TripActivatesAlways == ReconSpec => []TripActivates
<1>1. SwitchInv => TripActivates
  BY DEF SwitchInv, TripNotified, TripActivates
<1> QED BY <1>1, SwitchInvariant, PTL

\* The switch trips only on a key that was divergent for the threshold, up to the
\* report that trips it (PersistentDriftKillSwitch.observe).
THEOREM TripIsPersistentAlways == ReconSpec => TripIsPersistent
<1>1. SwitchInv /\ SwitchInv' /\ [ReconNext]_reconVars
        => [~tripped /\ tripped' => trippedKey' \in Keys /\ run'[trippedKey'] = Threshold]_reconVars
  <2> SUFFICES ASSUME SwitchInv, SwitchInv', [ReconNext]_reconVars, ~tripped, tripped'
               PROVE  trippedKey' \in Keys /\ run'[trippedKey'] = Threshold
    OBVIOUS
  <2>1. Observe
    BY DEF ReconNext, Startup, Deactivate, InternalChanges, BrokerChanges, reconVars, switchVars
  <2>2. DivergentKeys # {}
    BY <2>1 DEF Observe, ObserveSwitch
  <2> DEFINE f == First(DivergentKeys)
  <2>3. f \in DivergentKeys /\ f \in Keys
    BY <2>2, FocusIsLeast
  <2> HIDE DEF f
  <2>4. /\ trippedKey' = f
        /\ Streak(f) >= Threshold
    BY <2>1, <2>2 DEF Observe, ObserveSwitch, f
  <2>5. run'[f] = Capped(run[f])
    BY <2>1, <2>3 DEF Observe, Count
  <2>6. run[f] \in 0..Threshold /\ streakCount \in 0..Threshold
    BY <2>3 DEF SwitchInv, ReconTypeOK
  <2>7. streakKey = f => streakCount <= run[f]
    BY <2>3, ReconciliationAssumption DEF SwitchInv, StreakIsRun
  <2> QED BY <2>3, <2>4, <2>5, <2>6, <2>7, ReconciliationAssumption DEF Streak, Capped
<1> QED BY <1>1, SwitchStep, SwitchInvariant, PTL DEF ReconSpec, TripIsPersistent

\* A session starts to trade only on books that agree key by key
\* (startup_reconciliation_gate, compare_orders, compare_positions, compare_cash).
THEOREM TradingMeansAgreementAlways == ReconSpec => TradingMeansAgreement
<1>1. SwitchInv => [Startup /\ trading' => Agreement]_reconVars
  <2> SUFFICES ASSUME SwitchInv, Startup, trading' PROVE Agreement
    OBVIOUS
  <2>1. \A k \in Items : KindOf(k) \in {"MATCHED", "TOLERANCE_ONLY"}
    BY DEF Startup, HasDrift
  <2> SUFFICES ASSUME NEW k \in Keys
               PROVE  /\ (internal[k] = None) = (broker[k] = None)
                      /\ internal[k] # None =>
                           Within(internal[k], broker[k],
                                  IF k \in OrderKeys THEN 0 ELSE Tolerance)
    BY DEF Agreement
  <2>2. CASE internal[k] = None /\ broker[k] = None
    BY <2>2
  <2>3. CASE internal[k] = None /\ broker[k] # None
    <3>1. k \in Items /\ KindOf(k) = "EXTRA_AT_BROKER"
      BY <2>3 DEF Items, KindOf
    <3> QED BY <2>1, <3>1
  <2>4. CASE internal[k] # None /\ broker[k] = None
    <3>1. k \in Items /\ KindOf(k) = "MISSING_AT_BROKER"
      BY <2>4 DEF Items, KindOf
    <3> QED BY <2>1, <3>1
  <2>5. CASE internal[k] # None /\ broker[k] # None
    <3>1. internal[k] \in Int /\ broker[k] \in Int
      BY <2>5, ReconciliationAssumption DEF SwitchInv, ReconTypeOK
    <3>2. CASE internal[k] = broker[k]
      BY <2>5, <3>1, <3>2, ReconciliationAssumption DEF Within
    <3>3. CASE internal[k] # broker[k]
      <4>1. k \in Items /\ KindOf(k) # "MATCHED"
        BY <2>5, <3>3 DEF Items, KindOf
      <4>2. KindOf(k) = "TOLERANCE_ONLY"
        BY <2>1, <4>1
      <4>3. k \notin OrderKeys /\ Within(internal[k], broker[k], Tolerance)
        BY <2>5, <3>3, <4>2 DEF KindOf
      <4> QED BY <2>5, <4>3
    <3> QED BY <3>2, <3>3
  <2> QED BY <2>2, <2>3, <2>4, <2>5
<1> QED BY <1>1, SwitchInvariant, PTL DEF ReconSpec, TradingMeansAgreement

===============================================================================

--------------------------- MODULE SnowflakeProofs ---------------------------
(***************************************************************************)
(* Proofs about Snowflake, for any nodes, field widths and bounds.         *)
(***************************************************************************)
EXTENDS Snowflake, TLAPS

(* A quotient and a remainder in range are determined by the number; a     *)
(* larger quotient makes a larger number, whatever the remainders.         *)
LEMMA DigitOrder ==
    ASSUME NEW S \in Nat \ {0}, NEW a \in Int, NEW b \in Int,
           NEW s \in 0 .. S - 1, NEW r \in 0 .. S - 1, a < b
    PROVE  a * S + s < b * S + r
<1> DEFINE k == b - a
<1>1. k \in Nat /\ k >= 1 /\ b = a + k
  OBVIOUS
<1>2. (a + k) * S = a * S + k * S
  BY <1>1
<1>3. k * S >= S
  BY <1>1
<1>4. a * S \in Int /\ k * S \in Int
  BY <1>1
<1> HIDE DEF k
<1> QED
  BY <1>1, <1>2, <1>3, <1>4

(* The number of a node within a time, before the step is added.           *)
Row(r) == (r.time - Epoch) * NodeSpace + r.node

(* The parts of an ID have their types, and an ID is its row and its step. *)
LEMMA PartTypes ==
    ASSUME NEW p \in Part
    PROVE  /\ p.node \in 0 .. NodeSpace - 1 /\ p.node \in Nodes
           /\ p.time \in Epoch .. MaxClock
           /\ p.step \in 0 .. StepSpace - 1
           /\ p.time - Epoch \in Int
           /\ Row(p) \in Int
           /\ ID(p) = Row(p) * StepSpace + p.step
<1>1. /\ p.node \in 0 .. NodeSpace - 1 /\ p.node \in Nodes
      /\ p.time \in Epoch .. MaxClock
      /\ p.step \in 0 .. StepSpace - 1
  BY SnowflakeAssumption, IdAssumption DEF Part
<1>2. p.time - Epoch \in Int
  BY <1>1, SnowflakeAssumption, IdAssumption
<1>3. Row(p) \in Int
  BY <1>1, <1>2, SnowflakeAssumption, IdAssumption DEF Row
<1> QED
  BY <1>1, <1>2, <1>3 DEF ID, Row

(* Rows are ordered by time, and within a time by node.                    *)
LEMMA RowOrder ==
    ASSUME NEW p \in Part, NEW q \in Part, p.time < q.time
    PROVE  Row(p) < Row(q)
<1> DEFINE a == p.time - Epoch
           b == q.time - Epoch
<1>1. a \in Int /\ b \in Int /\ a < b
  BY PartTypes, SnowflakeAssumption, IdAssumption
<1>2. p.node \in 0 .. NodeSpace - 1 /\ q.node \in 0 .. NodeSpace - 1
  BY PartTypes
<1>3. a * NodeSpace + p.node < b * NodeSpace + q.node
  <2> HIDE DEF a, b
  <2> QED
    BY <1>1, <1>2, DigitOrder, SnowflakeAssumption, IdAssumption
<1> QED
  BY <1>3 DEF Row

(* A larger row makes a larger ID, whatever the steps.                     *)
LEMMA RowThenID ==
    ASSUME NEW p \in Part, NEW q \in Part, Row(p) < Row(q)
    PROVE  ID(p) < ID(q)
  BY PartTypes, DigitOrder, SnowflakeAssumption, IdAssumption

(* The parts of an ID do not overlap: equal IDs come from the same node,   *)
(* time and step.                                                          *)
LEMMA IDInjective ==
    ASSUME NEW p \in Part, NEW q \in Part, ID(p) = ID(q)
    PROVE  p.node = q.node /\ p.time = q.time /\ p.step = q.step
<1>1. ID(p) \in Int /\ ID(q) \in Int
  BY PartTypes, SnowflakeAssumption, IdAssumption
<1>2. ~(Row(p) < Row(q)) /\ ~(Row(q) < Row(p))
  BY <1>1, RowThenID
<1>3. Row(p) = Row(q)
  BY <1>2, PartTypes
<1>4. p.time = q.time
  BY <1>3, RowOrder, PartTypes
<1>5. p.node = q.node
  <2> DEFINE z == (p.time - Epoch) * NodeSpace
  <2>1. z \in Int
    BY PartTypes, SnowflakeAssumption, IdAssumption
  <2>2. Row(p) = z + p.node /\ Row(q) = z + q.node
    BY <1>4 DEF Row
  <2> HIDE DEF z
  <2> QED
    BY <2>1, <2>2, <1>3, PartTypes
<1>6. p.step = q.step
  <2> DEFINE z == Row(p) * StepSpace
  <2>1. z \in Int
    BY PartTypes, SnowflakeAssumption, IdAssumption
  <2>2. ID(p) = z + p.step /\ ID(q) = z + q.step
    BY <1>3, PartTypes
  <2>3. z + p.step = z + q.step
    BY <2>2
  <2>4. p.step \in Int /\ q.step \in Int
    BY PartTypes
  <2> HIDE DEF z
  <2> QED
    BY <2>1, <2>3, <2>4
<1> QED
  BY <1>4, <1>5, <1>6

(* On one node, what comes before in time or step has the smaller ID.      *)
LEMMA IDOrder ==
    ASSUME NEW p \in Part, NEW q \in Part, p.node = q.node,
           Before(p.time, p.step, q.time, q.step)
    PROVE  ID(p) < ID(q)
<1>1. CASE p.time < q.time
  BY <1>1, RowOrder, RowThenID
<1>2. CASE p.time = q.time /\ p.step < q.step
  <2> DEFINE z == Row(p) * StepSpace
  <2>1. z \in Int
    BY PartTypes, SnowflakeAssumption, IdAssumption
  <2>2. ID(p) = z + p.step /\ ID(q) = z + q.step
    BY <1>2, PartTypes DEF Row
  <2> HIDE DEF z
  <2> QED
    BY <2>1, <2>2, <1>2, PartTypes
<1> QED
  BY <1>1, <1>2 DEF Before

-----------------------------------------------------------------------------
(* The invariant.                                                          *)

(* A new Node satisfies the invariant.                                     *)
LEMMA InitIInv == InitNodes => NodeInv
<1> SUFFICES ASSUME InitNodes PROVE NodeInv
  OBVIOUS
<1>1. NodeTypes
  BY SnowflakeAssumption, IdAssumption DEF InitNodes, NodeTypes
<1>2. Remembered /\ Ordered
  BY DEF InitNodes, Remembered, Ordered
<1>3. SleepIsEnough /\ SpinStep
  BY DEF InitNodes, SleepIsEnough, SpinStep
<1> QED
  BY <1>1, <1>2, <1>3 DEF NodeInv

(* Issuing an ID that comes after all the earlier ones of its node.        *)
LEMMA IssuePreserves ==
    ASSUME NodeInv, NEW n \in Nodes, NEW t \in Epoch .. MaxClock,
           NEW s \in 0 .. StepSpace - 1, Issue(n, t, s),
           UNCHANGED <<clock, left, setBacks>>,
           \A i \in DOMAIN ids : ids[i].node = n =>
               Before(ids[i].time, ids[i].step, t, s)
    PROVE  NodeInv'
<1> DEFINE new == [node |-> n, time |-> t, step |-> s]
<1>1. /\ time' = [time EXCEPT ![n] = t] /\ step' = [step EXCEPT ![n] = s]
      /\ ids' = Append(ids, new) /\ at' = [at EXCEPT ![n] = "idle"]
  BY DEF Issue
<1>2. NodeTypes
  BY DEF NodeInv
<1>3. new \in Part
  BY DEF Part
<1>4. ids \in Seq(Part) /\ Len(ids) \in Nat /\ DOMAIN ids = 1 .. Len(ids)
  BY <1>2 DEF NodeTypes
<1>5. /\ ids' \in Seq(Part)
      /\ DOMAIN ids' = 1 .. Len(ids) + 1
      /\ \A i \in DOMAIN ids : ids'[i] = ids[i]
      /\ ids'[Len(ids) + 1] = new
  BY <1>1, <1>3, <1>4
<1>6. \A i \in DOMAIN ids : ids[i] \in Part
  BY <1>4
<1>7. NodeTypes'
  BY <1>1, <1>2, <1>5, SnowflakeAssumption, IdAssumption DEF NodeTypes
<1>8. Remembered'
  <2> SUFFICES ASSUME NEW i \in DOMAIN ids'
               PROVE  LET m == ids'[i].node
                      IN  /\ ids'[i].time <= time'[m]
                          /\ at'[m] # "spin" =>
                               ids'[i].time < time'[m] \/ ids'[i].step <= step'[m]
    BY DEF Remembered
  <2>1. CASE i = Len(ids) + 1
    BY <2>1, <1>1, <1>2, <1>5 DEF NodeTypes
  <2>2. CASE i \in DOMAIN ids
    <3>1. ids'[i] = ids[i] /\ ids[i] \in Part
      BY <2>2, <1>5, <1>6
    <3>2. CASE ids[i].node = n
      <4>1. Before(ids[i].time, ids[i].step, t, s)
        BY <2>2, <3>2
      <4>2. time'[n] = t /\ step'[n] = s
        BY <1>1, <1>2 DEF NodeTypes
      <4> QED
        BY <3>1, <3>2, <4>1, <4>2, PartTypes DEF Before
    <3>3. CASE ids[i].node # n
      BY <2>2, <3>1, <3>3, <1>1, <1>2, PartTypes DEF NodeInv, Remembered, NodeTypes
    <3> QED
      BY <3>2, <3>3
  <2> QED
    BY <2>1, <2>2, <1>4, <1>5
<1>9. Ordered'
  <2> SUFFICES ASSUME NEW i \in DOMAIN ids', NEW j \in DOMAIN ids',
                      i < j, ids'[i].node = ids'[j].node
               PROVE  Before(ids'[i].time, ids'[i].step, ids'[j].time, ids'[j].step)
    BY DEF Ordered
  <2>1. i \in DOMAIN ids /\ (j \in DOMAIN ids \/ j = Len(ids) + 1)
    BY <1>4, <1>5
  <2>2. CASE j \in DOMAIN ids
    BY <2>1, <2>2, <1>5 DEF NodeInv, Ordered
  <2>3. CASE j = Len(ids) + 1
    BY <2>1, <2>3, <1>5
  <2> QED
    BY <2>1, <2>2, <2>3
<1>10. SleepIsEnough' /\ SpinStep'
  BY <1>1, <1>2 DEF NodeInv, SleepIsEnough, SpinStep, NodeTypes
<1> QED
  BY <1>7, <1>8, <1>9, <1>10 DEF NodeInv

(* Generate with a time that is not behind the one remembered.             *)
LEMMA AfterClockPreserves ==
    ASSUME NodeInv, NEW n \in Nodes, NEW t \in Epoch .. MaxClock,
           time[n] <= t, at[n] # "spin", AfterClock(n, t),
           UNCHANGED <<clock, left, setBacks>>
    PROVE  NodeInv'
<1>1. NodeTypes /\ Remembered
  BY DEF NodeInv
<1>2. /\ time[n] \in 0 .. MaxClock /\ step[n] \in 0 .. StepSpace - 1
      /\ StepSpace \in Nat /\ StepSpace >= 1
  BY <1>1, SnowflakeAssumption, IdAssumption DEF NodeTypes
<1>3. \A i \in DOMAIN ids : ids[i] \in Part
  BY <1>1 DEF NodeTypes
<1>4. CASE time[n] # t
  <2>1. Issue(n, t, 0)
    BY <1>4 DEF AfterClock
  <2>2. ASSUME NEW i \in DOMAIN ids, ids[i].node = n
        PROVE  Before(ids[i].time, ids[i].step, t, 0)
    <3>1. ids[i].time <= time[n]
      BY <1>1, <2>2 DEF Remembered
    <3>2. ids[i].time \in Int
      BY <1>3, PartTypes, SnowflakeAssumption, IdAssumption
    <3>3. ids[i].time < t
      BY <1>2, <1>4, <3>1, <3>2
    <3> QED
      BY <3>3 DEF Before
  <2> QED
    BY <1>2, <2>1, <2>2, IssuePreserves
<1>5. CASE time[n] = t /\ step[n] + 1 < StepSpace
  <2>1. Issue(n, t, step[n] + 1)
    BY <1>5 DEF AfterClock
  <2>2. \A i \in DOMAIN ids :
            ids[i].node = n => Before(ids[i].time, ids[i].step, t, step[n] + 1)
    BY <1>1, <1>2, <1>3, <1>5, PartTypes, SnowflakeAssumption, IdAssumption DEF Remembered, Before
  <2>3. step[n] + 1 \in 0 .. StepSpace - 1
    BY <1>2, <1>5
  <2> QED
    BY <2>1, <2>2, <2>3, IssuePreserves
<1>6. CASE time[n] = t /\ ~(step[n] + 1 < StepSpace)
  <2>1. /\ step' = [step EXCEPT ![n] = 0] /\ at' = [at EXCEPT ![n] = "spin"]
        /\ UNCHANGED <<time, ids>>
    BY <1>6 DEF AfterClock
  <2>2. NodeTypes'
    BY <1>1, <1>2, <2>1 DEF NodeTypes
  <2>3. Remembered'
    BY <1>1, <1>3, <2>1, PartTypes DEF Remembered, NodeTypes
  <2>4. Ordered'
    BY <2>1 DEF NodeInv, Ordered
  <2>5. SleepIsEnough' /\ SpinStep'
    BY <1>1, <2>1 DEF NodeInv, SleepIsEnough, SpinStep, NodeTypes
  <2> QED
    BY <2>2, <2>3, <2>4, <2>5 DEF NodeInv
<1> QED
  BY <1>4, <1>5, <1>6

(* Every step of Generate and of the clocks preserves the invariant.       *)
LEMMA NextIInv == NodeInv /\ [NextNodes]_nodeVars => NodeInv'
<1> SUFFICES ASSUME NodeInv, [NextNodes]_nodeVars PROVE NodeInv'
  OBVIOUS
<1>1. NodeTypes
  BY DEF NodeInv
<1>2. ASSUME NEW n \in Nodes, Generate(n) PROVE NodeInv'
  <2>1. CASE time[n] > clock[n]
    <3>1. at' = [at EXCEPT ![n] = "valid"] /\ UNCHANGED <<clock, time, step, left, ids, setBacks>>
      BY <1>2, <2>1 DEF Generate
    <3>2. NodeTypes' /\ Ordered'
      BY <3>1, <1>1 DEF NodeInv, NodeTypes, Ordered
    <3>3. Remembered'
      BY <1>2, <3>1, <1>1 DEF NodeInv, NodeTypes, Remembered, Generate
    <3>4. SleepIsEnough' /\ SpinStep'
      BY <3>1, <1>1 DEF NodeInv, NodeTypes, SleepIsEnough, SpinStep
    <3> QED
      BY <3>2, <3>3, <3>4 DEF NodeInv
  <2>2. CASE ~(time[n] > clock[n])
    <3>1. clock[n] \in Epoch .. MaxClock /\ time[n] <= clock[n] /\ at[n] # "spin"
      BY <1>1, <1>2, <2>2, SnowflakeAssumption, IdAssumption DEF NodeTypes, Generate
    <3>2. AfterClock(n, clock[n]) /\ UNCHANGED <<clock, left, setBacks>>
      BY <1>2, <2>2 DEF Generate
    <3> QED
      BY <3>1, <3>2, AfterClockPreserves
  <2> QED
    BY <2>1, <2>2
<1>3. ASSUME NEW n \in Nodes, GetValidNow(n) PROVE NodeInv'
  <2> DEFINE rest == IF time[n] > clock[n] THEN (time[n] - clock[n]) + 1 ELSE 0
  <2>0. /\ UNCHANGED <<clock, time, step, ids, setBacks>>
        /\ at' = [at EXCEPT ![n] = "sleep"] /\ left' = [left EXCEPT ![n] = rest]
    BY <1>3 DEF GetValidNow
  <2>1. rest \in Nat /\ clock[n] + rest >= time[n]
    <3>1. clock[n] \in Int /\ time[n] \in Int
      BY <1>1, SnowflakeAssumption, IdAssumption DEF NodeTypes
    <3> QED
      BY <3>1
  <2> HIDE DEF rest
  <2>2. NodeTypes'
    BY <1>1, <2>0, <2>1 DEF NodeTypes
  <2>3. Ordered'
    BY <2>0 DEF NodeInv, Ordered
  <2>4. Remembered'
    BY <1>1, <1>3 DEF GetValidNow, NodeInv, NodeTypes, Remembered
  <2>5. SleepIsEnough'
    <3> SUFFICES ASSUME NEW u \in Nodes, at'[u] = "sleep" PROVE clock[u] + left'[u] >= time[u]
      BY <2>0 DEF SleepIsEnough
    <3>1. u # n => at'[u] = at[u] /\ left'[u] = left[u]
      BY <1>1, <2>0 DEF NodeTypes
    <3>2. left'[n] = rest
      BY <1>1, <2>0 DEF NodeTypes
    <3> QED
      BY <2>1, <3>1, <3>2 DEF NodeInv, SleepIsEnough
  <2>6. SpinStep'
    BY <1>1, <1>3 DEF GetValidNow, NodeInv, NodeTypes, SpinStep
  <2> QED
    BY <2>2, <2>3, <2>4, <2>5, <2>6 DEF NodeInv
<1>4. ASSUME NEW n \in Nodes, Wake(n) PROVE NodeInv'
  <2>1. clock[n] \in Epoch .. MaxClock /\ time[n] <= clock[n] /\ at[n] # "spin"
    BY <1>1, <1>4, SnowflakeAssumption, IdAssumption DEF NodeTypes, Wake, NodeInv, SleepIsEnough
  <2>2. AfterClock(n, clock[n]) /\ UNCHANGED <<clock, left, setBacks>>
    BY <1>4 DEF Wake
  <2> QED
    BY <2>1, <2>2, AfterClockPreserves
<1>5. ASSUME NEW n \in Nodes, Spin(n) PROVE NodeInv'
  <2>1. /\ clock[n] \in Epoch .. MaxClock /\ step[n] \in 0 .. StepSpace - 1
        /\ Issue(n, clock[n], step[n]) /\ UNCHANGED <<clock, left, setBacks>>
    BY <1>1, <1>5 DEF NodeTypes, Spin
  <2>2. \A i \in DOMAIN ids : ids[i].node = n =>
            Before(ids[i].time, ids[i].step, clock[n], step[n])
    <3> SUFFICES ASSUME NEW i \in DOMAIN ids, ids[i].node = n
                 PROVE  ids[i].time < clock[n]
      BY DEF Before
    <3>1. ids[i] \in Part /\ ids[i].time <= time[n]
      BY <1>1 DEF NodeTypes, NodeInv, Remembered
    <3>2. time[n] < clock[n] /\ time[n] \in Int
      BY <1>1, <1>5 DEF NodeTypes, Spin
    <3> QED
      BY <2>1, <3>1, <3>2, PartTypes, SnowflakeAssumption, IdAssumption
  <2> QED
    BY <2>1, <2>2, IssuePreserves
<1>6. ASSUME NEW n \in Nodes, ClockTick(n) PROVE NodeInv'
  <2>1. NodeTypes' /\ Ordered'
    <3>1. clock[n] + 1 \in Epoch .. MaxClock
      BY <1>1, <1>6, SnowflakeAssumption, IdAssumption DEF ClockTick, NodeTypes
    <3>2. left'[n] \in Nat /\ left' = [left EXCEPT ![n] = left'[n]]
      BY <1>1, <1>6 DEF ClockTick, NodeTypes
    <3>3. NodeTypes'
      BY <1>1, <1>6, <3>1, <3>2 DEF ClockTick, NodeTypes
    <3>4. Ordered'
      BY <1>6 DEF ClockTick, NodeInv, Ordered
    <3> QED
      BY <3>3, <3>4
  <2>2. Remembered' /\ SpinStep'
    BY <1>1, <1>6 DEF ClockTick, NodeInv, NodeTypes, Remembered, SpinStep
  <2>3. SleepIsEnough'
    BY <1>1, <1>6, SnowflakeAssumption, IdAssumption DEF ClockTick, NodeInv, NodeTypes, SleepIsEnough
  <2> QED
    BY <2>1, <2>2, <2>3 DEF NodeInv
<1>7. ASSUME NEW n \in Nodes, NEW t \in Epoch .. MaxClock, SetBack(n, t) PROVE NodeInv'
  <2>1. NodeTypes' /\ Ordered'
    BY <1>1, <1>7, SnowflakeAssumption, IdAssumption DEF SetBack, NodeInv, NodeTypes, Ordered
  <2>2. Remembered' /\ SpinStep'
    BY <1>1, <1>7 DEF SetBack, NodeInv, NodeTypes, Remembered, SpinStep
  <2>3. SleepIsEnough'
    BY <1>1, <1>7, SnowflakeAssumption, IdAssumption DEF SetBack, NodeInv, NodeTypes, SleepIsEnough
  <2> QED
    BY <2>1, <2>2, <2>3 DEF NodeInv
<1>8. CASE UNCHANGED nodeVars
  <2>1. NodeTypes' /\ Ordered'
    BY <1>1, <1>8 DEF nodeVars, NodeInv, NodeTypes, Ordered
  <2>2. Remembered' /\ SpinStep' /\ SleepIsEnough'
    BY <1>8 DEF nodeVars, NodeInv, Remembered, SpinStep, SleepIsEnough
  <2> QED
    BY <2>1, <2>2 DEF NodeInv
<1> QED
  BY <1>2, <1>3, <1>4, <1>5, <1>6, <1>7, <1>8 DEF NextNodes, Running

(* The invariant that the two theorems on IDs rest on: a node remembers    *)
(* the latest time and step it has used, and a sleep outlasts a setback.   *)
THEOREM Invariance == NodeSpec => []NodeInv
  BY InitIInv, NextIInv, PTL DEF NodeSpec

(* The order of the parts is the order of the IDs.                         *)
LEMMA OrderedMeansIncrease == NodeInv => IDsIncrease
<1> SUFFICES ASSUME NodeInv, NEW i \in DOMAIN ids, NEW j \in DOMAIN ids,
                    i < j, ids[i].node = ids[j].node
             PROVE  ID(ids[i]) < ID(ids[j])
  BY DEF IDsIncrease
<1>1. ids[i] \in Part /\ ids[j] \in Part
  BY DEF NodeInv, NodeTypes
<1>2. Before(ids[i].time, ids[i].step, ids[j].time, ids[j].step)
  BY DEF NodeInv, Ordered
<1> QED
  BY <1>1, <1>2, IDOrder

(* IDs of one node differ by that order, those of different nodes by their *)
(* node bits.                                                              *)
LEMMA OrderedMeansUnique == NodeInv => UniqueIDs
<1> SUFFICES ASSUME NodeInv, NEW i \in DOMAIN ids, NEW j \in DOMAIN ids,
                    i # j, ID(ids[i]) = ID(ids[j])
             PROVE  FALSE
  BY DEF UniqueIDs
<1>1. ids[i] \in Part /\ ids[j] \in Part /\ i \in Nat /\ j \in Nat
  BY DEF NodeInv, NodeTypes
<1>2. ids[i].node = ids[j].node
  BY <1>1, IDInjective
<1>3. ID(ids[i]) < ID(ids[j]) \/ ID(ids[j]) < ID(ids[i])
  BY <1>1, <1>2, OrderedMeansIncrease DEF IDsIncrease
<1> QED
  BY <1>1, <1>3, PartTypes, SnowflakeAssumption, IdAssumption

(* Quotient and remainder are the ones a number is written with.           *)
LEMMA Division ==
    ASSUME NEW t \in Int, NEW S \in Nat \ {0}
    PROVE  t \div S \in Int /\ t % S \in 0 .. S - 1 /\ t = (t \div S) * S + (t % S)
  OBVIOUS

LEMMA QuotientOf ==
    ASSUME NEW S \in Nat \ {0}, NEW q \in Int, NEW r \in 0 .. S - 1
    PROVE  (q * S + r) \div S = q /\ (q * S + r) % S = r
<1>0. PICK t \in Int : t = q * S + r
  OBVIOUS
<1>1. PICK a, b : a = t \div S /\ b = t % S
  OBVIOUS
<1>2. a \in Int /\ b \in 0 .. S - 1 /\ t = a * S + b
  BY <1>1, Division, Zenon
<1>3. ~(a < q)
  <2> SUFFICES ASSUME a < q PROVE FALSE
    OBVIOUS
  <2>1. a * S + b < q * S + r
    BY <1>2, DigitOrder
  <2>2. a * S \in Int /\ q * S \in Int
    BY <1>2
  <2> QED
    BY <1>0, <1>2, <2>1, <2>2
<1>4. ~(q < a)
  <2> SUFFICES ASSUME q < a PROVE FALSE
    OBVIOUS
  <2>1. q * S + r < a * S + b
    BY <1>2, DigitOrder
  <2>2. a * S \in Int /\ q * S \in Int
    BY <1>2
  <2> QED
    BY <1>0, <1>2, <2>1, <2>2
<1>5. a = q
  BY <1>2, <1>3, <1>4
<1>6. b = r
  <2>1. a * S \in Int /\ a * S = q * S
    BY <1>2, <1>5
  <2> QED
    BY <1>0, <1>2, <2>1
<1> QED
  BY <1>0, <1>1, <1>5, <1>6

(* The parts of an ID are its digits, in bases StepSpace and NodeSpace.    *)
LEMMA PartsOf ==
    ASSUME NEW p \in Part
    PROVE  Time(ID(p)) = p.time /\ Node(ID(p)) = p.node /\ Step(ID(p)) = p.step
<1> DEFINE e == p.time - Epoch
           long == NodeSpace * StepSpace
<1>1. /\ p.node \in 0 .. NodeSpace - 1 /\ p.step \in 0 .. StepSpace - 1 /\ e \in Int
      /\ Row(p) \in Int /\ ID(p) = Row(p) * StepSpace + p.step /\ p.time \in Int
  BY PartTypes, SnowflakeAssumption, IdAssumption
<1>2. ID(p) \in Int /\ Row(p) = e * NodeSpace + p.node /\ e * NodeSpace \in Int
  BY <1>1, IdAssumption DEF Row
<1>3. NodeSpace \in Nat \ {0} /\ StepSpace \in Nat \ {0}
  BY IdAssumption
<1>4. ID(p) \div StepSpace = Row(p) /\ ID(p) % StepSpace = p.step
  <2>1. /\ (Row(p) * StepSpace + p.step) \div StepSpace = Row(p)
        /\ (Row(p) * StepSpace + p.step) % StepSpace = p.step
    BY <1>1, <1>3, QuotientOf, Zenon
  <2> QED
    BY <1>1, <2>1, Zenon
<1>5. Row(p) % NodeSpace = p.node
  <2> HIDE DEF e
  <2>1. (e * NodeSpace + p.node) % NodeSpace = p.node
    BY <1>1, <1>3, QuotientOf, Zenon
  <2> QED
    BY <1>2, <2>1, Zenon
<1>6. long \in Nat \ {0}
  BY <1>3
<1>7. p.node * StepSpace + p.step \in 0 .. long - 1
  <2>1. p.node * StepSpace \in Nat /\ p.node * StepSpace <= (NodeSpace - 1) * StepSpace
    BY <1>1, <1>3
  <2>2. (NodeSpace - 1) * StepSpace = long - StepSpace
    BY <1>3
  <2> HIDE DEF long
  <2> QED
    BY <1>1, <1>3, <1>6, <2>1, <2>2
<1>8. ID(p) = e * long + (p.node * StepSpace + p.step)
  <2>1. PICK d \in Int : d = e
    BY <1>1
  <2>2. (d * NodeSpace + p.node) * StepSpace = (d * NodeSpace) * StepSpace + p.node * StepSpace
    BY <1>1, <1>3, <2>1
  <2>3. (d * NodeSpace) * StepSpace = d * (NodeSpace * StepSpace)
    BY <1>3, <2>1
  <2>4. Row(p) * StepSpace = d * long + p.node * StepSpace
    BY <1>2, <2>1, <2>2, <2>3
  <2>5. d * long \in Int /\ p.node * StepSpace \in Int
    BY <1>1, <1>3, <1>6, <2>1
  <2>6. ID(p) = (d * long + p.node * StepSpace) + p.step
    BY <1>1, <2>4, Zenon
  <2>7. ID(p) = d * long + (p.node * StepSpace + p.step)
    <3>1. PICK x \in Int, y \in Int : x = d * long /\ y = p.node * StepSpace
      BY <2>5
    <3>2. ID(p) = (x + y) + p.step
      BY <2>6, <3>1
    <3>3. ID(p) = x + (y + p.step)
      BY <1>1, <3>2
    <3> QED
      BY <3>1, <3>3
  <2> QED
    BY <2>1, <2>7
<1>9. ID(p) \div long = e
  <2>1. p.node * StepSpace + p.step \in 0 .. long - 1 /\ long \in Nat \ {0}
    BY <1>6, <1>7
  <2> HIDE DEF e, long
  <2>2. PICK rest \in 0 .. long - 1 : rest = p.node * StepSpace + p.step
    BY <2>1, Zenon
  <2>3. e \in Int /\ long \in Nat \ {0}
    BY <1>1, <2>1, Zenon
  <2>4. (e * long + rest) \div long = e
    BY <2>3, QuotientOf, Zenon
  <2> QED
    BY <1>8, <2>2, <2>4, Zenon
<1>10. Time(ID(p)) = e + Epoch
  BY <1>9 DEF Time
<1>11. e + Epoch = p.time
  BY <1>1, IdAssumption
<1> QED
  BY <1>4, <1>5, <1>10, <1>11 DEF Node, Step

(* Node.time, Node.step and every part of every ID stay inside their bits. *)
THEOREM TypeCorrect == NodeSpec => []NodeTypes
  BY Invariance, PTL DEF NodeInv

(* "Generate creates and returns a unique snowflake ID", for any number of *)
(* nodes and any widths of the node and step fields.                       *)
THEOREM IDsAreUnique == NodeSpec => []UniqueIDs
  BY Invariance, OrderedMeansUnique, PTL

(* Every ID says truly which node made it, at which time and as which      *)
(* step, for any widths of the fields.                                     *)
THEOREM PartsAreReadBack == NodeSpec => []PartsReadBack
<1>1. NodeInv => PartsReadBack
  <2> SUFFICES ASSUME NodeInv, NEW i \in DOMAIN ids
               PROVE  /\ Time(ID(ids[i])) = ids[i].time /\ Node(ID(ids[i])) = ids[i].node
                      /\ Step(ID(ids[i])) = ids[i].step
    BY DEF PartsReadBack
  <2>1. ids[i] \in Part
    BY DEF NodeInv, NodeTypes
  <2> QED
    BY <2>1, PartsOf
<1> QED
  BY <1>1, Invariance, PTL

(* The IDs of a node increase whatever its clock does between the waits.   *)
THEOREM IDsAreIncreasing == NodeSpec => []IDsIncrease
  BY Invariance, OrderedMeansIncrease, PTL

=============================================================================

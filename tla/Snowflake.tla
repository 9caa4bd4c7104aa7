------------------------------ MODULE Snowflake ------------------------------
(***************************************************************************)
(* The ID generator of utils/snowflake/id_worker.go.  Node.mu serializes   *)
(* the calls of Generate on a node, so one call is under way per node.     *)
(* Every node reads a wall clock of its own (milliseconds), which may be   *)
(* set back: once for each call, Generate sleeps until the clock has       *)
(* caught up.  A second setback while it sleeps is not handled by the      *)
(* code, and is excluded here (SetBack).                                   *)
(***************************************************************************)
EXTENDS IdParts, Sequences

CONSTANTS
    Nodes,          \* the node numbers in use
    MaxClock,       \* bound: last millisecond
    MaxIDs,         \* bound: IDs generated
    MaxSetBacks     \* bound: times a clock is set back

(* NewNode rejects a number that does not fit (id_worker.go:97-99).        *)
ASSUME SnowflakeAssumption ==
    /\ Nodes \subseteq 0 .. NodeSpace - 1
    /\ MaxClock \in Nat
    /\ Epoch <= MaxClock
    /\ MaxIDs \in Nat
    /\ MaxSetBacks \in Nat

VARIABLES
    clock,      \* each node's wall clock
    time,       \* Node.time
    step,       \* Node.step
    at,         \* "idle", "valid" and "sleep" (GetValidNow), "spin" (step overflow)
    left,       \* milliseconds of time.Sleep left
    ids,        \* history: what the IDs returned so far are made of
    setBacks    \* times a clock was set back

nodeVars == <<clock, time, step, at, left, ids, setBacks>>

InitNodes ==
    /\ clock \in [Nodes -> {Epoch}]
    /\ time = [n \in Nodes |-> 0]
    /\ step = [n \in Nodes |-> 0]
    /\ at = [n \in Nodes |-> "idle"]
    /\ left = [n \in Nodes |-> 0]
    /\ ids = <<>>
    /\ setBacks = 0

-----------------------------------------------------------------------------
(* The end of Generate: store the time, return the ID, unlock.             *)
Issue(n, now, s) ==
    /\ time' = [time EXCEPT ![n] = now]
    /\ step' = [step EXCEPT ![n] = s]
    /\ ids' = Append(ids, [node |-> n, time |-> now, step |-> s])
    /\ at' = [at EXCEPT ![n] = "idle"]

(* Faulty: the sequence does not wait for the next millisecond.            *)
AfterClockNoSpin(n, now) ==
    IF time[n] = now
    THEN Issue(n, now, IF step[n] + 1 = StepSpace THEN 0 ELSE step[n] + 1)
    ELSE Issue(n, now, 0)

(* Generate once `now' has been read: (step+1) & stepMask within the same  *)
(* millisecond, and a wait for the next one when that overflows to zero.   *)
AfterClock(n, now) ==
    IF time[n] # now THEN Issue(n, now, 0)
    ELSE IF step[n] + 1 < StepSpace THEN Issue(n, now, step[n] + 1)
    ELSE /\ step' = [step EXCEPT ![n] = 0]
         /\ at' = [at EXCEPT ![n] = "spin"]
         /\ UNCHANGED <<time, ids>>

(* Generate up to the first wait.  A node whose time has come to the bound *)
(* of the clock is not asked again.                                        *)
Generate(n) ==
    /\ at[n] = "idle" /\ Len(ids) < MaxIDs /\ time[n] < MaxClock
    /\ IF time[n] > clock[n]
       THEN at' = [at EXCEPT ![n] = "valid"] /\ UNCHANGED <<time, step, ids>>
       ELSE AfterClock(n, clock[n])
    /\ UNCHANGED <<clock, left, setBacks>>

(* GetValidNow reads the clock again, and sleeps if it is still behind.    *)
GetValidNow(n) ==
    /\ at[n] = "valid"
    /\ at' = [at EXCEPT ![n] = "sleep"]
    /\ left' = [left EXCEPT ![n] =
                  IF time[n] > clock[n] THEN (time[n] - clock[n]) + 1 ELSE 0]
    /\ UNCHANGED <<clock, time, step, ids, setBacks>>

(* Its last line reads the clock once more, and Generate continues.        *)
Wake(n) ==
    /\ at[n] = "sleep" /\ left[n] = 0
    /\ AfterClock(n, clock[n])
    /\ UNCHANGED <<clock, left, setBacks>>

(* Faulty: the loop does not read the clock again.                         *)
SpinOnStaleNow(n) ==
    LET now == time[n]
    IN  /\ at[n] = "spin" /\ now > time[n]
        /\ Issue(n, now, step[n])
        /\ UNCHANGED <<clock, left, setBacks>>

(* for now <= n.time : the step is zero already.                           *)
Spin(n) ==
    /\ at[n] = "spin" /\ clock[n] > time[n]
    /\ Issue(n, clock[n], step[n])
    /\ UNCHANGED <<clock, left, setBacks>>

-----------------------------------------------------------------------------
(* The clocks.                                                             *)
ClockTick(n) ==
    /\ clock[n] < MaxClock
    /\ clock' = [clock EXCEPT ![n] = @ + 1]
    /\ left' = [left EXCEPT ![n] = IF @ > 0 THEN @ - 1 ELSE 0]
    /\ UNCHANGED <<time, step, at, ids, setBacks>>

SetBack(n, t) ==
    /\ at[n] # "sleep"
    /\ t < clock[n] /\ setBacks < MaxSetBacks
    /\ clock' = [clock EXCEPT ![n] = t]
    /\ setBacks' = setBacks + 1
    /\ UNCHANGED <<time, step, at, left, ids>>

Running(n) == GetValidNow(n) \/ Wake(n) \/ Spin(n)

NextNodes ==
    \E n \in Nodes :
        \/ Generate(n) \/ Running(n) \/ ClockTick(n)
        \/ \E t \in Epoch .. MaxClock : SetBack(n, t)

NodeSpec == InitNodes /\ [][NextNodes]_nodeVars

(* Time passes, and a call under way is scheduled.                         *)
NodeFairness == \A n \in Nodes : WF_nodeVars(ClockTick(n)) /\ WF_nodeVars(Running(n))

-----------------------------------------------------------------------------
(* Properties.                                                             *)

Part == [node : Nodes, time : Epoch .. MaxClock, step : 0 .. StepSpace - 1]

(* Every part of an ID stays inside its bits; Node.time and Node.step too. *)
NodeTypes ==
    /\ clock \in [Nodes -> Epoch .. MaxClock]
    /\ time \in [Nodes -> 0 .. MaxClock]
    /\ step \in [Nodes -> 0 .. StepSpace - 1]
    /\ at \in [Nodes -> {"idle", "valid", "sleep", "spin"}]
    /\ left \in [Nodes -> Nat]
    /\ ids \in Seq(Part)
    /\ setBacks \in Nat

(* "Generate creates and returns a unique snowflake ID": no two calls, on  *)
(* the same node or on different ones, return the same number.             *)
UniqueIDs ==
    \A i, j \in DOMAIN ids : i # j => ID(ids[i]) # ID(ids[j])

(* Time, Node and Step read out of an ID what Generate put into it, so     *)
(* whatever the waits did, an ID tells which node made it and when.        *)
PartsReadBack ==
    \A i \in DOMAIN ids :
        LET f == ID(ids[i])
        IN  Time(f) = ids[i].time /\ Node(f) = ids[i].node /\ Step(f) = ids[i].step

(* The IDs of a node increase, also when its clock was set back or its     *)
(* step overflowed.                                                        *)
IDsIncrease ==
    \A i, j \in DOMAIN ids :
        i < j /\ ids[i].node = ids[j].node => ID(ids[i]) < ID(ids[j])

(* A call that waits for the clock, asleep or spinning, returns.           *)
GenerateReturns == \A n \in Nodes : at[n] # "idle" ~> at[n] = "idle"

-----------------------------------------------------------------------------
(* The inductive invariant.                                                *)

(* (t, s) comes before (u, v).                                             *)
Before(t, s, u, v) == t < u \/ (t = u /\ s < v)

(* A node remembers the latest time and step it has used; while it spins   *)
(* the step has been reset but the time not yet.                           *)
Remembered ==
    \A i \in DOMAIN ids :
        LET n == ids[i].node
        IN  /\ ids[i].time <= time[n]
            /\ at[n] # "spin" => ids[i].time < time[n] \/ ids[i].step <= step[n]

(* Within a node, later IDs have a later time or a larger step.            *)
Ordered ==
    \A i, j \in DOMAIN ids :
        i < j /\ ids[i].node = ids[j].node =>
            Before(ids[i].time, ids[i].step, ids[j].time, ids[j].step)

(* The sleep does not end before the clock has reached the remembered time.*)
SleepIsEnough == \A n \in Nodes : at[n] = "sleep" => clock[n] + left[n] >= time[n]

SpinStep == \A n \in Nodes : at[n] = "spin" => step[n] = 0

NodeInv == NodeTypes /\ Remembered /\ Ordered /\ SleepIsEnough /\ SpinStep

=============================================================================

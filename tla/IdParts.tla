------------------------------- MODULE IdParts -------------------------------
(***************************************************************************)
(* The ID of utils/snowflake/id_worker.go: a number made of a time, a node *)
(* and a step, and how the three are read out of it.                       *)
(***************************************************************************)
EXTENDS Integers

CONSTANTS
    NodeSpace,      \* nodeMax + 1  = 2^NodeBits
    StepSpace,      \* stepMask + 1 = 2^StepBits
    Epoch           \* Epoch

ASSUME IdAssumption ==
    /\ NodeSpace \in Nat \ {0}
    /\ StepSpace \in Nat \ {0}
    /\ Epoch \in Nat \ {0}

(* (now-Epoch)<<timeShift | node<<nodeShift | step                         *)
ID(r) == ((r.time - Epoch) * NodeSpace + r.node) * StepSpace + r.step

Time(f) == f \div (NodeSpace * StepSpace) + Epoch

(* f & nodeMask >> nodeShift                                               *)
Node(f) == (f \div StepSpace) % NodeSpace

Step(f) == f % StepSpace
==============================================================================

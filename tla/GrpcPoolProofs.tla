--------------------------- MODULE GrpcPoolProofs ---------------------------
EXTENDS GrpcPool, FiniteSetTheorems, TLAPS

(* Remainders, for index % current (pool.go:226).                          *)
LEMMA ModFact ==
  ASSUME NEW a \in Nat, NEW b \in Nat \ {0}
  PROVE  a % b \in 0 .. b - 1
OBVIOUS

(* A grow never goes past MaxActive (pool.go:248-251).                     *)
LEMMA IncrementFact ==
  ASSUME NEW c \in 0 .. MaxActive
  PROVE  Increment(c) \in 0 .. MaxActive /\ c + Increment(c) <= MaxActive
BY OptionsAssumption DEF Increment, Min2

(* The slot that a grow fills exists (pool.go:261-262).                    *)
LEMMA GrowSlot ==
  ASSUME TypeOK, NEW t \in Threads, i[t] < Increment(cur[t])
  PROVE  cur[t] + i[t] \in Slots
<1> DEFINE c == cur[t]
           inc == Increment(c)
<1>1. c \in 0 .. MaxActive /\ i[t] \in 0 .. MaxActive
  BY DEF TypeOK
<1>2. inc \in 0 .. MaxActive /\ c + inc <= MaxActive
  BY <1>1, IncrementFact
<1> HIDE DEF inc
<1> QED
  BY <1>1, <1>2, OptionsAssumption DEF Slots, inc

(* A newly allocated conn is referred to by no slot and by no user.        *)
LEMMA FreshFact ==
  ASSUME FreshConns # {}
  PROVE  /\ Fresh \in Conns
         /\ \A s \in Slots : conns[s] # Fresh
         /\ \A t \in Threads : held[t] # Fresh
<1>1. Fresh \in FreshConns
  BY DEF Fresh
<1> QED
  BY <1>1 DEF FreshConns

(* The cases of Get (pool.go:222-241).                                     *)
LEMMA GetCaseFact ==
  ASSUME NEW t \in Threads, NEW c \in Nat, nextRef[t] \in Int
  PROVE  /\ GetCase(t, c) \in {"failed", "pick", "onetime", "lock"}
         /\ GetCase(t, c) = "failed" <=> c = 0
<1> USE OptionsAssumption
<1> DEFINE m == c * MaxConcurrentStreams
<1>1. m \in Nat
  OBVIOUS
<1> HIDE DEF m
<1>2. nextRef[t] <= m \/ nextRef[t] > m
  BY <1>1
<1> QED
  BY <1>2 DEF GetCase, m

(* The number of calls in flight is a number, and 0 only if there is none. *)
LEMMA UsersFact ==
  /\ IsFiniteSet(Users)
  /\ Cardinality(Users) \in Nat
  /\ Cardinality(Users) = 0 <=> Users = {}
<1>1. IsFiniteSet(Users)
  BY FS_Subset, ModelAssumption DEF Users
<1> QED
  BY <1>1, FS_CardinalityType, FS_EmptySet

(* How one thread's step to l changes the number of calls in flight.       *)
LEMMA CountStep ==
  ASSUME TypeOK, NEW t \in Threads, NEW l, pc' = [pc EXCEPT ![t] = l]
  PROVE  /\ pc[t] \in CountedPCs /\ l \in CountedPCs
              => Cardinality(Users)' = Cardinality(Users)
         /\ pc[t] \notin CountedPCs /\ l \notin CountedPCs
              => Cardinality(Users)' = Cardinality(Users)
         /\ pc[t] \notin CountedPCs /\ l \in CountedPCs
              => Cardinality(Users)' = Cardinality(Users) + 1
         /\ pc[t] \in CountedPCs /\ l \notin CountedPCs
              => Cardinality(Users)' = Cardinality(Users) - 1
<1>1. pc'[t] = l /\ \A u \in Threads : u # t => pc'[u] = pc[u]
  BY DEF TypeOK
<1>2. ASSUME pc[t] \in CountedPCs <=> l \in CountedPCs
      PROVE  Cardinality(Users)' = Cardinality(Users)
  <2>1. Users' = Users
    BY <1>1, <1>2 DEF Users
  <2> QED
    BY <2>1
<1>3. ASSUME pc[t] \notin CountedPCs, l \in CountedPCs
      PROVE  Cardinality(Users)' = Cardinality(Users) + 1
  <2>1. Users' = Users \cup {t} /\ t \notin Users
    BY <1>1, <1>3 DEF Users
  <2> QED
    BY <2>1, UsersFact, FS_AddElement
<1>4. ASSUME pc[t] \in CountedPCs, l \notin CountedPCs
      PROVE  Cardinality(Users)' = Cardinality(Users) - 1
  <2>1. Users' = Users \ {t} /\ t \in Users
    BY <1>1, <1>4 DEF Users
  <2> QED
    BY <2>1, UsersFact, FS_RemoveElement
<1> QED
  BY <1>2, <1>3, <1>4

(* Outside Get and use no call is counted.                                 *)
LEMMA UncountedFact ==
  \A l \in {"idle", "failed", "overflow", "load", "shrinkLock", "check", "shrink",
           "delete", "shrinkUnlock", "cancel"} : l \notin CountedPCs
BY DEF CountedPCs, GetPCs

(* Where Get goes from its first read of current.                          *)
LEMMA ReadCurrentFact ==
  ASSUME IInv, NEW t \in Threads, GetReadCurrent(t)
  PROVE  \E l \in {"failed", "pick", "onetime", "lock"} :
            /\ pc' = [pc EXCEPT ![t] = l]
            /\ cur' = [cur EXCEPT ![t] = IF l = "pick" THEN current ELSE 0]
            /\ leaked' = IF l = "failed" THEN leaked + 1 ELSE leaked
            /\ l # "failed" => current > 0
<1>1. /\ GetCase(t, current) \in {"failed", "pick", "onetime", "lock"}
      /\ GetCase(t, current) = "failed" <=> current = 0
  BY GetCaseFact, OptionsAssumption DEF IInv, TypeOK
<1> DEFINE l == GetCase(t, current)
<1>2. /\ pc' = [pc EXCEPT ![t] = l]
      /\ cur' = [cur EXCEPT ![t] = IF l = "pick" THEN current ELSE 0]
      /\ leaked' = IF current = 0 THEN leaked + 1 ELSE leaked
  BY DEF GetReadCurrent, Goto
<1>3. current # 0 => current > 0
  BY OptionsAssumption DEF IInv, TypeOK
<1> HIDE DEF l
<1>4. l \in {"failed", "pick", "onetime", "lock"} /\ (l = "failed" <=> current = 0)
  BY <1>1 DEF l
<1> QED
  BY <1>2, <1>3, <1>4

(* Where conn.Close goes from its decrement: never to the panic, and past  *)
(* the shrink only if somebody else is still counted.                      *)
LEMMA DecrRefFact ==
  ASSUME IInv, NEW t \in Threads, CloseDecrRef(t)
  PROVE  \E l \in {"load", "cancel"} :
            /\ pc' = [pc EXCEPT ![t] = l]
            /\ l = "cancel" /\ ~closed =>
                 leaked > 0 \/ \E u \in Threads : u # t /\ pc[u] \in CountedPCs
<1>1. ~closed => ref > 0
  <2>1. t \in Users
    BY DEF CloseDecrRef, Users, CountedPCs
  <2> QED
    BY <2>1, UsersFact DEF IInv, RefInv, TypeOK
<1>2. CASE ref - 1 = 0
  BY <1>1, <1>2 DEF CloseDecrRef, Goto, IInv, TypeOK
<1>3. CASE ref - 1 # 0
  <2>1. ~(ref - 1 < 0 /\ ~closed)
    BY <1>1 DEF IInv, TypeOK
  <2>2. Goto(t, "cancel") /\ ref' = ref - 1
    BY <1>3, <2>1 DEF CloseDecrRef
  <2>3. ASSUME ~closed, leaked = 0, \A u \in Threads : pc[u] \in CountedPCs => u = t
        PROVE  FALSE
    <3>1. Users = {t}
      BY <2>3 DEF CloseDecrRef, Users, CountedPCs
    <3>2. Cardinality(Users) = 1
      BY <3>1, FS_Singleton
    <3> QED
      BY <1>3, <2>3, <3>2 DEF IInv, RefInv, TypeOK
  <2> QED
    BY <2>2, <2>3 DEF Goto, IInv, TypeOK
<1> QED
  BY <1>2, <1>3

(* Type correctness is preserved. *)
LEMMA TypeStep == IInv /\ [Next]_vars => TypeOK'
<1> SUFFICES ASSUME IInv, [Next]_vars PROVE TypeOK'
  OBVIOUS
<1> USE OptionsAssumption, ModelAssumption
<1>1. ASSUME NEW t \in Threads, GetIncrRef(t) PROVE TypeOK'
  BY <1>1, SMTT(90)
     DEF GetIncrRef, IInv, TypeOK, ControlInv, Slots, Conns, Goto, shared,
         ResetOpen, ResetOnce, GetPCs, ClosePCs, RestPCs
<1>2. ASSUME NEW t \in Threads, GetReadCurrent(t) PROVE TypeOK'
  <2>1. GetCase(t, current) \in {"failed", "pick", "onetime", "lock"}
    BY GetCaseFact DEF IInv, TypeOK
  <2> QED
    BY <1>2, <2>1
       DEF GetReadCurrent, IInv, TypeOK, ControlInv, Slots, Conns, Goto,
           shared, ResetOpen, ResetOnce, GetPCs, ClosePCs, RestPCs
<1>3. ASSUME NEW t \in Threads, GetPick(t) PROVE TypeOK'
  <2>1. cur[t] > 0 /\ cur[t] \in 0 .. MaxActive /\ index \in Nat
    BY <1>3 DEF GetPick, IInv, TypeOK, ControlInv
  <2>2. (index + 1) % IndexMod \in 0 .. IndexMod - 1
    BY <2>1, ModFact
  <2> DEFINE x == (index + 1) % IndexMod
  <2>3. x \in Nat
    BY <2>2
  <2> HIDE DEF x
  <2> DEFINE y == cur[t]
  <2>4. y \in Nat \ {0}
    BY <2>1
  <2> HIDE DEF y
  <2>5. x % y \in 0 .. y - 1
    BY <2>4, <2>3, ModFact
  <2>6. x % cur[t] \in 0 .. cur[t] - 1
    BY <2>5 DEF y
  <2>7. ((index + 1) % IndexMod) % cur[t] \in 0 .. MaxActive
    BY <2>1, <2>6 DEF x
  <2> QED
    BY <1>3, <2>2, <2>7
       DEF GetPick, IInv, TypeOK, ControlInv, Slots, Conns, Goto, shared,
           ResetOpen, ResetOnce, GetPCs, ClosePCs, RestPCs
<1>4. ASSUME NEW t \in Threads, GetTake(t) PROVE TypeOK'
  BY <1>4
     DEF GetTake, IInv, TypeOK, ControlInv, Slots, Conns, Goto, shared,
         ResetOpen, ResetOnce, GetPCs, ClosePCs, RestPCs
<1>5. ASSUME NEW t \in Threads, GetOneTime(t) PROVE TypeOK'
  <2>1. Fresh \in Conns
    BY <1>5, FreshFact DEF GetOneTime
  <2>2. /\ pc' \in [Threads -> GetPCs \cup ClosePCs \cup RestPCs]
        /\ leaked' \in Nat
    BY <1>5 DEF GetOneTime, IInv, TypeOK, Goto, GetPCs, ClosePCs, RestPCs
  <2>3. open' \in SUBSET Conns /\ once' \in SUBSET Conns
    BY <1>5, <2>1 DEF GetOneTime, IInv, TypeOK
  <2> QED
    BY <1>5, <2>1, <2>2, <2>3 DEF GetOneTime, IInv, TypeOK
<1>6. ASSUME NEW t \in Threads, GetLock(t) PROVE TypeOK'
  BY <1>6
     DEF GetLock, IInv, TypeOK, ControlInv, Slots, Conns, Goto, shared,
         ResetOpen, ResetOnce, GetPCs, ClosePCs, RestPCs
<1>7. ASSUME NEW t \in Threads, GetGrow(t) PROVE TypeOK'
  <2>1. Fresh \in Conns
    BY <1>7, FreshFact DEF GetGrow
  <2>2. i[t] + 1 \in 0 .. MaxActive
    BY <1>7, IncrementFact DEF GetGrow, IInv, TypeOK
  <2> QED
    BY <1>7, <2>1, <2>2
       DEF GetGrow, IInv, TypeOK, ControlInv, Slots, Conns, Goto, shared,
           ResetOpen, ResetOnce, GetPCs, ClosePCs, RestPCs
<1>8. ASSUME NEW t \in Threads, GetGrown(t) PROVE TypeOK'
  <2>1. cur[t] + i[t] \in 0 .. MaxActive
    BY <1>8, IncrementFact DEF GetGrown, IInv, TypeOK, ControlInv
  <2>2. pc' \in [Threads -> GetPCs \cup ClosePCs \cup RestPCs]
    BY <1>8 DEF GetGrown, IInv, TypeOK, Goto, GetPCs, ClosePCs, RestPCs
  <2>3. cur' \in [Threads -> 0 .. MaxActive] /\ i' \in [Threads -> 0 .. MaxActive]
    BY <1>8, <2>1 DEF GetGrown, IInv, TypeOK
  <2> QED
    BY <1>8, <2>2, <2>3 DEF GetGrown, IInv, TypeOK, shared
<1>9. ASSUME NEW t \in Threads, GetStore(t) PROVE TypeOK'
  BY <1>9
     DEF GetStore, IInv, TypeOK, ControlInv, Slots, Conns, Goto, shared,
         ResetOpen, ResetOnce, GetPCs, ClosePCs, RestPCs
<1>10. ASSUME NEW t \in Threads, GetUnlock(t) PROVE TypeOK'
  BY <1>10
     DEF GetUnlock, IInv, TypeOK, ControlInv, Slots, Conns, Goto, shared,
         ResetOpen, ResetOnce, GetPCs, ClosePCs, RestPCs
<1>11. ASSUME NEW t \in Threads, DropError(t) PROVE TypeOK'
  BY <1>11
     DEF DropError, IInv, TypeOK, ControlInv, Slots, Conns, Goto, shared,
         ResetOpen, ResetOnce, GetPCs, ClosePCs, RestPCs
<1>12. ASSUME NEW t \in Threads, CloseDecrRef(t) PROVE TypeOK'
  <2>1. pc' \in [Threads -> GetPCs \cup ClosePCs \cup RestPCs]
    <3>1. PICK l : l \in {"negative", "load", "cancel"} /\ Goto(t, l)
      BY <1>12 DEF CloseDecrRef
    <3> QED
      BY <3>1 DEF Goto, IInv, TypeOK, GetPCs, ClosePCs, RestPCs
  <2>2. ref' \in Int
    BY <1>12 DEF CloseDecrRef, IInv, TypeOK
  <2> QED
    BY <1>12, <2>1, <2>2 DEF CloseDecrRef, IInv, TypeOK
<1>13. ASSUME NEW t \in Threads, CloseLoadCurrent(t) PROVE TypeOK'
  BY <1>13
     DEF CloseLoadCurrent, IInv, TypeOK, ControlInv, Slots, Conns, Goto,
         shared, ResetOpen, ResetOnce, GetPCs, ClosePCs, RestPCs
<1>14. ASSUME NEW t \in Threads, ShrinkLock(t) PROVE TypeOK'
  BY <1>14
     DEF ShrinkLock, IInv, TypeOK, ControlInv, Slots, Conns, Goto, shared,
         ResetOpen, ResetOnce, GetPCs, ClosePCs, RestPCs
<1>15. ASSUME NEW t \in Threads, ShrinkCheck(t) PROVE TypeOK'
  BY <1>15
     DEF ShrinkCheck, IInv, TypeOK, ControlInv, Slots, Conns, Goto, shared,
         ResetOpen, ResetOnce, GetPCs, ClosePCs, RestPCs
<1>16. ASSUME NEW t \in Threads, ShrinkStore(t) PROVE TypeOK'
  BY <1>16
     DEF ShrinkStore, IInv, TypeOK, ControlInv, Slots, Conns, Goto, shared,
         ResetOpen, ResetOnce, GetPCs, ClosePCs, RestPCs
<1>17. ASSUME NEW t \in Threads, ShrinkDelete(t) PROVE TypeOK'
  <2>1. i[t] + 1 \in 0 .. MaxActive
    BY <1>17 DEF ShrinkDelete, IInv, TypeOK
  <2> QED
    BY <1>17, <2>1
       DEF ShrinkDelete, IInv, TypeOK, ControlInv, Slots, Conns, Goto, shared,
           ResetOpen, ResetOnce, GetPCs, ClosePCs, RestPCs
<1>18. ASSUME NEW t \in Threads, ShrinkUnlock(t) PROVE TypeOK'
  BY <1>18
     DEF ShrinkUnlock, IInv, TypeOK, ControlInv, Slots, Conns, Goto, shared,
         ResetOpen, ResetOnce, GetPCs, ClosePCs, RestPCs
<1>19. ASSUME NEW t \in Threads, CloseReset(t) PROVE TypeOK'
  BY <1>19
     DEF CloseReset, IInv, TypeOK, ControlInv, Slots, Conns, Goto, shared,
         ResetOpen, ResetOnce, GetPCs, ClosePCs, RestPCs
<1>20. CASE PoolCloseMark
  BY <1>20
     DEF PoolCloseMark, IInv, TypeOK, ControlInv, Slots, Conns, Goto, shared,
         ResetOpen, ResetOnce, GetPCs, ClosePCs, RestPCs
<1>21. CASE PoolCloseCurrent
  BY <1>21
     DEF PoolCloseCurrent, IInv, TypeOK, ControlInv, Slots, Conns, Goto,
         shared, ResetOpen, ResetOnce, GetPCs, ClosePCs, RestPCs
<1>22. CASE PoolCloseRef
  BY <1>22
     DEF PoolCloseRef, IInv, TypeOK, ControlInv, Slots, Conns, Goto, shared,
         ResetOpen, ResetOnce, GetPCs, ClosePCs, RestPCs
<1>23. CASE PoolCloseDelete
  BY <1>23
     DEF PoolCloseDelete, IInv, TypeOK, ControlInv, Slots, Conns, Goto,
         shared, ResetOpen, ResetOnce, GetPCs, ClosePCs, RestPCs
<1>24. CASE UNCHANGED vars
  BY <1>24
     DEF vars, IInv, TypeOK, ControlInv, Slots, Conns, Goto, shared,
         ResetOpen, ResetOnce, GetPCs, ClosePCs, RestPCs
<1> QED
  BY <1>1, <1>2, <1>3, <1>4, <1>5, <1>6, <1>7, <1>8, <1>9, <1>10, <1>11,
     <1>12, <1>13, <1>14, <1>15, <1>16, <1>17, <1>18, <1>19, <1>20, <1>21,
     <1>22, <1>23, <1>24
     DEF Next, GetStep, CloseStep, PoolClose

(* Lock ownership and local variables. *)
LEMMA ControlStep == IInv /\ [Next]_vars => ControlInv'
<1> SUFFICES ASSUME IInv, [Next]_vars PROVE ControlInv'
  OBVIOUS
<1> USE OptionsAssumption, ModelAssumption
<1>1. ASSUME NEW t \in Threads, GetIncrRef(t) PROVE ControlInv'
  BY <1>1
     DEF GetIncrRef, IInv, TypeOK, Goto, shared, GetPCs, ClosePCs, RestPCs,
         CountedPCs, LockedPCs, Slots, Conns, ResetOpen, ResetOnce, ControlInv
<1>2. ASSUME NEW t \in Threads, GetReadCurrent(t) PROVE ControlInv'
  <2>1. PICK l \in {"failed", "pick", "onetime", "lock"} :
            /\ pc' = [pc EXCEPT ![t] = l]
            /\ cur' = [cur EXCEPT ![t] = IF l = "pick" THEN current ELSE 0]
            /\ leaked' = IF l = "failed" THEN leaked + 1 ELSE leaked
            /\ l # "failed" => current > 0
    BY <1>2, ReadCurrentFact
  <2>2. UNCHANGED <<shared, i, held, closer>> /\ pc[t] = "rlock" /\ writer = Nil
    BY <1>2 DEF GetReadCurrent
  <2> QED
    BY <2>1, <2>2
       DEF IInv, TypeOK, ControlInv, GetPCs, ClosePCs, RestPCs, LockedPCs,
           shared
<1>3. ASSUME NEW t \in Threads, GetPick(t) PROVE ControlInv'
  BY <1>3
     DEF GetPick, IInv, TypeOK, Goto, shared, GetPCs, ClosePCs, RestPCs,
         CountedPCs, LockedPCs, Slots, Conns, ResetOpen, ResetOnce, ControlInv
<1>4. ASSUME NEW t \in Threads, GetTake(t) PROVE ControlInv'
  BY <1>4
     DEF GetTake, IInv, TypeOK, Goto, shared, GetPCs, ClosePCs, RestPCs,
         CountedPCs, LockedPCs, Slots, Conns, ResetOpen, ResetOnce, ControlInv
<1>5. ASSUME NEW t \in Threads, GetOneTime(t) PROVE ControlInv'
  BY <1>5
     DEF GetOneTime, IInv, TypeOK, Goto, shared, GetPCs, ClosePCs, RestPCs,
         CountedPCs, LockedPCs, Slots, Conns, ResetOpen, ResetOnce, ControlInv
<1>6. ASSUME NEW t \in Threads, GetLock(t) PROVE ControlInv'
  <2>1. current \in 0 .. MaxActive /\ current > 0 /\ i[t] = 0
    BY <1>6 DEF GetLock, IInv, TypeOK, ControlInv, GetPCs
  <2>2. 0 <= Increment(current)
    BY <2>1, IncrementFact
  <2> QED
    BY <1>6, <2>1, <2>2
       DEF GetLock, Goto, IInv, TypeOK, ControlInv, GetPCs, ClosePCs, RestPCs,
           LockedPCs, shared
<1>7. ASSUME NEW t \in Threads, GetGrow(t) PROVE ControlInv'
  <2>1. Increment(cur[t]) \in Int
    BY IncrementFact DEF IInv, TypeOK
  <2>2. i[t] + 1 <= Increment(cur[t])
    BY <1>7, <2>1 DEF GetGrow, IInv, TypeOK
  <2> QED
    BY <1>7, <2>2
       DEF GetGrow, IInv, TypeOK, ControlInv, GetPCs, ClosePCs, RestPCs,
           LockedPCs, shared
<1>8. ASSUME NEW t \in Threads, GetGrown(t) PROVE ControlInv'
  BY <1>8
     DEF GetGrown, IInv, TypeOK, Goto, shared, GetPCs, ClosePCs, RestPCs,
         CountedPCs, LockedPCs, Slots, Conns, ResetOpen, ResetOnce, ControlInv
<1>9. ASSUME NEW t \in Threads, GetStore(t) PROVE ControlInv'
  BY <1>9
     DEF GetStore, IInv, TypeOK, Goto, shared, GetPCs, ClosePCs, RestPCs,
         CountedPCs, LockedPCs, Slots, Conns, ResetOpen, ResetOnce, ControlInv
<1>10. ASSUME NEW t \in Threads, GetUnlock(t) PROVE ControlInv'
  BY <1>10
     DEF GetUnlock, IInv, TypeOK, Goto, shared, GetPCs, ClosePCs, RestPCs,
         CountedPCs, LockedPCs, Slots, Conns, ResetOpen, ResetOnce, ControlInv
<1>11. ASSUME NEW t \in Threads, DropError(t) PROVE ControlInv'
  BY <1>11
     DEF DropError, IInv, TypeOK, Goto, shared, GetPCs, ClosePCs, RestPCs,
         CountedPCs, LockedPCs, Slots, Conns, ResetOpen, ResetOnce, ControlInv
<1>12. ASSUME NEW t \in Threads, CloseDecrRef(t) PROVE ControlInv'
  <2>1. PICK l \in {"load", "cancel"} :
            /\ pc' = [pc EXCEPT ![t] = l]
            /\ l = "cancel" /\ ~closed =>
                 leaked > 0 \/ \E u \in Threads : u # t /\ pc[u] \in CountedPCs
    BY <1>12, DecrRefFact
  <2>2. /\ pc[t] = "using"
        /\ UNCHANGED <<index, current, closed, conns, writer, open, once, nextRef,
                       cur, i, held, leaked, closer>>
    BY <1>12 DEF CloseDecrRef
  <2> QED
    BY <2>1, <2>2
       DEF IInv, TypeOK, ControlInv, GetPCs, ClosePCs, RestPCs, LockedPCs,
           shared
<1>13. ASSUME NEW t \in Threads, CloseLoadCurrent(t) PROVE ControlInv'
  BY <1>13
     DEF CloseLoadCurrent, IInv, TypeOK, Goto, shared, GetPCs, ClosePCs,
         RestPCs, CountedPCs, LockedPCs, Slots, Conns, ResetOpen, ResetOnce,
         ControlInv
<1>14. ASSUME NEW t \in Threads, ShrinkLock(t) PROVE ControlInv'
  BY <1>14
     DEF ShrinkLock, IInv, TypeOK, Goto, shared, GetPCs, ClosePCs, RestPCs,
         CountedPCs, LockedPCs, Slots, Conns, ResetOpen, ResetOnce, ControlInv
<1>15. ASSUME NEW t \in Threads, ShrinkCheck(t) PROVE ControlInv'
  BY <1>15
     DEF ShrinkCheck, IInv, TypeOK, Goto, shared, GetPCs, ClosePCs, RestPCs,
         CountedPCs, LockedPCs, Slots, Conns, ResetOpen, ResetOnce, ControlInv
<1>16. ASSUME NEW t \in Threads, ShrinkStore(t) PROVE ControlInv'
  BY <1>16
     DEF ShrinkStore, IInv, TypeOK, Goto, shared, GetPCs, ClosePCs, RestPCs,
         CountedPCs, LockedPCs, Slots, Conns, ResetOpen, ResetOnce, ControlInv
<1>17. ASSUME NEW t \in Threads, ShrinkDelete(t) PROVE ControlInv'
  BY <1>17
     DEF ShrinkDelete, IInv, TypeOK, Goto, shared, GetPCs, ClosePCs, RestPCs,
         CountedPCs, LockedPCs, Slots, Conns, ResetOpen, ResetOnce, ControlInv
<1>18. ASSUME NEW t \in Threads, ShrinkUnlock(t) PROVE ControlInv'
  BY <1>18
     DEF ShrinkUnlock, IInv, TypeOK, Goto, shared, GetPCs, ClosePCs, RestPCs,
         CountedPCs, LockedPCs, Slots, Conns, ResetOpen, ResetOnce, ControlInv
<1>19. ASSUME NEW t \in Threads, CloseReset(t) PROVE ControlInv'
  BY <1>19
     DEF CloseReset, IInv, TypeOK, Goto, shared, GetPCs, ClosePCs, RestPCs,
         CountedPCs, LockedPCs, Slots, Conns, ResetOpen, ResetOnce, ControlInv
<1>20. CASE PoolCloseMark
  BY <1>20
     DEF PoolCloseMark, IInv, TypeOK, Goto, shared, GetPCs, ClosePCs, RestPCs,
         CountedPCs, LockedPCs, Slots, Conns, ResetOpen, ResetOnce, ControlInv
<1>21. CASE PoolCloseCurrent
  BY <1>21
     DEF PoolCloseCurrent, IInv, TypeOK, Goto, shared, GetPCs, ClosePCs,
         RestPCs, CountedPCs, LockedPCs, Slots, Conns, ResetOpen, ResetOnce,
         ControlInv
<1>22. CASE PoolCloseRef
  BY <1>22
     DEF PoolCloseRef, IInv, TypeOK, Goto, shared, GetPCs, ClosePCs, RestPCs,
         CountedPCs, LockedPCs, Slots, Conns, ResetOpen, ResetOnce, ControlInv
<1>23. CASE PoolCloseDelete
  BY <1>23
     DEF PoolCloseDelete, IInv, TypeOK, Goto, shared, GetPCs, ClosePCs,
         RestPCs, CountedPCs, LockedPCs, Slots, Conns, ResetOpen, ResetOnce,
         ControlInv
<1>24. CASE UNCHANGED vars
  BY <1>24
     DEF vars, IInv, TypeOK, Goto, shared, GetPCs, ClosePCs, RestPCs,
         CountedPCs, LockedPCs, Slots, Conns, ResetOpen, ResetOnce, ControlInv
<1> QED
  BY <1>1, <1>2, <1>3, <1>4, <1>5, <1>6, <1>7, <1>8, <1>9, <1>10, <1>11,
     <1>12, <1>13, <1>14, <1>15, <1>16, <1>17, <1>18, <1>19, <1>20, <1>21,
     <1>22, <1>23, <1>24
     DEF Next, GetStep, CloseStep, PoolClose

(* Ownership of conn objects. *)
LEMMA OwnerStep == IInv /\ [Next]_vars => OwnerInv'
<1> SUFFICES ASSUME IInv, [Next]_vars PROVE OwnerInv'
  OBVIOUS
<1> USE OptionsAssumption, ModelAssumption
<1>1. ASSUME NEW t \in Threads, GetIncrRef(t) PROVE OwnerInv'
  BY <1>1
     DEF GetIncrRef, IInv, TypeOK, Goto, shared, GetPCs, ClosePCs, RestPCs,
         CountedPCs, LockedPCs, Slots, Conns, ResetOpen, ResetOnce,
         ControlInv, OwnerInv, SlotsDistinct, SlotsNotOnce, OnceHeld,
         OnceHeldAlone, HeldWhere, NoConnLeak
<1>2. ASSUME NEW t \in Threads, GetReadCurrent(t) PROVE OwnerInv'
  <2>1. PICK l \in {"failed", "pick", "onetime", "lock"} :
            /\ pc' = [pc EXCEPT ![t] = l]
            /\ cur' = [cur EXCEPT ![t] = IF l = "pick" THEN current ELSE 0]
            /\ leaked' = IF l = "failed" THEN leaked + 1 ELSE leaked
            /\ l # "failed" => current > 0
    BY <1>2, ReadCurrentFact
  <2>2. UNCHANGED <<shared, i, held, closer>> /\ pc[t] = "rlock" /\ writer = Nil
    BY <1>2 DEF GetReadCurrent
  <2>3. held[t] = Nil /\ Nil \notin open
    BY <2>2 DEF IInv, TypeOK, OwnerInv, HeldWhere, GetPCs, Conns
  <2> QED
    BY <2>1, <2>2, <2>3
       DEF IInv, TypeOK, ControlInv, OwnerInv, SlotsDistinct, SlotsNotOnce,
           OnceHeld, OnceHeldAlone, HeldWhere, NoConnLeak, GetPCs, ClosePCs,
           RestPCs, LockedPCs, shared, Slots, Conns
<1>3. ASSUME NEW t \in Threads, GetPick(t) PROVE OwnerInv'
  BY <1>3
     DEF GetPick, IInv, TypeOK, Goto, shared, GetPCs, ClosePCs, RestPCs,
         CountedPCs, LockedPCs, Slots, Conns, ResetOpen, ResetOnce,
         ControlInv, OwnerInv, SlotsDistinct, SlotsNotOnce, OnceHeld,
         OnceHeldAlone, HeldWhere, NoConnLeak
<1>4. ASSUME NEW t \in Threads, GetTake(t) PROVE OwnerInv'
  BY <1>4
     DEF GetTake, IInv, TypeOK, Goto, shared, GetPCs, ClosePCs, RestPCs,
         CountedPCs, LockedPCs, Slots, Conns, ResetOpen, ResetOnce,
         ControlInv, OwnerInv, SlotsDistinct, SlotsNotOnce, OnceHeld,
         OnceHeldAlone, HeldWhere, NoConnLeak
<1>5. ASSUME NEW t \in Threads, GetOneTime(t) PROVE OwnerInv'
  <2>1. /\ Fresh \in Conns
        /\ \A s \in Slots : conns[s] # Fresh
        /\ \A u \in Threads : held[u] # Fresh
    BY <1>5, FreshFact DEF GetOneTime
  <2>2. Fresh \notin once /\ Fresh \notin open /\ Fresh # Nil
    BY <2>1 DEF IInv, OwnerInv, OnceHeld, NoConnLeak, Conns
  <2>3. held[t] = Nil
    BY <1>5 DEF GetOneTime, IInv, OwnerInv, HeldWhere, GetPCs
  <2>4. /\ pc[t] = "onetime" /\ conns' = conns
        /\ held' = [held EXCEPT ![t] = Fresh]
        /\ once' = once \cup {Fresh}
        /\ \/ open' = open \cup {Fresh} /\ pc' = [pc EXCEPT ![t] = "using"]
           \/ open' = open /\ pc' = [pc EXCEPT ![t] = "failed"]
    BY <1>5 DEF GetOneTime, Goto
  <2>5. SlotsDistinct' /\ SlotsNotOnce'
    BY <2>1, <2>4 DEF IInv, OwnerInv, SlotsDistinct, SlotsNotOnce
  <2>6. OnceHeld'
    BY <2>3, <2>4 DEF IInv, OwnerInv, OnceHeld, TypeOK, Conns
  <2>7. OnceHeldAlone'
    BY <2>1, <2>3, <2>4 DEF IInv, OwnerInv, OnceHeldAlone, TypeOK
  <2>8. HeldWhere'
    BY <2>1, <2>2, <2>4 DEF IInv, OwnerInv, HeldWhere, TypeOK, GetPCs
  <2>9. NoConnLeak'
    <3> SUFFICES ASSUME NEW c \in open'
                 PROVE  \/ \E s \in Slots : conns'[s] = c
                        \/ c \in once' /\ \E u \in Threads : held'[u] = c
      BY DEF NoConnLeak
    <3>1. CASE c = Fresh
      BY <2>4, <3>1 DEF IInv, TypeOK
    <3>2. CASE c # Fresh
      <4>1. c \in open /\ c # Nil
        BY <2>4, <3>2 DEF IInv, TypeOK, Conns
      <4> QED
        BY <4>1, <2>3, <2>4 DEF IInv, OwnerInv, NoConnLeak, TypeOK
    <3> QED
      BY <3>1, <3>2
  <2> QED
    BY <2>5, <2>6, <2>7, <2>8, <2>9 DEF OwnerInv
<1>6. ASSUME NEW t \in Threads, GetLock(t) PROVE OwnerInv'
  BY <1>6
     DEF GetLock, IInv, TypeOK, Goto, shared, GetPCs, ClosePCs, RestPCs,
         CountedPCs, LockedPCs, Slots, Conns, ResetOpen, ResetOnce,
         ControlInv, OwnerInv, SlotsDistinct, SlotsNotOnce, OnceHeld,
         OnceHeldAlone, HeldWhere, NoConnLeak
<1>7. ASSUME NEW t \in Threads, GetGrow(t) PROVE OwnerInv'
  <2>1. /\ Fresh \in Conns
        /\ \A s \in Slots : conns[s] # Fresh
        /\ \A u \in Threads : held[u] # Fresh
    BY <1>7, FreshFact DEF GetGrow
  <2>2. Fresh \notin once /\ Fresh \notin open /\ Fresh # Nil
    BY <2>1 DEF IInv, OwnerInv, OnceHeld, NoConnLeak, Conns
  <2> DEFINE n == cur[t] + i[t]
  <2>3. n \in Slots
    BY <1>7, GrowSlot DEF GetGrow, IInv
  <2>4. /\ conns' = [conns EXCEPT ![n] = Fresh]
        /\ open' = (open \ {conns[n]}) \cup {Fresh}
        /\ once' = once \ {conns[n]}
        /\ pc' = pc /\ held' = held
    BY <1>7 DEF GetGrow, ResetOpen, ResetOnce
  <2> HIDE DEF n
  <2>5. SlotsDistinct' /\ SlotsNotOnce'
    BY <2>1, <2>2, <2>3, <2>4
       DEF IInv, OwnerInv, SlotsDistinct, SlotsNotOnce, TypeOK
  <2>6. OnceHeld' /\ OnceHeldAlone'
    BY <2>4 DEF IInv, OwnerInv, OnceHeld, OnceHeldAlone
  <2>7. HeldWhere'
    BY <2>1, <2>4 DEF IInv, OwnerInv, HeldWhere
  <2>8. NoConnLeak'
    BY <2>3, <2>4 DEF IInv, OwnerInv, NoConnLeak, SlotsNotOnce, TypeOK
  <2> QED
    BY <2>5, <2>6, <2>7, <2>8 DEF OwnerInv
<1>8. ASSUME NEW t \in Threads, GetGrown(t) PROVE OwnerInv'
  BY <1>8
     DEF GetGrown, IInv, TypeOK, Goto, shared, GetPCs, ClosePCs, RestPCs,
         CountedPCs, LockedPCs, Slots, Conns, ResetOpen, ResetOnce,
         ControlInv, OwnerInv, SlotsDistinct, SlotsNotOnce, OnceHeld,
         OnceHeldAlone, HeldWhere, NoConnLeak
<1>9. ASSUME NEW t \in Threads, GetStore(t) PROVE OwnerInv'
  BY <1>9
     DEF GetStore, IInv, TypeOK, Goto, shared, GetPCs, ClosePCs, RestPCs,
         CountedPCs, LockedPCs, Slots, Conns, ResetOpen, ResetOnce,
         ControlInv, OwnerInv, SlotsDistinct, SlotsNotOnce, OnceHeld,
         OnceHeldAlone, HeldWhere, NoConnLeak
<1>10. ASSUME NEW t \in Threads, GetUnlock(t) PROVE OwnerInv'
  <2>1. PICK l \in {"pick", "failed"} : pc' = [pc EXCEPT ![t] = l]
    BY <1>10 DEF GetUnlock, Goto
  <2>2. UNCHANGED <<conns, open, once, held>> /\ held[t] = Nil /\ Nil \notin open
    BY <1>10 DEF GetUnlock, IInv, TypeOK, OwnerInv, HeldWhere, GetPCs, Conns
  <2> QED
    BY <2>1, <2>2
       DEF IInv, TypeOK, ControlInv, OwnerInv, SlotsDistinct, SlotsNotOnce,
           OnceHeld, OnceHeldAlone, HeldWhere, NoConnLeak, GetPCs, ClosePCs,
           RestPCs, LockedPCs, shared, Slots, Conns
<1>11. ASSUME NEW t \in Threads, DropError(t) PROVE OwnerInv'
  <2>1. /\ conns' = conns /\ held' = [held EXCEPT ![t] = Nil]
        /\ once' = once \ {held[t]} /\ pc' = [pc EXCEPT ![t] = "idle"]
    BY <1>11 DEF DropError, Goto
  <2>2. open' \subseteq open /\ (held[t] \in once => held[t] \notin open')
    BY <1>11 DEF DropError, IInv, OwnerInv, HeldWhere, NoConnLeak
  <2>3. SlotsDistinct' /\ SlotsNotOnce'
    BY <2>1 DEF IInv, OwnerInv, SlotsDistinct, SlotsNotOnce
  <2>4. OnceHeld' /\ OnceHeldAlone'
    BY <2>1 DEF IInv, OwnerInv, OnceHeld, OnceHeldAlone, TypeOK, Conns
  <2>5. HeldWhere'
    BY <2>1, <2>2 DEF IInv, OwnerInv, HeldWhere, TypeOK, GetPCs
  <2>6. NoConnLeak'
    BY <2>1, <2>2 DEF IInv, OwnerInv, NoConnLeak, TypeOK
  <2> QED
    BY <2>3, <2>4, <2>5, <2>6 DEF OwnerInv
<1>12. ASSUME NEW t \in Threads, CloseDecrRef(t) PROVE OwnerInv'
  <2>1. PICK l \in {"load", "cancel"} :
            /\ pc' = [pc EXCEPT ![t] = l]
            /\ l = "cancel" /\ ~closed =>
                 leaked > 0 \/ \E u \in Threads : u # t /\ pc[u] \in CountedPCs
    BY <1>12, DecrRefFact
  <2>2. /\ pc[t] = "using"
        /\ UNCHANGED <<index, current, closed, conns, writer, open, once, nextRef,
                       cur, i, held, leaked, closer>>
    BY <1>12 DEF CloseDecrRef
  <2> QED
    BY <2>1, <2>2
       DEF IInv, TypeOK, ControlInv, OwnerInv, SlotsDistinct, SlotsNotOnce,
           OnceHeld, OnceHeldAlone, HeldWhere, NoConnLeak, GetPCs, ClosePCs,
           RestPCs, LockedPCs, shared, Slots, Conns
<1>13. ASSUME NEW t \in Threads, CloseLoadCurrent(t) PROVE OwnerInv'
  BY <1>13
     DEF CloseLoadCurrent, IInv, TypeOK, Goto, shared, GetPCs, ClosePCs,
         RestPCs, CountedPCs, LockedPCs, Slots, Conns, ResetOpen, ResetOnce,
         ControlInv, OwnerInv, SlotsDistinct, SlotsNotOnce, OnceHeld,
         OnceHeldAlone, HeldWhere, NoConnLeak
<1>14. ASSUME NEW t \in Threads, ShrinkLock(t) PROVE OwnerInv'
  BY <1>14
     DEF ShrinkLock, IInv, TypeOK, Goto, shared, GetPCs, ClosePCs, RestPCs,
         CountedPCs, LockedPCs, Slots, Conns, ResetOpen, ResetOnce,
         ControlInv, OwnerInv, SlotsDistinct, SlotsNotOnce, OnceHeld,
         OnceHeldAlone, HeldWhere, NoConnLeak
<1>15. ASSUME NEW t \in Threads, ShrinkCheck(t) PROVE OwnerInv'
  BY <1>15
     DEF ShrinkCheck, IInv, TypeOK, Goto, shared, GetPCs, ClosePCs, RestPCs,
         CountedPCs, LockedPCs, Slots, Conns, ResetOpen, ResetOnce,
         ControlInv, OwnerInv, SlotsDistinct, SlotsNotOnce, OnceHeld,
         OnceHeldAlone, HeldWhere, NoConnLeak
<1>16. ASSUME NEW t \in Threads, ShrinkStore(t) PROVE OwnerInv'
  BY <1>16
     DEF ShrinkStore, IInv, TypeOK, Goto, shared, GetPCs, ClosePCs, RestPCs,
         CountedPCs, LockedPCs, Slots, Conns, ResetOpen, ResetOnce,
         ControlInv, OwnerInv, SlotsDistinct, SlotsNotOnce, OnceHeld,
         OnceHeldAlone, HeldWhere, NoConnLeak
<1>17. ASSUME NEW t \in Threads, ShrinkDelete(t) PROVE OwnerInv'
  <2> DEFINE n == i[t]
  <2>1. n \in Slots
    BY <1>17 DEF ShrinkDelete, IInv, TypeOK, Slots
  <2>2. /\ conns' = [conns EXCEPT ![n] = Nil]
        /\ open' = open \ {conns[n]}
        /\ once' = once \ {conns[n]}
        /\ pc' = pc /\ held' = held
    BY <1>17 DEF ShrinkDelete, ResetOpen, ResetOnce
  <2>3. Nil \notin once /\ Nil \notin open
    BY DEF IInv, TypeOK, Conns
  <2> HIDE DEF n
  <2>4. SlotsDistinct' /\ SlotsNotOnce'
    BY <2>1, <2>2, <2>3 DEF IInv, OwnerInv, SlotsDistinct, SlotsNotOnce, TypeOK
  <2>5. OnceHeld' /\ OnceHeldAlone' /\ HeldWhere'
    BY <2>2 DEF IInv, OwnerInv, OnceHeld, OnceHeldAlone, HeldWhere
  <2>6. NoConnLeak'
    BY <2>1, <2>2 DEF IInv, OwnerInv, NoConnLeak, SlotsNotOnce, TypeOK
  <2> QED
    BY <2>4, <2>5, <2>6 DEF OwnerInv
<1>18. ASSUME NEW t \in Threads, ShrinkUnlock(t) PROVE OwnerInv'
  BY <1>18
     DEF ShrinkUnlock, IInv, TypeOK, Goto, shared, GetPCs, ClosePCs, RestPCs,
         CountedPCs, LockedPCs, Slots, Conns, ResetOpen, ResetOnce,
         ControlInv, OwnerInv, SlotsDistinct, SlotsNotOnce, OnceHeld,
         OnceHeldAlone, HeldWhere, NoConnLeak
<1>19. ASSUME NEW t \in Threads, CloseReset(t) PROVE OwnerInv'
  <2>1. /\ conns' = conns /\ held' = [held EXCEPT ![t] = Nil]
        /\ once' = once \ {held[t]} /\ pc' = [pc EXCEPT ![t] = "idle"]
    BY <1>19 DEF CloseReset, Goto
  <2>2. open' \subseteq open /\ (held[t] \in once => held[t] \notin open')
    BY <1>19 DEF CloseReset, IInv, OwnerInv, HeldWhere, NoConnLeak
  <2>3. SlotsDistinct' /\ SlotsNotOnce'
    BY <2>1 DEF IInv, OwnerInv, SlotsDistinct, SlotsNotOnce
  <2>4. OnceHeld' /\ OnceHeldAlone'
    BY <2>1 DEF IInv, OwnerInv, OnceHeld, OnceHeldAlone, TypeOK, Conns
  <2>5. HeldWhere'
    BY <2>1, <2>2 DEF IInv, OwnerInv, HeldWhere, TypeOK, GetPCs
  <2>6. NoConnLeak'
    BY <2>1, <2>2 DEF IInv, OwnerInv, NoConnLeak, TypeOK
  <2> QED
    BY <2>3, <2>4, <2>5, <2>6 DEF OwnerInv
<1>20. CASE PoolCloseMark
  BY <1>20
     DEF PoolCloseMark, IInv, TypeOK, Goto, shared, GetPCs, ClosePCs, RestPCs,
         CountedPCs, LockedPCs, Slots, Conns, ResetOpen, ResetOnce,
         ControlInv, OwnerInv, SlotsDistinct, SlotsNotOnce, OnceHeld,
         OnceHeldAlone, HeldWhere, NoConnLeak
<1>21. CASE PoolCloseCurrent
  BY <1>21
     DEF PoolCloseCurrent, IInv, TypeOK, Goto, shared, GetPCs, ClosePCs,
         RestPCs, CountedPCs, LockedPCs, Slots, Conns, ResetOpen, ResetOnce,
         ControlInv, OwnerInv, SlotsDistinct, SlotsNotOnce, OnceHeld,
         OnceHeldAlone, HeldWhere, NoConnLeak
<1>22. CASE PoolCloseRef
  BY <1>22
     DEF PoolCloseRef, IInv, TypeOK, Goto, shared, GetPCs, ClosePCs, RestPCs,
         CountedPCs, LockedPCs, Slots, Conns, ResetOpen, ResetOnce,
         ControlInv, OwnerInv, SlotsDistinct, SlotsNotOnce, OnceHeld,
         OnceHeldAlone, HeldWhere, NoConnLeak
<1>23. CASE PoolCloseDelete
  <2>1. /\ open' = open \ {conns[s] : s \in Slots}
        /\ once' = once \ {conns[s] : s \in Slots}
        /\ conns' = [s \in Slots |-> Nil]
        /\ pc' = pc /\ held' = held
    BY <1>23 DEF PoolCloseDelete
  <2>2. Nil \notin once
    BY DEF IInv, TypeOK, Conns
  <2>3. SlotsDistinct' /\ SlotsNotOnce' /\ OnceHeld' /\ OnceHeldAlone' /\ HeldWhere'
    BY <2>1, <2>2 DEF IInv, OwnerInv, SlotsDistinct, SlotsNotOnce, OnceHeld,
                      OnceHeldAlone, HeldWhere
  <2>4. NoConnLeak'
    BY <2>1 DEF IInv, OwnerInv, NoConnLeak
  <2> QED
    BY <2>3, <2>4 DEF OwnerInv
<1>24. CASE UNCHANGED vars
  BY <1>24
     DEF vars, IInv, TypeOK, Goto, shared, GetPCs, ClosePCs, RestPCs,
         CountedPCs, LockedPCs, Slots, Conns, ResetOpen, ResetOnce,
         ControlInv, OwnerInv, SlotsDistinct, SlotsNotOnce, OnceHeld,
         OnceHeldAlone, HeldWhere, NoConnLeak
<1> QED
  BY <1>1, <1>2, <1>3, <1>4, <1>5, <1>6, <1>7, <1>8, <1>9, <1>10, <1>11,
     <1>12, <1>13, <1>14, <1>15, <1>16, <1>17, <1>18, <1>19, <1>20, <1>21,
     <1>22, <1>23, <1>24
     DEF Next, GetStep, CloseStep, PoolClose

(* The slots of an open pool. *)
LEMMA SlotStep == IInv /\ [Next]_vars => SlotInv'
<1> SUFFICES ASSUME IInv, [Next]_vars PROVE SlotInv'
  OBVIOUS
<1> USE OptionsAssumption, ModelAssumption
<1>1. ASSUME NEW t \in Threads, GetIncrRef(t) PROVE SlotInv'
  BY <1>1
     DEF GetIncrRef, IInv, TypeOK, Goto, shared, GetPCs, ClosePCs, RestPCs,
         CountedPCs, LockedPCs, Slots, Conns, ResetOpen, ResetOnce,
         ControlInv, OwnerInv, SlotsDistinct, SlotsNotOnce, OnceHeld,
         OnceHeldAlone, HeldWhere, NoConnLeak, SlotInv, Filled
<1>2. ASSUME NEW t \in Threads, GetReadCurrent(t) PROVE SlotInv'
  <2>1. PICK l \in {"failed", "pick", "onetime", "lock"} :
            /\ pc' = [pc EXCEPT ![t] = l]
            /\ cur' = [cur EXCEPT ![t] = IF l = "pick" THEN current ELSE 0]
            /\ leaked' = IF l = "failed" THEN leaked + 1 ELSE leaked
            /\ l # "failed" => current > 0
    BY <1>2, ReadCurrentFact
  <2>2. UNCHANGED <<shared, i, held, closer>> /\ pc[t] = "rlock" /\ writer = Nil
    BY <1>2 DEF GetReadCurrent
  <2> QED
    BY <2>1, <2>2
       DEF IInv, TypeOK, ControlInv, SlotInv, Filled, GetPCs, ClosePCs,
           RestPCs, LockedPCs, shared, Slots
<1>3. ASSUME NEW t \in Threads, GetPick(t) PROVE SlotInv'
  BY <1>3
     DEF GetPick, IInv, TypeOK, Goto, shared, GetPCs, ClosePCs, RestPCs,
         CountedPCs, LockedPCs, Slots, Conns, ResetOpen, ResetOnce,
         ControlInv, OwnerInv, SlotsDistinct, SlotsNotOnce, OnceHeld,
         OnceHeldAlone, HeldWhere, NoConnLeak, SlotInv, Filled
<1>4. ASSUME NEW t \in Threads, GetTake(t) PROVE SlotInv'
  BY <1>4
     DEF GetTake, IInv, TypeOK, Goto, shared, GetPCs, ClosePCs, RestPCs,
         CountedPCs, LockedPCs, Slots, Conns, ResetOpen, ResetOnce,
         ControlInv, OwnerInv, SlotsDistinct, SlotsNotOnce, OnceHeld,
         OnceHeldAlone, HeldWhere, NoConnLeak, SlotInv, Filled
<1>5. ASSUME NEW t \in Threads, GetOneTime(t) PROVE SlotInv'
  <2>1. PICK l \in {"using", "failed"} : pc' = [pc EXCEPT ![t] = l]
    BY <1>5 DEF GetOneTime, Goto
  <2>2. open \subseteq open' /\ UNCHANGED <<conns, closed, current, writer, cur, i>>
    BY <1>5 DEF GetOneTime
  <2> QED
    BY <2>1, <2>2
       DEF IInv, TypeOK, ControlInv, SlotInv, Filled, GetPCs, ClosePCs,
           RestPCs, LockedPCs, shared, Slots
<1>6. ASSUME NEW t \in Threads, GetLock(t) PROVE SlotInv'
  <2>1. PICK l \in {"grow", "unlock"} : pc' = [pc EXCEPT ![t] = l]
    BY <1>6 DEF GetLock, Goto
  <2>2. /\ UNCHANGED <<open, conns, closed, current, i>>
        /\ writer = Nil /\ writer' = t
        /\ cur' = [cur EXCEPT ![t] = current] /\ i[t] = 0
        /\ current \in Int /\ current + 0 = current
    BY <1>6 DEF GetLock, IInv, TypeOK, ControlInv
  <2> QED
    BY <2>1, <2>2
       DEF IInv, TypeOK, ControlInv, SlotInv, Filled, GetPCs, ClosePCs,
           RestPCs, LockedPCs, shared, Slots
<1>7. ASSUME NEW t \in Threads, GetGrow(t) PROVE SlotInv'
  <2> SUFFICES ASSUME ~closed PROVE SlotInv'
    BY <1>7 DEF GetGrow, SlotInv
  <2> DEFINE n == cur[t] + i[t]
  <2>3. n \in Slots
    BY <1>7, GrowSlot DEF GetGrow, IInv
  <2>4. current <= n /\ Filled(n) /\ cur[t] = current
    BY <1>7 DEF GetGrow, IInv, SlotInv, TypeOK
  <2>2. n \in Int /\ ~(n < n)
    BY <2>3 DEF Slots
  <2>5. conns[n] = Nil /\ Nil \notin open /\ Nil \notin once
    <3> HIDE DEF n
    <3> QED
      BY <2>3, <2>4, <2>2 DEF Filled, IInv, TypeOK, Conns
  <2>6. /\ conns' = [conns EXCEPT ![n] = Fresh]
        /\ open' = open \cup {Fresh}
        /\ once' = once
        /\ i' = [i EXCEPT ![t] = i[t] + 1]
        /\ UNCHANGED <<pc, held, closed, current, writer, cur>>
    BY <1>7, <2>5 DEF GetGrow, ResetOpen, ResetOnce
  <2>7. n + 1 = cur[t] + (i[t] + 1) /\ n \in Int
    BY DEF IInv, TypeOK
  <2> HIDE DEF n
  <2>8. \A s \in Slots : s # n => conns'[s] = conns[s]
    BY <2>6 DEF IInv, TypeOK
  <2>9. \A s \in Slots : IF s < n + 1 THEN conns'[s] \in open' ELSE conns'[s] = Nil
    <3> SUFFICES ASSUME NEW s \in Slots
                 PROVE  IF s < n + 1 THEN conns'[s] \in open' ELSE conns'[s] = Nil
      OBVIOUS
    <3>1. CASE s = n
      BY <3>1, <2>3, <2>6, <2>7 DEF IInv, TypeOK
    <3>2. CASE s # n
      BY <3>2, <2>4, <2>6, <2>7, <2>8 DEF Filled, Slots
    <3> QED
      BY <3>1, <3>2
  <2>10. (Filled(cur[t] + i[t]))'
    <3>1. cur'[t] + i'[t] = n + 1
      BY <2>6, <2>7 DEF IInv, TypeOK
    <3> QED
      BY <3>1, <2>9 DEF Filled
  <2>11. \A s \in Slots : s < current => conns'[s] \in open'
    BY <2>4, <2>7, <2>9 DEF Slots, IInv, TypeOK
  <2>12. \A u \in Threads : pc[u] \in LockedPCs => u = t
    BY <1>7 DEF GetGrow, IInv, ControlInv, LockedPCs
  <2>13. writer # Nil
    BY <1>7 DEF GetGrow, IInv, ControlInv, LockedPCs
  <2> QED
    BY <1>7, <2>4, <2>6, <2>10, <2>11, <2>12, <2>13
       DEF GetGrow, IInv, SlotInv, LockedPCs
<1>8. ASSUME NEW t \in Threads, GetGrown(t) PROVE SlotInv'
  BY <1>8
     DEF GetGrown, IInv, TypeOK, Goto, shared, GetPCs, ClosePCs, RestPCs,
         CountedPCs, LockedPCs, Slots, Conns, ResetOpen, ResetOnce,
         ControlInv, OwnerInv, SlotsDistinct, SlotsNotOnce, OnceHeld,
         OnceHeldAlone, HeldWhere, NoConnLeak, SlotInv, Filled
<1>9. ASSUME NEW t \in Threads, GetStore(t) PROVE SlotInv'
  BY <1>9
     DEF GetStore, IInv, TypeOK, Goto, shared, GetPCs, ClosePCs, RestPCs,
         CountedPCs, LockedPCs, Slots, Conns, ResetOpen, ResetOnce,
         ControlInv, OwnerInv, SlotsDistinct, SlotsNotOnce, OnceHeld,
         OnceHeldAlone, HeldWhere, NoConnLeak, SlotInv, Filled
<1>10. ASSUME NEW t \in Threads, GetUnlock(t) PROVE SlotInv'
  BY <1>10
     DEF GetUnlock, IInv, TypeOK, Goto, shared, GetPCs, ClosePCs, RestPCs,
         CountedPCs, LockedPCs, Slots, Conns, ResetOpen, ResetOnce,
         ControlInv, OwnerInv, SlotsDistinct, SlotsNotOnce, OnceHeld,
         OnceHeldAlone, HeldWhere, NoConnLeak, SlotInv, Filled
<1>11. ASSUME NEW t \in Threads, DropError(t) PROVE SlotInv'
  BY <1>11
     DEF DropError, IInv, TypeOK, Goto, shared, GetPCs, ClosePCs, RestPCs,
         CountedPCs, LockedPCs, Slots, Conns, ResetOpen, ResetOnce,
         ControlInv, OwnerInv, SlotsDistinct, SlotsNotOnce, OnceHeld,
         OnceHeldAlone, HeldWhere, NoConnLeak, SlotInv, Filled
<1>12. ASSUME NEW t \in Threads, CloseDecrRef(t) PROVE SlotInv'
  <2>1. PICK l \in {"load", "cancel"} :
            /\ pc' = [pc EXCEPT ![t] = l]
            /\ l = "cancel" /\ ~closed =>
                 leaked > 0 \/ \E u \in Threads : u # t /\ pc[u] \in CountedPCs
    BY <1>12, DecrRefFact
  <2>2. /\ pc[t] = "using"
        /\ UNCHANGED <<index, current, closed, conns, writer, open, once, nextRef,
                       cur, i, held, leaked, closer>>
    BY <1>12 DEF CloseDecrRef
  <2> QED
    BY <2>1, <2>2, SMTT(90)
       DEF IInv, TypeOK, ControlInv, SlotInv, Filled, GetPCs, ClosePCs,
           RestPCs, LockedPCs, shared, Slots
<1>13. ASSUME NEW t \in Threads, CloseLoadCurrent(t) PROVE SlotInv'
  BY <1>13
     DEF CloseLoadCurrent, IInv, TypeOK, Goto, shared, GetPCs, ClosePCs,
         RestPCs, CountedPCs, LockedPCs, Slots, Conns, ResetOpen, ResetOnce,
         ControlInv, OwnerInv, SlotsDistinct, SlotsNotOnce, OnceHeld,
         OnceHeldAlone, HeldWhere, NoConnLeak, SlotInv, Filled
<1>14. ASSUME NEW t \in Threads, ShrinkLock(t) PROVE SlotInv'
  BY <1>14
     DEF ShrinkLock, IInv, TypeOK, Goto, shared, GetPCs, ClosePCs, RestPCs,
         CountedPCs, LockedPCs, Slots, Conns, ResetOpen, ResetOnce,
         ControlInv, OwnerInv, SlotsDistinct, SlotsNotOnce, OnceHeld,
         OnceHeldAlone, HeldWhere, NoConnLeak, SlotInv, Filled
<1>15. ASSUME NEW t \in Threads, ShrinkCheck(t) PROVE SlotInv'
  BY <1>15
     DEF ShrinkCheck, IInv, TypeOK, Goto, shared, GetPCs, ClosePCs, RestPCs,
         CountedPCs, LockedPCs, Slots, Conns, ResetOpen, ResetOnce,
         ControlInv, OwnerInv, SlotsDistinct, SlotsNotOnce, OnceHeld,
         OnceHeldAlone, HeldWhere, NoConnLeak, SlotInv, Filled
<1>16. ASSUME NEW t \in Threads, ShrinkStore(t) PROVE SlotInv'
  BY <1>16
     DEF ShrinkStore, IInv, TypeOK, Goto, shared, GetPCs, ClosePCs, RestPCs,
         CountedPCs, LockedPCs, Slots, Conns, ResetOpen, ResetOnce,
         ControlInv, OwnerInv, SlotsDistinct, SlotsNotOnce, OnceHeld,
         OnceHeldAlone, HeldWhere, NoConnLeak, SlotInv, Filled
<1>17. ASSUME NEW t \in Threads, ShrinkDelete(t) PROVE SlotInv'
  <2> SUFFICES ASSUME ~closed PROVE SlotInv'
    BY <1>17 DEF ShrinkDelete, SlotInv
  <2> DEFINE n == i[t]
  <2>1. n \in Slots /\ n \in Int
    BY <1>17 DEF ShrinkDelete, IInv, TypeOK, Slots
  <2>2. /\ conns' = [conns EXCEPT ![n] = Nil]
        /\ open' = open \ {conns[n]}
        /\ i' = [i EXCEPT ![t] = n + 1]
        /\ UNCHANGED <<pc, closed, current, writer, cur>>
    BY <1>17 DEF ShrinkDelete, ResetOpen
  <2>3. /\ pc[t] = "delete" /\ writer = t /\ writer # Nil
        /\ current = MaxIdle /\ MaxIdle <= n
        /\ \A s \in Slots : MaxIdle <= s /\ s < n => conns[s] = Nil
        /\ \A s \in Slots : s < current => conns[s] \in open
    BY <1>17 DEF ShrinkDelete, IInv, ControlInv, SlotInv, LockedPCs
  <2>4. \A u \in Threads : pc[u] \in LockedPCs => u = t
    BY <2>3 DEF IInv, ControlInv
  <2>5. \A s \in Slots : MaxIdle <= s /\ s < n + 1 => conns'[s] = Nil
    BY <2>1, <2>2, <2>3 DEF IInv, TypeOK, Slots
  <2>6. \A s \in Slots : s < current => conns'[s] \in open'
    <3> SUFFICES ASSUME NEW s \in Slots, s < current PROVE conns'[s] \in open'
      OBVIOUS
    <3>1. s # n
      BY <2>1, <2>3 DEF Slots
    <3>2. conns[s] # conns[n]
      BY <3>1, <2>1, <2>3 DEF IInv, TypeOK, OwnerInv, SlotsDistinct, Conns
    <3> QED
      BY <3>1, <3>2, <2>2, <2>3 DEF IInv, TypeOK
  <2> HIDE DEF n
  <2>7. i'[t] = n + 1 /\ MaxIdle <= n + 1
    BY <2>1, <2>2, <2>3 DEF IInv, TypeOK
  <2> QED
    BY <2>2, <2>3, <2>4, <2>5, <2>6, <2>7 DEF SlotInv, LockedPCs
<1>18. ASSUME NEW t \in Threads, ShrinkUnlock(t) PROVE SlotInv'
  BY <1>18
     DEF ShrinkUnlock, IInv, TypeOK, Goto, shared, GetPCs, ClosePCs, RestPCs,
         CountedPCs, LockedPCs, Slots, Conns, ResetOpen, ResetOnce,
         ControlInv, OwnerInv, SlotsDistinct, SlotsNotOnce, OnceHeld,
         OnceHeldAlone, HeldWhere, NoConnLeak, SlotInv, Filled
<1>19. ASSUME NEW t \in Threads, CloseReset(t) PROVE SlotInv'
  BY <1>19
     DEF CloseReset, IInv, TypeOK, Goto, shared, GetPCs, ClosePCs, RestPCs,
         CountedPCs, LockedPCs, Slots, Conns, ResetOpen, ResetOnce,
         ControlInv, OwnerInv, SlotsDistinct, SlotsNotOnce, OnceHeld,
         OnceHeldAlone, HeldWhere, NoConnLeak, SlotInv, Filled
<1>20. CASE PoolCloseMark
  BY <1>20
     DEF PoolCloseMark, IInv, TypeOK, Goto, shared, GetPCs, ClosePCs, RestPCs,
         CountedPCs, LockedPCs, Slots, Conns, ResetOpen, ResetOnce,
         ControlInv, OwnerInv, SlotsDistinct, SlotsNotOnce, OnceHeld,
         OnceHeldAlone, HeldWhere, NoConnLeak, SlotInv, Filled
<1>21. CASE PoolCloseCurrent
  BY <1>21
     DEF PoolCloseCurrent, IInv, TypeOK, Goto, shared, GetPCs, ClosePCs,
         RestPCs, CountedPCs, LockedPCs, Slots, Conns, ResetOpen, ResetOnce,
         ControlInv, OwnerInv, SlotsDistinct, SlotsNotOnce, OnceHeld,
         OnceHeldAlone, HeldWhere, NoConnLeak, SlotInv, Filled
<1>22. CASE PoolCloseRef
  BY <1>22
     DEF PoolCloseRef, IInv, TypeOK, Goto, shared, GetPCs, ClosePCs, RestPCs,
         CountedPCs, LockedPCs, Slots, Conns, ResetOpen, ResetOnce,
         ControlInv, OwnerInv, SlotsDistinct, SlotsNotOnce, OnceHeld,
         OnceHeldAlone, HeldWhere, NoConnLeak, SlotInv, Filled
<1>23. CASE PoolCloseDelete
  BY <1>23
     DEF PoolCloseDelete, IInv, TypeOK, Goto, shared, GetPCs, ClosePCs,
         RestPCs, CountedPCs, LockedPCs, Slots, Conns, ResetOpen, ResetOnce,
         ControlInv, OwnerInv, SlotsDistinct, SlotsNotOnce, OnceHeld,
         OnceHeldAlone, HeldWhere, NoConnLeak, SlotInv, Filled
<1>24. CASE UNCHANGED vars
  BY <1>24
     DEF vars, IInv, TypeOK, Goto, shared, GetPCs, ClosePCs, RestPCs,
         CountedPCs, LockedPCs, Slots, Conns, ResetOpen, ResetOnce,
         ControlInv, OwnerInv, SlotsDistinct, SlotsNotOnce, OnceHeld,
         OnceHeldAlone, HeldWhere, NoConnLeak, SlotInv, Filled
<1> QED
  BY <1>1, <1>2, <1>3, <1>4, <1>5, <1>6, <1>7, <1>8, <1>9, <1>10, <1>11,
     <1>12, <1>13, <1>14, <1>15, <1>16, <1>17, <1>18, <1>19, <1>20, <1>21,
     <1>22, <1>23, <1>24
     DEF Next, GetStep, CloseStep, PoolClose

(* What users rely on. *)
LEMMA UseStep == IInv /\ [Next]_vars => UseInv'
<1> SUFFICES ASSUME IInv, [Next]_vars PROVE UseInv'
  OBVIOUS
<1> USE OptionsAssumption, ModelAssumption
<1>1. ASSUME NEW t \in Threads, GetIncrRef(t) PROVE UseInv'
  BY <1>1
     DEF GetIncrRef, IInv, TypeOK, Goto, shared, GetPCs, ClosePCs, RestPCs,
         CountedPCs, LockedPCs, Slots, Conns, ResetOpen, ResetOnce,
         ControlInv, OwnerInv, SlotsDistinct, SlotsNotOnce, OnceHeld,
         OnceHeldAlone, HeldWhere, NoConnLeak, SlotInv, UseInv, RefInv
<1>2. ASSUME NEW t \in Threads, GetReadCurrent(t) PROVE UseInv'
  <2>1. PICK l \in {"failed", "pick", "onetime", "lock"} :
            /\ pc' = [pc EXCEPT ![t] = l]
            /\ cur' = [cur EXCEPT ![t] = IF l = "pick" THEN current ELSE 0]
            /\ leaked' = IF l = "failed" THEN leaked + 1 ELSE leaked
            /\ l # "failed" => current > 0
    BY <1>2, ReadCurrentFact
  <2>2. UNCHANGED <<shared, i, held, closer>> /\ pc[t] = "rlock" /\ writer = Nil
    BY <1>2 DEF GetReadCurrent
  <2> QED
    BY <2>1, <2>2
       DEF IInv, TypeOK, ControlInv, OwnerInv, SlotsNotOnce, SlotInv, UseInv,
           GetPCs, ClosePCs, RestPCs, CountedPCs, LockedPCs, shared, Slots
<1>3. ASSUME NEW t \in Threads, GetPick(t) PROVE UseInv'
  BY <1>3, SMTT(90)
     DEF GetPick, IInv, TypeOK, Goto, shared, GetPCs, ClosePCs, RestPCs,
         CountedPCs, LockedPCs, Slots, Conns, ResetOpen, ResetOnce,
         ControlInv, OwnerInv, SlotsDistinct, SlotsNotOnce, OnceHeld,
         OnceHeldAlone, HeldWhere, NoConnLeak, SlotInv, UseInv, RefInv
<1>4. ASSUME NEW t \in Threads, GetTake(t) PROVE UseInv'
  BY <1>4
     DEF GetTake, IInv, TypeOK, Goto, shared, GetPCs, ClosePCs, RestPCs,
         CountedPCs, LockedPCs, Slots, Conns, ResetOpen, ResetOnce,
         ControlInv, OwnerInv, SlotsDistinct, SlotsNotOnce, OnceHeld,
         OnceHeldAlone, HeldWhere, NoConnLeak, SlotInv, UseInv, RefInv
<1>5. ASSUME NEW t \in Threads, GetOneTime(t) PROVE UseInv'
  BY <1>5, SMTT(90)
     DEF GetOneTime, IInv, TypeOK, Goto, shared, GetPCs, ClosePCs, RestPCs,
         CountedPCs, LockedPCs, Slots, Conns, ResetOpen, ResetOnce,
         ControlInv, OwnerInv, SlotsDistinct, SlotsNotOnce, OnceHeld,
         OnceHeldAlone, HeldWhere, NoConnLeak, SlotInv, UseInv, RefInv
<1>6. ASSUME NEW t \in Threads, GetLock(t) PROVE UseInv'
  BY <1>6
     DEF GetLock, IInv, TypeOK, Goto, shared, GetPCs, ClosePCs, RestPCs,
         CountedPCs, LockedPCs, Slots, Conns, ResetOpen, ResetOnce,
         ControlInv, OwnerInv, SlotsDistinct, SlotsNotOnce, OnceHeld,
         OnceHeldAlone, HeldWhere, NoConnLeak, SlotInv, UseInv, RefInv
<1>7. ASSUME NEW t \in Threads, GetGrow(t) PROVE UseInv'
  <2> SUFFICES ASSUME ~closed PROVE UseInv'
    BY <1>7 DEF GetGrow, UseInv
  <2> DEFINE n == cur[t] + i[t]
  <2>3. n \in Slots
    BY <1>7, GrowSlot DEF GetGrow, IInv
  <2>4. current <= n /\ Filled(n) /\ cur[t] = current
    BY <1>7 DEF GetGrow, IInv, SlotInv, TypeOK
  <2>2. n \in Int /\ ~(n < n)
    BY <2>3 DEF Slots
  <2>5. conns[n] = Nil /\ Nil \notin open /\ Nil \notin once
    <3> HIDE DEF n
    <3> QED
      BY <2>3, <2>4, <2>2 DEF Filled, IInv, TypeOK, Conns
  <2>6. /\ conns' = [conns EXCEPT ![n] = Fresh]
        /\ open' = open \cup {Fresh}
        /\ once' = once
        /\ i' = [i EXCEPT ![t] = i[t] + 1]
        /\ UNCHANGED <<pc, held, closed, current, writer, cur>>
    BY <1>7, <2>5 DEF GetGrow, ResetOpen, ResetOnce
  <2>7. n + 1 = cur[t] + (i[t] + 1) /\ n \in Int
    BY DEF IInv, TypeOK
  <2> HIDE DEF n
  <2>8. \A s \in Slots : s < current => conns'[s] = conns[s]
    BY <2>3, <2>4, <2>6, <2>7 DEF IInv, TypeOK, Slots
  <2>9. pc[t] = "grow"
    BY <1>7 DEF GetGrow
  <2> QED
    BY <2>6, <2>8, <2>9 DEF IInv, TypeOK, UseInv
<1>8. ASSUME NEW t \in Threads, GetGrown(t) PROVE UseInv'
  BY <1>8
     DEF GetGrown, IInv, TypeOK, Goto, shared, GetPCs, ClosePCs, RestPCs,
         CountedPCs, LockedPCs, Slots, Conns, ResetOpen, ResetOnce,
         ControlInv, OwnerInv, SlotsDistinct, SlotsNotOnce, OnceHeld,
         OnceHeldAlone, HeldWhere, NoConnLeak, SlotInv, UseInv, RefInv
<1>9. ASSUME NEW t \in Threads, GetStore(t) PROVE UseInv'
  BY <1>9
     DEF GetStore, IInv, TypeOK, Goto, shared, GetPCs, ClosePCs, RestPCs,
         CountedPCs, LockedPCs, Slots, Conns, ResetOpen, ResetOnce,
         ControlInv, OwnerInv, SlotsDistinct, SlotsNotOnce, OnceHeld,
         OnceHeldAlone, HeldWhere, NoConnLeak, SlotInv, UseInv, RefInv
<1>10. ASSUME NEW t \in Threads, GetUnlock(t) PROVE UseInv'
  BY <1>10
     DEF GetUnlock, IInv, TypeOK, Goto, shared, GetPCs, ClosePCs, RestPCs,
         CountedPCs, LockedPCs, Slots, Conns, ResetOpen, ResetOnce,
         ControlInv, OwnerInv, SlotsDistinct, SlotsNotOnce, OnceHeld,
         OnceHeldAlone, HeldWhere, NoConnLeak, SlotInv, UseInv, RefInv
<1>11. ASSUME NEW t \in Threads, DropError(t) PROVE UseInv'
  BY <1>11
     DEF DropError, IInv, TypeOK, Goto, shared, GetPCs, ClosePCs, RestPCs,
         CountedPCs, LockedPCs, Slots, Conns, ResetOpen, ResetOnce,
         ControlInv, OwnerInv, SlotsDistinct, SlotsNotOnce, OnceHeld,
         OnceHeldAlone, HeldWhere, NoConnLeak, SlotInv, UseInv, RefInv
<1>12. ASSUME NEW t \in Threads, CloseDecrRef(t) PROVE UseInv'
  <2>1. PICK l \in {"load", "cancel"} :
            /\ pc' = [pc EXCEPT ![t] = l]
            /\ l = "cancel" /\ ~closed =>
                 leaked > 0 \/ \E u \in Threads : u # t /\ pc[u] \in CountedPCs
    BY <1>12, DecrRefFact
  <2>2. /\ pc[t] = "using"
        /\ UNCHANGED <<index, current, closed, conns, writer, open, once, nextRef,
                       cur, i, held, leaked, closer>>
    BY <1>12 DEF CloseDecrRef
  <2> QED
    BY <2>1, <2>2, SMTT(90)
       DEF IInv, TypeOK, ControlInv, OwnerInv, SlotsNotOnce, SlotInv, UseInv,
           GetPCs, ClosePCs, RestPCs, CountedPCs, LockedPCs, shared, Slots
<1>13. ASSUME NEW t \in Threads, CloseLoadCurrent(t) PROVE UseInv'
  BY <1>13
     DEF CloseLoadCurrent, IInv, TypeOK, Goto, shared, GetPCs, ClosePCs,
         RestPCs, CountedPCs, LockedPCs, Slots, Conns, ResetOpen, ResetOnce,
         ControlInv, OwnerInv, SlotsDistinct, SlotsNotOnce, OnceHeld,
         OnceHeldAlone, HeldWhere, NoConnLeak, SlotInv, UseInv, RefInv
<1>14. ASSUME NEW t \in Threads, ShrinkLock(t) PROVE UseInv'
  BY <1>14
     DEF ShrinkLock, IInv, TypeOK, Goto, shared, GetPCs, ClosePCs, RestPCs,
         CountedPCs, LockedPCs, Slots, Conns, ResetOpen, ResetOnce,
         ControlInv, OwnerInv, SlotsDistinct, SlotsNotOnce, OnceHeld,
         OnceHeldAlone, HeldWhere, NoConnLeak, SlotInv, UseInv, RefInv
<1>15. ASSUME NEW t \in Threads, ShrinkCheck(t) PROVE UseInv'
  <2>1. PICK l \in {"shrink", "shrinkUnlock"} :
            pc' = [pc EXCEPT ![t] = l] /\ (l = "shrink" => ref = 0)
    BY <1>15 DEF ShrinkCheck, Goto
  <2>2. UNCHANGED <<shared, cur, i, held, leaked>> /\ pc[t] = "check"
    BY <1>15 DEF ShrinkCheck
  <2>3. ~closed /\ ref = 0 => \A u \in Threads : pc[u] \notin CountedPCs
    BY UsersFact DEF IInv, TypeOK, RefInv, Users
  <2> QED
    BY <2>1, <2>2, <2>3
       DEF IInv, TypeOK, ControlInv, OwnerInv, SlotsNotOnce, SlotInv, UseInv,
           GetPCs, ClosePCs, RestPCs, CountedPCs, LockedPCs, shared, Slots
<1>16. ASSUME NEW t \in Threads, ShrinkStore(t) PROVE UseInv'
  BY <1>16
     DEF ShrinkStore, IInv, TypeOK, Goto, shared, GetPCs, ClosePCs, RestPCs,
         CountedPCs, LockedPCs, Slots, Conns, ResetOpen, ResetOnce,
         ControlInv, OwnerInv, SlotsDistinct, SlotsNotOnce, OnceHeld,
         OnceHeldAlone, HeldWhere, NoConnLeak, SlotInv, UseInv, RefInv
<1>17. ASSUME NEW t \in Threads, ShrinkDelete(t) PROVE UseInv'
  BY <1>17
     DEF ShrinkDelete, IInv, TypeOK, Goto, shared, GetPCs, ClosePCs, RestPCs,
         CountedPCs, LockedPCs, Slots, Conns, ResetOpen, ResetOnce,
         ControlInv, OwnerInv, SlotsDistinct, SlotsNotOnce, OnceHeld,
         OnceHeldAlone, HeldWhere, NoConnLeak, SlotInv, UseInv, RefInv
<1>18. ASSUME NEW t \in Threads, ShrinkUnlock(t) PROVE UseInv'
  BY <1>18
     DEF ShrinkUnlock, IInv, TypeOK, Goto, shared, GetPCs, ClosePCs, RestPCs,
         CountedPCs, LockedPCs, Slots, Conns, ResetOpen, ResetOnce,
         ControlInv, OwnerInv, SlotsDistinct, SlotsNotOnce, OnceHeld,
         OnceHeldAlone, HeldWhere, NoConnLeak, SlotInv, UseInv, RefInv
<1>19. ASSUME NEW t \in Threads, CloseReset(t) PROVE UseInv'
  BY <1>19
     DEF CloseReset, IInv, TypeOK, Goto, shared, GetPCs, ClosePCs, RestPCs,
         CountedPCs, LockedPCs, Slots, Conns, ResetOpen, ResetOnce,
         ControlInv, OwnerInv, SlotsDistinct, SlotsNotOnce, OnceHeld,
         OnceHeldAlone, HeldWhere, NoConnLeak, SlotInv, UseInv, RefInv
<1>20. CASE PoolCloseMark
  BY <1>20
     DEF PoolCloseMark, IInv, TypeOK, Goto, shared, GetPCs, ClosePCs, RestPCs,
         CountedPCs, LockedPCs, Slots, Conns, ResetOpen, ResetOnce,
         ControlInv, OwnerInv, SlotsDistinct, SlotsNotOnce, OnceHeld,
         OnceHeldAlone, HeldWhere, NoConnLeak, SlotInv, UseInv, RefInv
<1>21. CASE PoolCloseCurrent
  BY <1>21
     DEF PoolCloseCurrent, IInv, TypeOK, Goto, shared, GetPCs, ClosePCs,
         RestPCs, CountedPCs, LockedPCs, Slots, Conns, ResetOpen, ResetOnce,
         ControlInv, OwnerInv, SlotsDistinct, SlotsNotOnce, OnceHeld,
         OnceHeldAlone, HeldWhere, NoConnLeak, SlotInv, UseInv, RefInv
<1>22. CASE PoolCloseRef
  BY <1>22
     DEF PoolCloseRef, IInv, TypeOK, Goto, shared, GetPCs, ClosePCs, RestPCs,
         CountedPCs, LockedPCs, Slots, Conns, ResetOpen, ResetOnce,
         ControlInv, OwnerInv, SlotsDistinct, SlotsNotOnce, OnceHeld,
         OnceHeldAlone, HeldWhere, NoConnLeak, SlotInv, UseInv, RefInv
<1>23. CASE PoolCloseDelete
  BY <1>23
     DEF PoolCloseDelete, IInv, TypeOK, Goto, shared, GetPCs, ClosePCs,
         RestPCs, CountedPCs, LockedPCs, Slots, Conns, ResetOpen, ResetOnce,
         ControlInv, OwnerInv, SlotsDistinct, SlotsNotOnce, OnceHeld,
         OnceHeldAlone, HeldWhere, NoConnLeak, SlotInv, UseInv, RefInv
<1>24. CASE UNCHANGED vars
  BY <1>24
     DEF vars, IInv, TypeOK, Goto, shared, GetPCs, ClosePCs, RestPCs,
         CountedPCs, LockedPCs, Slots, Conns, ResetOpen, ResetOnce,
         ControlInv, OwnerInv, SlotsDistinct, SlotsNotOnce, OnceHeld,
         OnceHeldAlone, HeldWhere, NoConnLeak, SlotInv, UseInv, RefInv
<1> QED
  BY <1>1, <1>2, <1>3, <1>4, <1>5, <1>6, <1>7, <1>8, <1>9, <1>10, <1>11,
     <1>12, <1>13, <1>14, <1>15, <1>16, <1>17, <1>18, <1>19, <1>20, <1>21,
     <1>22, <1>23, <1>24
     DEF Next, GetStep, CloseStep, PoolClose

(* Oversized pools. *)
LEMMA ShrinkStep == IInv /\ [Next]_vars => ShrinkInv'
<1> SUFFICES ASSUME IInv, [Next]_vars PROVE ShrinkInv'
  OBVIOUS
<1> USE OptionsAssumption, ModelAssumption
<1>1. ASSUME NEW t \in Threads, GetIncrRef(t) PROVE ShrinkInv'
  BY <1>1
     DEF GetIncrRef, IInv, TypeOK, Goto, shared, GetPCs, ClosePCs, RestPCs,
         CountedPCs, LockedPCs, Slots, Conns, ResetOpen, ResetOnce,
         ControlInv, ShrinkInv, RefInv
<1>2. ASSUME NEW t \in Threads, GetReadCurrent(t) PROVE ShrinkInv'
  <2>1. PICK l \in {"failed", "pick", "onetime", "lock"} :
            /\ pc' = [pc EXCEPT ![t] = l]
            /\ cur' = [cur EXCEPT ![t] = IF l = "pick" THEN current ELSE 0]
            /\ leaked' = IF l = "failed" THEN leaked + 1 ELSE leaked
            /\ l # "failed" => current > 0
    BY <1>2, ReadCurrentFact
  <2>2. UNCHANGED <<shared, i, held, closer>> /\ pc[t] = "rlock" /\ writer = Nil
    BY <1>2 DEF GetReadCurrent
  <2> QED
    BY <2>1, <2>2 DEF IInv, TypeOK, ShrinkInv, GetPCs, CountedPCs, shared
<1>3. ASSUME NEW t \in Threads, GetPick(t) PROVE ShrinkInv'
  BY <1>3
     DEF GetPick, IInv, TypeOK, Goto, shared, GetPCs, ClosePCs, RestPCs,
         CountedPCs, LockedPCs, Slots, Conns, ResetOpen, ResetOnce,
         ControlInv, ShrinkInv, RefInv
<1>4. ASSUME NEW t \in Threads, GetTake(t) PROVE ShrinkInv'
  BY <1>4
     DEF GetTake, IInv, TypeOK, Goto, shared, GetPCs, ClosePCs, RestPCs,
         CountedPCs, LockedPCs, Slots, Conns, ResetOpen, ResetOnce,
         ControlInv, ShrinkInv, RefInv
<1>5. ASSUME NEW t \in Threads, GetOneTime(t) PROVE ShrinkInv'
  BY <1>5
     DEF GetOneTime, IInv, TypeOK, Goto, shared, GetPCs, ClosePCs, RestPCs,
         CountedPCs, LockedPCs, Slots, Conns, ResetOpen, ResetOnce,
         ControlInv, ShrinkInv, RefInv
<1>6. ASSUME NEW t \in Threads, GetLock(t) PROVE ShrinkInv'
  BY <1>6
     DEF GetLock, IInv, TypeOK, Goto, shared, GetPCs, ClosePCs, RestPCs,
         CountedPCs, LockedPCs, Slots, Conns, ResetOpen, ResetOnce,
         ControlInv, ShrinkInv, RefInv
<1>7. ASSUME NEW t \in Threads, GetGrow(t) PROVE ShrinkInv'
  BY <1>7
     DEF GetGrow, IInv, TypeOK, Goto, shared, GetPCs, ClosePCs, RestPCs,
         CountedPCs, LockedPCs, Slots, Conns, ResetOpen, ResetOnce,
         ControlInv, ShrinkInv, RefInv
<1>8. ASSUME NEW t \in Threads, GetGrown(t) PROVE ShrinkInv'
  BY <1>8
     DEF GetGrown, IInv, TypeOK, Goto, shared, GetPCs, ClosePCs, RestPCs,
         CountedPCs, LockedPCs, Slots, Conns, ResetOpen, ResetOnce,
         ControlInv, ShrinkInv, RefInv
<1>9. ASSUME NEW t \in Threads, GetStore(t) PROVE ShrinkInv'
  BY <1>9
     DEF GetStore, IInv, TypeOK, Goto, shared, GetPCs, ClosePCs, RestPCs,
         CountedPCs, LockedPCs, Slots, Conns, ResetOpen, ResetOnce,
         ControlInv, ShrinkInv, RefInv
<1>10. ASSUME NEW t \in Threads, GetUnlock(t) PROVE ShrinkInv'
  BY <1>10
     DEF GetUnlock, IInv, TypeOK, Goto, shared, GetPCs, ClosePCs, RestPCs,
         CountedPCs, LockedPCs, Slots, Conns, ResetOpen, ResetOnce,
         ControlInv, ShrinkInv, RefInv
<1>11. ASSUME NEW t \in Threads, DropError(t) PROVE ShrinkInv'
  BY <1>11
     DEF DropError, IInv, TypeOK, Goto, shared, GetPCs, ClosePCs, RestPCs,
         CountedPCs, LockedPCs, Slots, Conns, ResetOpen, ResetOnce,
         ControlInv, ShrinkInv, RefInv
<1>12. ASSUME NEW t \in Threads, CloseDecrRef(t) PROVE ShrinkInv'
  <2>1. PICK l \in {"load", "cancel"} :
            /\ pc' = [pc EXCEPT ![t] = l]
            /\ l = "cancel" /\ ~closed =>
                 leaked > 0 \/ \E u \in Threads : u # t /\ pc[u] \in CountedPCs
    BY <1>12, DecrRefFact
  <2>2. /\ pc[t] = "using"
        /\ UNCHANGED <<index, current, closed, conns, writer, open, once, nextRef,
                       cur, i, held, leaked, closer>>
    BY <1>12 DEF CloseDecrRef
  <2> QED
    BY <2>1, <2>2 DEF IInv, TypeOK, ShrinkInv, GetPCs, CountedPCs, shared
<1>13. ASSUME NEW t \in Threads, CloseLoadCurrent(t) PROVE ShrinkInv'
  BY <1>13
     DEF CloseLoadCurrent, IInv, TypeOK, Goto, shared, GetPCs, ClosePCs,
         RestPCs, CountedPCs, LockedPCs, Slots, Conns, ResetOpen, ResetOnce,
         ControlInv, ShrinkInv, RefInv
<1>14. ASSUME NEW t \in Threads, ShrinkLock(t) PROVE ShrinkInv'
  BY <1>14
     DEF ShrinkLock, IInv, TypeOK, Goto, shared, GetPCs, ClosePCs, RestPCs,
         CountedPCs, LockedPCs, Slots, Conns, ResetOpen, ResetOnce,
         ControlInv, ShrinkInv, RefInv
<1>15. ASSUME NEW t \in Threads, ShrinkCheck(t) PROVE ShrinkInv'
  <2>1. PICK l \in {"shrink", "shrinkUnlock"} :
            pc' = [pc EXCEPT ![t] = l] /\ (l = "shrinkUnlock" => ref # 0)
    BY <1>15 DEF ShrinkCheck, Goto
  <2>2. UNCHANGED <<shared, leaked>> /\ pc[t] = "check"
    BY <1>15 DEF ShrinkCheck
  <2>3. ~closed /\ ref # 0 => leaked > 0 \/ \E u \in Threads : pc[u] \in CountedPCs
    BY UsersFact DEF IInv, TypeOK, RefInv, Users
  <2> QED
    BY <2>1, <2>2, <2>3 DEF IInv, TypeOK, ShrinkInv, GetPCs, CountedPCs, shared
<1>16. ASSUME NEW t \in Threads, ShrinkStore(t) PROVE ShrinkInv'
  BY <1>16
     DEF ShrinkStore, IInv, TypeOK, Goto, shared, GetPCs, ClosePCs, RestPCs,
         CountedPCs, LockedPCs, Slots, Conns, ResetOpen, ResetOnce,
         ControlInv, ShrinkInv, RefInv
<1>17. ASSUME NEW t \in Threads, ShrinkDelete(t) PROVE ShrinkInv'
  BY <1>17
     DEF ShrinkDelete, IInv, TypeOK, Goto, shared, GetPCs, ClosePCs, RestPCs,
         CountedPCs, LockedPCs, Slots, Conns, ResetOpen, ResetOnce,
         ControlInv, ShrinkInv, RefInv
<1>18. ASSUME NEW t \in Threads, ShrinkUnlock(t) PROVE ShrinkInv'
  BY <1>18
     DEF ShrinkUnlock, IInv, TypeOK, Goto, shared, GetPCs, ClosePCs, RestPCs,
         CountedPCs, LockedPCs, Slots, Conns, ResetOpen, ResetOnce,
         ControlInv, ShrinkInv, RefInv
<1>19. ASSUME NEW t \in Threads, CloseReset(t) PROVE ShrinkInv'
  BY <1>19
     DEF CloseReset, IInv, TypeOK, Goto, shared, GetPCs, ClosePCs, RestPCs,
         CountedPCs, LockedPCs, Slots, Conns, ResetOpen, ResetOnce,
         ControlInv, ShrinkInv, RefInv
<1>20. CASE PoolCloseMark
  BY <1>20
     DEF PoolCloseMark, IInv, TypeOK, Goto, shared, GetPCs, ClosePCs, RestPCs,
         CountedPCs, LockedPCs, Slots, Conns, ResetOpen, ResetOnce,
         ControlInv, ShrinkInv, RefInv
<1>21. CASE PoolCloseCurrent
  BY <1>21
     DEF PoolCloseCurrent, IInv, TypeOK, Goto, shared, GetPCs, ClosePCs,
         RestPCs, CountedPCs, LockedPCs, Slots, Conns, ResetOpen, ResetOnce,
         ControlInv, ShrinkInv, RefInv
<1>22. CASE PoolCloseRef
  BY <1>22
     DEF PoolCloseRef, IInv, TypeOK, Goto, shared, GetPCs, ClosePCs, RestPCs,
         CountedPCs, LockedPCs, Slots, Conns, ResetOpen, ResetOnce,
         ControlInv, ShrinkInv, RefInv
<1>23. CASE PoolCloseDelete
  BY <1>23
     DEF PoolCloseDelete, IInv, TypeOK, Goto, shared, GetPCs, ClosePCs,
         RestPCs, CountedPCs, LockedPCs, Slots, Conns, ResetOpen, ResetOnce,
         ControlInv, ShrinkInv, RefInv
<1>24. CASE UNCHANGED vars
  BY <1>24
     DEF vars, IInv, TypeOK, Goto, shared, GetPCs, ClosePCs, RestPCs,
         CountedPCs, LockedPCs, Slots, Conns, ResetOpen, ResetOnce,
         ControlInv, ShrinkInv, RefInv
<1> QED
  BY <1>1, <1>2, <1>3, <1>4, <1>5, <1>6, <1>7, <1>8, <1>9, <1>10, <1>11,
     <1>12, <1>13, <1>14, <1>15, <1>16, <1>17, <1>18, <1>19, <1>20, <1>21,
     <1>22, <1>23, <1>24
     DEF Next, GetStep, CloseStep, PoolClose

(* The count of calls in flight. *)
LEMMA RefStep == IInv /\ [Next]_vars => RefInv'
<1> SUFFICES ASSUME IInv, [Next]_vars PROVE RefInv'
  OBVIOUS
<1> USE OptionsAssumption, ModelAssumption
<1>1. ASSUME NEW t \in Threads, GetIncrRef(t) PROVE RefInv'
  <2>1. CASE ref + 1 = MaxInt32
    <3>1. Cardinality(Users)' = Cardinality(Users)
      BY <1>1, <2>1, CountStep, UncountedFact DEF GetIncrRef, Goto, IInv
    <3> QED
      BY <1>1, <2>1, <3>1, UsersFact DEF GetIncrRef, IInv, RefInv, TypeOK
  <2>2. CASE ref + 1 # MaxInt32
    <3>1. Cardinality(Users)' = Cardinality(Users) + 1
      BY <1>1, <2>2, CountStep DEF GetIncrRef, Goto, IInv, CountedPCs, GetPCs
    <3> QED
      BY <1>1, <2>2, <3>1, UsersFact DEF GetIncrRef, IInv, RefInv, TypeOK
  <2> QED
    BY <2>1, <2>2
<1>2. ASSUME NEW t \in Threads, GetReadCurrent(t) PROVE RefInv'
  <2>1. PICK l \in {"failed", "pick", "onetime", "lock"} :
            /\ pc' = [pc EXCEPT ![t] = l]
            /\ leaked' = IF l = "failed" THEN leaked + 1 ELSE leaked
    BY <1>2, ReadCurrentFact
  <2>2. Cardinality(Users)' = IF l = "failed" THEN Cardinality(Users) - 1
                                            ELSE Cardinality(Users)
    BY <1>2, <2>1, CountStep DEF GetReadCurrent, IInv, CountedPCs, GetPCs
  <2> QED
    BY <1>2, <2>1, <2>2, UsersFact
       DEF GetReadCurrent, shared, IInv, RefInv, TypeOK
<1>3. ASSUME NEW t \in Threads, GetPick(t) PROVE RefInv'
  <2>1. Cardinality(Users)' = Cardinality(Users)
    BY <1>3, CountStep DEF GetPick, Goto, IInv, CountedPCs, GetPCs
  <2> QED
    BY <1>3, <2>1 DEF GetPick, shared, IInv, RefInv
<1>4. ASSUME NEW t \in Threads, GetTake(t) PROVE RefInv'
  <2>1. Cardinality(Users)' = Cardinality(Users)
    BY <1>4, CountStep DEF GetTake, Goto, IInv, CountedPCs, GetPCs
  <2> QED
    BY <1>4, <2>1 DEF GetTake, shared, IInv, RefInv
<1>5. ASSUME NEW t \in Threads, GetOneTime(t) PROVE RefInv'
  <2>1. CASE pc' = [pc EXCEPT ![t] = "using"] /\ leaked' = leaked
    <3>1. Cardinality(Users)' = Cardinality(Users)
      BY <1>5, <2>1, CountStep DEF GetOneTime, IInv, CountedPCs, GetPCs
    <3> QED
      BY <1>5, <2>1, <3>1 DEF GetOneTime, IInv, RefInv
  <2>2. CASE pc' = [pc EXCEPT ![t] = "failed"] /\ leaked' = leaked + 1
    <3>1. Cardinality(Users)' = Cardinality(Users) - 1
      <4>1. pc[t] \in CountedPCs /\ "failed" \notin CountedPCs
        BY <1>5, UncountedFact DEF GetOneTime, CountedPCs, GetPCs
      <4> QED
        BY <4>1, <2>2, CountStep DEF IInv
    <3> QED
      BY <1>5, <2>2, <3>1, UsersFact DEF GetOneTime, IInv, RefInv, TypeOK
  <2> QED
    BY <1>5, <2>1, <2>2 DEF GetOneTime, Goto
<1>6. ASSUME NEW t \in Threads, GetLock(t) PROVE RefInv'
  <2>1. Cardinality(Users)' = Cardinality(Users)
    BY <1>6, CountStep DEF GetLock, Goto, IInv, CountedPCs, GetPCs
  <2> QED
    BY <1>6, <2>1 DEF GetLock, shared, IInv, RefInv
<1>7. ASSUME NEW t \in Threads, GetGrow(t) PROVE RefInv'
  BY <1>7 DEF GetGrow, IInv, RefInv, Users
<1>8. ASSUME NEW t \in Threads, GetGrown(t) PROVE RefInv'
  <2>1. Cardinality(Users)' = Cardinality(Users)
    BY <1>8, CountStep DEF GetGrown, Goto, IInv, CountedPCs, GetPCs
  <2> QED
    BY <1>8, <2>1 DEF GetGrown, shared, IInv, RefInv
<1>9. ASSUME NEW t \in Threads, GetStore(t) PROVE RefInv'
  <2>1. Cardinality(Users)' = Cardinality(Users)
    BY <1>9, CountStep DEF GetStore, Goto, IInv, CountedPCs, GetPCs
  <2> QED
    BY <1>9, <2>1 DEF GetStore, shared, IInv, RefInv
<1>10. ASSUME NEW t \in Threads, GetUnlock(t) PROVE RefInv'
  <2>1. CASE pc' = [pc EXCEPT ![t] = "pick"] /\ leaked' = leaked
    <3>1. Cardinality(Users)' = Cardinality(Users)
      BY <1>10, <2>1, CountStep DEF GetUnlock, IInv, CountedPCs, GetPCs
    <3> QED
      BY <1>10, <2>1, <3>1 DEF GetUnlock, IInv, RefInv
  <2>2. CASE pc' = [pc EXCEPT ![t] = "failed"] /\ leaked' = leaked + 1
    <3>1. Cardinality(Users)' = Cardinality(Users) - 1
      <4>1. pc[t] \in CountedPCs /\ "failed" \notin CountedPCs
        BY <1>10, UncountedFact DEF GetUnlock, CountedPCs, GetPCs
      <4> QED
        BY <4>1, <2>2, CountStep DEF IInv
    <3> QED
      BY <1>10, <2>2, <3>1, UsersFact DEF GetUnlock, IInv, RefInv, TypeOK
  <2> QED
    BY <1>10, <2>1, <2>2 DEF GetUnlock, Goto
<1>11. ASSUME NEW t \in Threads, DropError(t) PROVE RefInv'
  <2>1. Cardinality(Users)' = Cardinality(Users)
    BY <1>11, CountStep, UncountedFact DEF DropError, Goto, IInv
  <2> QED
    BY <1>11, <2>1 DEF DropError, shared, IInv, RefInv
<1>12. ASSUME NEW t \in Threads, CloseDecrRef(t) PROVE RefInv'
  <2>1. PICK l \in {"load", "cancel"} : pc' = [pc EXCEPT ![t] = l]
    BY <1>12, DecrRefFact
  <2>2. Cardinality(Users)' = Cardinality(Users) - 1
    BY <1>12, <2>1, CountStep DEF CloseDecrRef, IInv, CountedPCs, GetPCs
  <2> QED
    BY <1>12, <2>2, UsersFact DEF CloseDecrRef, IInv, RefInv, TypeOK
<1>13. ASSUME NEW t \in Threads, CloseLoadCurrent(t) PROVE RefInv'
  <2>1. Cardinality(Users)' = Cardinality(Users)
    BY <1>13, CountStep, UncountedFact DEF CloseLoadCurrent, Goto, IInv
  <2> QED
    BY <1>13, <2>1 DEF CloseLoadCurrent, shared, IInv, RefInv
<1>14. ASSUME NEW t \in Threads, ShrinkLock(t) PROVE RefInv'
  <2>1. Cardinality(Users)' = Cardinality(Users)
    BY <1>14, CountStep, UncountedFact DEF ShrinkLock, Goto, IInv
  <2> QED
    BY <1>14, <2>1 DEF ShrinkLock, shared, IInv, RefInv
<1>15. ASSUME NEW t \in Threads, ShrinkCheck(t) PROVE RefInv'
  <2>1. Cardinality(Users)' = Cardinality(Users)
    BY <1>15, CountStep, UncountedFact DEF ShrinkCheck, Goto, IInv
  <2> QED
    BY <1>15, <2>1 DEF ShrinkCheck, shared, IInv, RefInv
<1>16. ASSUME NEW t \in Threads, ShrinkStore(t) PROVE RefInv'
  <2>1. Cardinality(Users)' = Cardinality(Users)
    BY <1>16, CountStep, UncountedFact DEF ShrinkStore, Goto, IInv
  <2> QED
    BY <1>16, <2>1 DEF ShrinkStore, shared, IInv, RefInv
<1>17. ASSUME NEW t \in Threads, ShrinkDelete(t) PROVE RefInv'
  BY <1>17 DEF ShrinkDelete, IInv, RefInv, Users
<1>18. ASSUME NEW t \in Threads, ShrinkUnlock(t) PROVE RefInv'
  <2>1. Cardinality(Users)' = Cardinality(Users)
    BY <1>18, CountStep, UncountedFact DEF ShrinkUnlock, Goto, IInv
  <2> QED
    BY <1>18, <2>1 DEF ShrinkUnlock, shared, IInv, RefInv
<1>19. ASSUME NEW t \in Threads, CloseReset(t) PROVE RefInv'
  <2>1. Cardinality(Users)' = Cardinality(Users)
    BY <1>19, CountStep, UncountedFact DEF CloseReset, Goto, IInv
  <2> QED
    BY <1>19, <2>1 DEF CloseReset, shared, IInv, RefInv
<1>20. CASE PoolCloseMark
  BY <1>20 DEF PoolCloseMark, IInv, ControlInv, RefInv, Users
<1>21. CASE PoolCloseCurrent
  BY <1>21 DEF PoolCloseCurrent, IInv, ControlInv, RefInv, Users
<1>22. CASE PoolCloseRef
  BY <1>22 DEF PoolCloseRef, IInv, ControlInv, RefInv, Users
<1>23. CASE PoolCloseDelete
  BY <1>23 DEF PoolCloseDelete, IInv, ControlInv, RefInv, Users
<1>24. CASE UNCHANGED vars
  BY <1>24 DEF vars, IInv, RefInv, Users
<1> QED
  BY <1>1, <1>2, <1>3, <1>4, <1>5, <1>6, <1>7, <1>8, <1>9, <1>10, <1>11,
     <1>12, <1>13, <1>14, <1>15, <1>16, <1>17, <1>18, <1>19, <1>20, <1>21,
     <1>22, <1>23, <1>24
     DEF Next, GetStep, CloseStep, PoolClose

(* The state NewPool returns satisfies the invariant.                      *)
LEMMA InitIInv == Init => IInv
<1> SUFFICES ASSUME Init PROVE IInv
  OBVIOUS
<1> USE OptionsAssumption, ModelAssumption
<1>1. TypeOK
  <2>1. conns \in [Slots -> Conns \cup {Nil}] /\ open \in SUBSET Conns
    BY DEF Init, Slots, Conns
  <2>2. /\ nextRef \in [Threads -> Int] /\ cur \in [Threads -> 0 .. MaxActive]
        /\ i \in [Threads -> 0 .. MaxActive] /\ held \in [Threads -> Conns \cup {Nil}]
    BY DEF Init
  <2>3. pc \in [Threads -> GetPCs \cup ClosePCs \cup RestPCs]
    BY DEF Init, RestPCs
  <2>4. index \in 0 .. IndexMod - 1 /\ current \in 0 .. MaxActive
    BY DEF Init
  <2>5. /\ ref \in Int /\ writer \in Threads \cup {Nil} /\ once \in SUBSET Conns
        /\ leaked \in Nat /\ closer \in {"open", "current", "ref", "delete", "done"}
    BY DEF Init
  <2>6. closed \in BOOLEAN
    BY DEF Init
  <2> QED
    BY <2>1, <2>2, <2>3, <2>4, <2>5, <2>6 DEF TypeOK
<1>2. ControlInv /\ ShrinkInv
  BY DEF Init, ControlInv, ShrinkInv, GetPCs, LockedPCs
<1>3. OwnerInv
  <2>1. NoConnLeak
    BY DEF Init, NoConnLeak, Slots
  <2> QED
    BY <2>1
       DEF Init, OwnerInv, SlotsDistinct, SlotsNotOnce, OnceHeld,
           OnceHeldAlone,
                HeldWhere, Slots, Conns
<1>4. SlotInv /\ UseInv
  BY DEF Init, SlotInv, UseInv, Filled, Slots
<1>5. RefInv
  <2>1. Users = {}
    BY DEF Init, Users, CountedPCs, GetPCs
  <2> QED
    BY <2>1, FS_EmptySet DEF Init, RefInv
<1> QED
  BY <1>1, <1>2, <1>3, <1>4, <1>5 DEF IInv

(* IInv is an invariant of the pool for every number of goroutines, every  *)
(* option NewPool accepts, and with or without pool.Close overlapping with *)
(* conn.Close.                                                             *)
THEOREM Invariance == Spec => []IInv
<1>1. IInv /\ [Next]_vars => IInv'
  BY TypeStep, ControlStep, OwnerStep, SlotStep, UseStep, ShrinkStep, RefStep
     DEF IInv
<1> QED
  BY InitIInv, <1>1, PTL DEF Spec

(* Every variable keeps its type; current and the loops over conns stay    *)
(* within MaxActive.                                                       *)
THEOREM TypeCorrect == Spec => []TypeOK
<1>1. IInv => TypeOK
  BY DEF IInv
<1> QED
  BY Invariance, <1>1, PTL

(* A connection that Get handed out is not closed under its user by a      *)
(* shrink or a grow (pool.go:183-198, 244-273).                            *)
THEOREM HandedOutStaysLive == Spec => []HandedOutLive
<1>1. IInv => HandedOutLive
  BY DEF IInv, UseInv, HandedOutLive
<1> QED
  BY Invariance, <1>1, PTL

(* ref is the number of calls in flight plus the number of failed Gets,    *)
(* and decrRef never panics on an open pool.                               *)
THEOREM RefIsAccounted == Spec => []RefAccounting
<1>1. IInv => RefAccounting
  BY DEF IInv, RefInv, ControlInv, RefAccounting
<1> QED
  BY Invariance, <1>1, PTL

(* With the lock free, the slots below current and only they hold live,    *)
(* distinct connections.                                                   *)
THEOREM SlotsAlwaysMatch == Spec => []SlotsMatchCurrent
<1>1. IInv => SlotsMatchCurrent
  BY DEF IInv, SlotInv, OwnerInv, SlotsDistinct, Filled, SlotsMatchCurrent
<1> QED
  BY Invariance, <1>1, PTL

(* No open connection is ever out of reach of both the pool and a user.    *)
THEOREM NoConnIsLeaked == Spec => []NoConnLeak
<1>1. IInv => NoConnLeak
  BY DEF IInv, OwnerInv
<1> QED
  BY Invariance, <1>1, PTL

(* A pool without users and without failed Gets is back at MaxIdle.        *)
THEOREM QuiescentIsShrunk == Spec => []QuiescentShrunk
<1>1. IInv => QuiescentShrunk
  BY OptionsAssumption
     DEF IInv, TypeOK, ShrinkInv, SlotInv, QuiescentShrunk, CountedPCs, GetPCs
<1> QED
  BY Invariance, <1>1, PTL

=============================================================================

------------------------------ MODULE GrpcPool ------------------------------
(***************************************************************************)
(* The gRPC client connection pool of rpcx/pool (pool.go, conn.go).        *)
(*                                                                         *)
(* Goroutines (Threads) call Get, use the connection and Close it; one     *)
(* further actor may call the pool's Close.  Every shared access that Go   *)
(* makes atomic on its own (an atomic load, store or add, a read of a slot *)
(* of conns, an iteration of a loop under the lock) is a step of its own,  *)
(* so that the model has every interleaving the code has.                  *)
(*                                                                         *)
(* A definition whose comment begins with "Faulty:" is no part of the      *)
(* specification: it is the definition after it with one plausible bug, to *)
(* show that a property notices the bug.                                   *)
(***************************************************************************)
EXTENDS Integers, FiniteSets

CONSTANTS
    Threads,                \* goroutines that use the pool
    NumConns,               \* identities of *conn objects (re-used once garbage)
    Nil,                    \* a nil *conn, or no thread
    MaxIdle, MaxActive,     \* Options.MaxIdle, Options.MaxActive
    MaxConcurrentStreams,   \* Options.MaxConcurrentStreams
    Reuse,                  \* Options.Reuse
    IndexMod,               \* the width of index: 2^32 in the code
    MaxInt32,               \* the largest value of ref: 2^31 - 1 in the code
    MaxErrors,              \* bound: Gets that may fail
    CloseDuringConnClose    \* may pool.Close overlap with a conn.Close?

(* NewPool (144-149) rejects every other option.                           *)
ASSUME OptionsAssumption ==
    /\ MaxIdle \in Nat \ {0}
    /\ MaxActive \in Nat \ {0}
    /\ MaxIdle <= MaxActive
    /\ MaxConcurrentStreams \in Nat \ {0}
    /\ Reuse \in BOOLEAN

ASSUME ModelAssumption ==
    /\ IsFiniteSet(Threads)
    /\ NumConns \in Nat
    /\ MaxActive <= NumConns
    /\ Nil \notin 0 .. NumConns - 1
    /\ Nil \notin Threads
    /\ IndexMod \in Nat \ {0}
    /\ MaxInt32 \in Nat
    /\ MaxErrors \in Nat
    /\ CloseDuringConnClose \in BOOLEAN

VARIABLES
    index,      \* pool.index
    current,    \* pool.current
    ref,        \* pool.ref
    closed,     \* pool.closed # 0
    conns,      \* pool.conns
    writer,     \* holder of the write lock of pool.RWMutex, or Nil
    open,       \* conn objects whose cc is a live *grpc.ClientConn
    once,       \* conn objects whose once flag is set
    pc,         \* where each thread is
    nextRef,    \* Get's local nextRef
    cur,        \* Get's local current
    i,          \* the loop counter (grow, deleteFrom) or next (Get)
    held,       \* the conn the thread got from Get
    leaked,     \* history: Gets that raised ref and handed out no connection
    closer      \* where the caller of pool.Close is

shared == <<index, current, ref, closed, conns, writer, open, once>>
vars == <<index, current, ref, closed, conns, writer, open, once,
          pc, nextRef, cur, i, held, leaked, closer>>

Slots == 0 .. MaxActive - 1
Conns == 0 .. NumConns - 1

Min2(a, b) == IF a <= b THEN a ELSE b

(* Program points, by the call they belong to.                             *)
GetPCs   == {"rlock", "pick", "take", "onetime", "lock", "grow", "store",
             "storeErr", "unlock", "unlockErr"}
ClosePCs == {"load", "shrinkLock", "check", "shrink", "delete", "shrinkUnlock",
             "cancel"}
RestPCs  == {"idle", "using", "failed", "overflow", "negative"}

(* A thread whose increment of ref is still outstanding.                   *)
CountedPCs == GetPCs \cup {"using"}
(* The steps that run with the write lock held.                            *)
LockedPCs == {"grow", "store", "storeErr", "unlock", "unlockErr", "check",
              "shrink", "delete", "shrinkUnlock"}

Users == {t \in Threads : pc[t] \in CountedPCs}

(* Conn objects that nothing refers to; wrapConn returns one of these.     *)
FreshConns == Conns \ ({conns[s] : s \in Slots} \cup {held[t] : t \in Threads})
Fresh == CHOOSE c \in FreshConns : TRUE

(* The state NewPool returns: MaxIdle connections, all dialled (151-169).  *)
Init ==
    /\ index = 0
    /\ current = MaxIdle
    /\ ref = 0
    /\ closed = FALSE
    /\ conns = [s \in Slots |-> IF s < MaxIdle THEN s ELSE Nil]
    /\ writer = Nil
    /\ open = 0 .. MaxIdle - 1
    /\ once = {}
    /\ pc = [t \in Threads |-> "idle"]
    /\ nextRef = [t \in Threads |-> 0]
    /\ cur = [t \in Threads |-> 0]
    /\ i = [t \in Threads |-> 0]
    /\ held = [t \in Threads |-> Nil]
    /\ leaked = 0
    /\ closer = "open"

Goto(t, label) == pc' = [pc EXCEPT ![t] = label]

-----------------------------------------------------------------------------
(* Get *)

(* pool.go:47 forbids Get during Close; a Get after Close is allowed.      *)
GetIncrRef(t) ==
    /\ pc[t] = "idle"
    /\ closer \in {"open", "done"}
    /\ closer = "done" => leaked < MaxErrors
    /\ ref' = ref + 1
    /\ nextRef' = [nextRef EXCEPT ![t] = ref + 1]
    /\ Goto(t, IF ref + 1 = MaxInt32 THEN "overflow" ELSE "rlock")
    /\ leaked' = IF ref + 1 = MaxInt32 THEN leaked + 1 ELSE leaked
    /\ UNCHANGED <<index, current, closed, conns, writer, open, once, cur, i,
                   held, closer>>

(* Which of its four cases Get takes when it has read c as current.        *)
GetCase(t, c) ==
    CASE c = 0 -> "failed"
      [] c # 0 /\ nextRef[t] <= c * MaxConcurrentStreams -> "pick"
      [] c # 0 /\ nextRef[t] > c * MaxConcurrentStreams /\ c = MaxActive ->
            IF Reuse THEN "pick" ELSE "onetime"
      [] OTHER -> "lock"

(* RLock, load current, RUnlock: one step, since the read lock excludes    *)
(* only the writer.  current = 0 returns ErrClosed and keeps the ref.      *)
(* Here and below a local variable goes back to 0 after its last use.      *)
GetReadCurrent(t) ==
    /\ pc[t] = "rlock"
    /\ writer = Nil
    /\ Goto(t, GetCase(t, current))
    /\ cur' = [cur EXCEPT ![t] = IF GetCase(t, current) = "pick"
                                 THEN current ELSE 0]
    /\ nextRef' = [nextRef EXCEPT ![t] = IF GetCase(t, current) = "lock"
                                         THEN nextRef[t] ELSE 0]
    /\ leaked' = IF current = 0 THEN leaked + 1 ELSE leaked
    /\ UNCHANGED <<shared, i, held, closer>>

(* next := AddUint32(&index, 1) % current                                  *)
GetPick(t) ==
    /\ pc[t] = "pick"
    /\ index' = (index + 1) % IndexMod
    /\ i' = [i EXCEPT ![t] = ((index + 1) % IndexMod) % cur[t]]
    /\ cur' = [cur EXCEPT ![t] = 0]
    /\ Goto(t, "take")
    /\ UNCHANGED <<current, ref, closed, conns, writer, open, once, nextRef,
                   held, leaked, closer>>

(* return p.conns[next], nil                                               *)
GetTake(t) ==
    /\ pc[t] = "take"
    /\ held' = [held EXCEPT ![t] = conns[i[t]]]
    /\ i' = [i EXCEPT ![t] = 0]
    /\ Goto(t, "using")
    /\ UNCHANGED <<shared, nextRef, cur, leaked, closer>>

(* c, err := p.NewClientConn(); return p.wrapConn(c, true), err : a conn   *)
(* object is returned in both cases, around a nil client if the dial fails.*)
GetOneTime(t) ==
    /\ pc[t] = "onetime"
    /\ FreshConns # {}
    /\ held' = [held EXCEPT ![t] = Fresh]
    /\ once' = once \cup {Fresh}
    /\ \/ /\ open' = open \cup {Fresh}
          /\ Goto(t, "using")
          /\ UNCHANGED leaked
       \/ /\ leaked < MaxErrors
          /\ Goto(t, "failed")
          /\ leaked' = leaked + 1
          /\ UNCHANGED open
    /\ UNCHANGED <<index, current, ref, closed, conns, writer, nextRef, cur,
                   i, closer>>

(* Lock, load current again, and test again whether the pool must grow.    *)
GetLock(t) ==
    /\ pc[t] = "lock"
    /\ writer = Nil
    /\ writer' = t
    /\ cur' = [cur EXCEPT ![t] = current]
    /\ nextRef' = [nextRef EXCEPT ![t] = 0]
    /\ Goto(t, IF /\ current < MaxActive
                  /\ nextRef[t] > current * MaxConcurrentStreams
               THEN "grow" ELSE "unlock")
    /\ UNCHANGED <<index, current, ref, closed, conns, open, once, i, held,
                   leaked, closer>>

(* 2 times the current connections, or up to MaxActive.                    *)
Increment(c) == Min2(c, MaxActive - c)

(* p.reset(n): close what is in slot n, if anything, and empty the slot.   *)
ResetOpen(n) == open \ {conns[n]}
ResetOnce(n) == once \ {conns[n]}

(* One iteration of the grow loop whose dial succeeds.                     *)
GetGrow(t) ==
    /\ pc[t] = "grow"
    /\ i[t] < Increment(cur[t])
    /\ FreshConns # {}
    /\ conns' = [conns EXCEPT ![cur[t] + i[t]] = Fresh]
    /\ open' = ResetOpen(cur[t] + i[t]) \cup {Fresh}
    /\ once' = ResetOnce(cur[t] + i[t])
    /\ i' = [i EXCEPT ![t] = i[t] + 1]
    /\ UNCHANGED <<index, current, ref, closed, writer, pc, nextRef, cur, held,
                   leaked, closer>>

(* The end of the loop: all dialled, or a dial failed; current += i.       *)
GetGrown(t) ==
    /\ pc[t] = "grow"
    /\ \/ /\ i[t] = Increment(cur[t])
          /\ Goto(t, "store")
       \/ /\ i[t] < Increment(cur[t])
          /\ leaked < MaxErrors
          /\ Goto(t, "storeErr")
    /\ cur' = [cur EXCEPT ![t] = cur[t] + i[t]]
    /\ i' = [i EXCEPT ![t] = 0]
    /\ UNCHANGED <<shared, nextRef, held, leaked, closer>>

(* atomic.StoreInt32(&p.current, current)                                  *)
GetStore(t) ==
    /\ pc[t] \in {"store", "storeErr"}
    /\ current' = cur[t]
    /\ Goto(t, IF pc[t] = "store" THEN "unlock" ELSE "unlockErr")
    /\ UNCHANGED <<index, ref, closed, conns, writer, open, once, nextRef, cur,
                   i, held, leaked, closer>>

(* Faulty: the error return forgets to unlock.                             *)
GetUnlockForgotten(t) ==
    /\ pc[t] \in {"unlock", "unlockErr"}
    /\ writer' = IF pc[t] = "unlock" THEN Nil ELSE writer
    /\ Goto(t, IF pc[t] = "unlock" THEN "pick" ELSE "failed")
    /\ cur' = [cur EXCEPT ![t] = IF pc[t] = "unlock" THEN cur[t] ELSE 0]
    /\ leaked' = IF pc[t] = "unlock" THEN leaked ELSE leaked + 1
    /\ UNCHANGED <<index, current, ref, closed, conns, open, once, nextRef, i,
                   held, closer>>

(* Unlock; then select a connection, or return nil, err and keep the ref.  *)
GetUnlock(t) ==
    /\ pc[t] \in {"unlock", "unlockErr"}
    /\ writer' = Nil
    /\ Goto(t, IF pc[t] = "unlock" THEN "pick" ELSE "failed")
    /\ cur' = [cur EXCEPT ![t] = IF pc[t] = "unlock" THEN cur[t] ELSE 0]
    /\ leaked' = IF pc[t] = "unlock" THEN leaked ELSE leaked + 1
    /\ UNCHANGED <<index, current, ref, closed, conns, open, once, nextRef, i,
                   held, closer>>

(* grpcx.go:597 : a caller that is given an error returns and drops conn.  *)
DropError(t) ==
    /\ pc[t] = "failed"
    /\ held' = [held EXCEPT ![t] = Nil]
    /\ once' = once \ {held[t]}
    /\ Goto(t, "idle")
    /\ UNCHANGED <<index, current, ref, closed, conns, writer, open, nextRef,
                   cur, i, leaked, closer>>

-----------------------------------------------------------------------------
(* conn.Close and decrRef *)

(* pool.Close may overlap with a conn.Close only if the constant says so.  *)
ConnCloseAllowed == CloseDuringConnClose \/ closer \in {"open", "done"}

(* newRef := AddInt32(&ref, -1); a negative ref of an open pool panics.    *)
CloseDecrRef(t) ==
    /\ pc[t] = "using"
    /\ ConnCloseAllowed
    /\ ref' = ref - 1
    /\ Goto(t, CASE ref - 1 < 0 /\ ~closed -> "negative"
                 [] ref - 1 = 0 -> "load"
                 [] OTHER -> "cancel")
    /\ UNCHANGED <<index, current, closed, conns, writer, open, once, nextRef,
                   cur, i, held, leaked, closer>>

(* Faulty: off by one in the test whether to shrink.                       *)
CloseLoadCurrentOffByOne(t) ==
    /\ pc[t] = "load"
    /\ Goto(t, IF current > MaxIdle + 1 THEN "shrinkLock" ELSE "cancel")
    /\ UNCHANGED <<shared, nextRef, cur, i, held, leaked, closer>>

(* LoadInt32(&current) > MaxIdle, without the lock                         *)
CloseLoadCurrent(t) ==
    /\ pc[t] = "load"
    /\ Goto(t, IF current > MaxIdle THEN "shrinkLock" ELSE "cancel")
    /\ UNCHANGED <<shared, nextRef, cur, i, held, leaked, closer>>

ShrinkLock(t) ==
    /\ pc[t] = "shrinkLock"
    /\ writer = Nil
    /\ writer' = t
    /\ Goto(t, "check")
    /\ UNCHANGED <<index, current, ref, closed, conns, open, once, nextRef, cur,
                   i, held, leaked, closer>>

(* Faulty: trusts the ref it saw before it had the lock.                   *)
ShrinkCheckStale(t) ==
    /\ pc[t] = "check"
    /\ Goto(t, "shrink")
    /\ UNCHANGED <<shared, nextRef, cur, i, held, leaked, closer>>

(* Still unused?  ref is read, then current is stored: two steps.          *)
ShrinkCheck(t) ==
    /\ pc[t] = "check"
    /\ Goto(t, IF ref = 0 THEN "shrink" ELSE "shrinkUnlock")
    /\ UNCHANGED <<shared, nextRef, cur, i, held, leaked, closer>>

ShrinkStore(t) ==
    /\ pc[t] = "shrink"
    /\ current' = MaxIdle
    /\ i' = [i EXCEPT ![t] = MaxIdle]
    /\ Goto(t, "delete")
    /\ UNCHANGED <<index, ref, closed, conns, writer, open, once, nextRef, cur,
                   held, leaked, closer>>

(* Faulty: empties the slot without closing what was in it.                *)
ShrinkDeleteNoReset(t) ==
    /\ pc[t] = "delete"
    /\ i[t] < MaxActive
    /\ conns' = [conns EXCEPT ![i[t]] = Nil]
    /\ i' = [i EXCEPT ![t] = i[t] + 1]
    /\ UNCHANGED <<index, current, ref, closed, writer, open, once, pc, nextRef,
                   cur, held, leaked, closer>>

(* One iteration of deleteFrom(MaxIdle)                                    *)
ShrinkDelete(t) ==
    /\ pc[t] = "delete"
    /\ i[t] < MaxActive
    /\ open' = ResetOpen(i[t])
    /\ once' = ResetOnce(i[t])
    /\ conns' = [conns EXCEPT ![i[t]] = Nil]
    /\ i' = [i EXCEPT ![t] = i[t] + 1]
    /\ UNCHANGED <<index, current, ref, closed, writer, pc, nextRef, cur, held,
                   leaked, closer>>

ShrinkUnlock(t) ==
    /\ \/ pc[t] = "shrinkUnlock"
       \/ pc[t] = "delete" /\ i[t] = MaxActive
    /\ writer' = Nil
    /\ i' = [i EXCEPT ![t] = 0]
    /\ Goto(t, "cancel")
    /\ UNCHANGED <<index, current, ref, closed, conns, open, once, nextRef, cur,
                   held, leaked, closer>>

(* The rest of conn.Close: a one-time connection is closed, a pooled one   *)
(* stays open.  (Its contextCancel touches no state of the pool.)          *)
CloseReset(t) ==
    /\ pc[t] = "cancel"
    /\ open' = IF held[t] \in once THEN open \ {held[t]} ELSE open
    /\ once' = once \ {held[t]}
    /\ held' = [held EXCEPT ![t] = Nil]
    /\ Goto(t, "idle")
    /\ UNCHANGED <<index, current, ref, closed, conns, writer, nextRef, cur, i,
                   leaked, closer>>

-----------------------------------------------------------------------------
(* pool.Close: four unlocked stores, then deleteFrom(0).                   *)

PoolCloseMark ==
    /\ closer = "open"
    /\ \A t \in Threads :
          pc[t] \in RestPCs \cup (IF CloseDuringConnClose THEN ClosePCs ELSE {})
    /\ closed' = TRUE
    /\ closer' = "current"
    /\ UNCHANGED <<index, current, ref, conns, writer, open, once, pc, nextRef,
                   cur, i, held, leaked>>

PoolCloseCurrent ==
    /\ closer = "current"
    /\ index' = 0
    /\ current' = 0
    /\ closer' = "ref"
    /\ UNCHANGED <<ref, closed, conns, writer, open, once, pc, nextRef, cur, i,
                   held, leaked>>

PoolCloseRef ==
    /\ closer = "ref"
    /\ ref' = 0
    /\ closer' = "delete"
    /\ UNCHANGED <<index, current, closed, conns, writer, open, once, pc,
                   nextRef, cur, i, held, leaked>>

PoolCloseDelete ==
    /\ closer = "delete"
    /\ open' = open \ {conns[s] : s \in Slots}
    /\ once' = once \ {conns[s] : s \in Slots}
    /\ conns' = [s \in Slots |-> Nil]
    /\ closer' = "done"
    /\ UNCHANGED <<index, current, ref, closed, writer, pc, nextRef, cur, i,
                   held, leaked>>

-----------------------------------------------------------------------------
GetStep(t) ==
    \/ GetReadCurrent(t) \/ GetPick(t) \/ GetTake(t) \/ GetOneTime(t)
    \/ GetLock(t) \/ GetGrow(t) \/ GetGrown(t) \/ GetStore(t)
    \/ GetUnlock(t) \/ DropError(t)

CloseStep(t) ==
    \/ CloseLoadCurrent(t) \/ ShrinkLock(t) \/ ShrinkCheck(t)
    \/ ShrinkStore(t) \/ ShrinkDelete(t) \/ ShrinkUnlock(t) \/ CloseReset(t)

PoolClose ==
    PoolCloseMark \/ PoolCloseCurrent \/ PoolCloseRef \/ PoolCloseDelete

Next ==
    \/ \E t \in Threads :
          GetIncrRef(t) \/ GetStep(t) \/ CloseDecrRef(t) \/ CloseStep(t)
    \/ PoolClose

Spec == Init /\ [][Next]_vars

(* A goroutine inside Get or Close keeps running.  Strong fairness for the *)
(* lock: Go's RWMutex hands the lock over in bounded time (a waiting       *)
(* writer blocks later readers, a starving one is served first).           *)
FairSpec ==
    /\ Spec
    /\ \A t \in Threads : SF_vars(GetStep(t)) /\ SF_vars(CloseStep(t))

-----------------------------------------------------------------------------
(* Properties *)

(* Every variable keeps its type; in particular current never exceeds      *)
(* MaxActive and no loop runs past the end of conns.                       *)
TypeOK ==
    /\ index \in 0 .. IndexMod - 1
    /\ current \in 0 .. MaxActive
    /\ ref \in Int
    /\ closed \in BOOLEAN
    /\ conns \in [Slots -> Conns \cup {Nil}]
    /\ writer \in Threads \cup {Nil}
    /\ open \in SUBSET Conns
    /\ once \in SUBSET Conns
    /\ pc \in [Threads -> GetPCs \cup ClosePCs \cup RestPCs]
    /\ nextRef \in [Threads -> Int]
    /\ cur \in [Threads -> 0 .. MaxActive]
    /\ i \in [Threads -> 0 .. MaxActive]
    /\ held \in [Threads -> Conns \cup {Nil}]
    /\ leaked \in Nat
    /\ closer \in {"open", "current", "ref", "delete", "done"}

(* Until the pool is closed, a connection that Get handed out stays live   *)
(* for as long as its user has not called Close on it: no shrink (decrRef  *)
(* 188-197) and no grow (reset, 261) ever closes or empties it, in any     *)
(* interleaving of the unlocked reads of ref, current and conns.           *)
HandedOutLive ==
    ~closed => \A t \in Threads : pc[t] = "using" => held[t] \in open

(* Over all the ways through grow, shrink, one-time connections and failed *)
(* dials, ref is never below the number of calls and connections in use (a *)
(* lower one would let decrRef shrink under a user, or panic with          *)
(* "negative ref", 185), and it is above it only by one for each Get that  *)
(* failed.  That surplus is a defect of its own: RefCountsUse.             *)
RefAccounting ==
    /\ ~closed => ref = Cardinality(Users) + leaked
    /\ \A t \in Threads : pc[t] # "negative"

(* ref is "the using logic connection of pool" (pool.go:62): when no call  *)
(* is in progress, it is the number of connections that are held.          *)
RefCountsUse ==
    ~closed /\ (\A t \in Threads : pc[t] \in {"idle", "using"})
        => ref = Cardinality({t \in Threads : pc[t] = "using"})

(* Whenever nobody holds the lock, exactly the slots below current hold a  *)
(* connection, all distinct and live: also after a grow of which a dial    *)
(* failed half way (257-271) and after a shrink.                           *)
SlotsMatchCurrent ==
    ~closed /\ writer = Nil =>
        /\ \A s \in Slots : IF s < current THEN conns[s] \in open
                                           ELSE conns[s] = Nil
        /\ \A r, s \in Slots : conns[r] = conns[s] /\ r # s => conns[r] = Nil

(* No physical connection is lost: what is open is in a slot, where Close  *)
(* finds it, or held by the one user whose conn.Close will close it.       *)
NoConnLeak ==
    \A c \in open :
        \/ \E s \in Slots : conns[s] = c
        \/ c \in once /\ \E t \in Threads : held[t] = c

(* When no call is in flight and no Get has failed, the pool has shrunk to *)
(* MaxIdle: of the goroutines that race through decrRef, one always does   *)
(* the shrink, although each tests current and ref before it has the lock. *)
QuiescentShrunk ==
    /\ ~closed
    /\ leaked = 0
    /\ \A t \in Threads : pc[t] = "idle"
    => current = MaxIdle

(* Every Get returns a connection or an error, and every conn.Close        *)
(* returns, whatever the other goroutines do with the lock.                *)
CallsReturn ==
    \A t \in Threads :
        /\ pc[t] \in GetPCs ~> pc[t] \in {"using", "failed"}
        /\ pc[t] \in ClosePCs ~> pc[t] = "idle"

-----------------------------------------------------------------------------
(* The inductive invariant behind HandedOutLive, RefAccounting,            *)
(* SlotsMatchCurrent, NoConnLeak and QuiescentShrunk.                      *)

(* Local variables and the lock, whether the pool is closed or not.        *)
ControlInv ==
    /\ closer # "open" <=> closed
    /\ closer \notin {"open", "done"} => \A t \in Threads : pc[t] \notin GetPCs
    /\ \A t \in Threads :
        /\ pc[t] \in LockedPCs => writer = t
        /\ pc[t] \notin {"take", "grow", "delete"} => i[t] = 0
        /\ pc[t] = "take" => i[t] < MaxActive
        /\ pc[t] = "grow" => i[t] <= Increment(cur[t])
        /\ pc[t] \in {"pick", "grow", "store", "storeErr", "unlock"} => cur[t] > 0
        /\ pc[t] \in GetPCs \ {"rlock"} => current > 0
        /\ pc[t] # "negative"

(* Who owns a conn object: one slot, or the one user of a one-time conn.   *)
SlotsDistinct == \A r, s \in Slots : conns[r] = conns[s] /\ r # s => conns[r] = Nil
SlotsNotOnce == \A s \in Slots : conns[s] \notin once
OnceHeld == \A c \in once : \E t \in Threads : held[t] = c
OnceHeldAlone ==
    \A t, u \in Threads : held[t] = held[u] /\ held[t] \in once => t = u
HeldWhere ==
    \A t \in Threads :
        /\ pc[t] \in GetPCs \cup {"idle", "overflow"} => held[t] = Nil
        /\ pc[t] = "failed" => held[t] \notin open
OwnerInv ==
    /\ SlotsDistinct
    /\ SlotsNotOnce
    /\ OnceHeld
    /\ OnceHeldAlone
    /\ HeldWhere
    /\ NoConnLeak

(* The slots below n hold live connections and the others none.            *)
Filled(n) ==
    \A s \in Slots : IF s < n THEN conns[s] \in open ELSE conns[s] = Nil

(* The slots of an open pool, also while the lock is held.                 *)
SlotInv ==
    ~closed =>
      /\ MaxIdle <= current
      /\ \A s \in Slots : s < current => conns[s] \in open
      /\ writer = Nil => Filled(current)
      /\ \A t \in Threads :
          /\ pc[t] \in {"unlock", "unlockErr", "check", "shrink", "shrinkUnlock"}
                => Filled(current)
          /\ pc[t] = "unlock" => cur[t] = current
          /\ pc[t] = "grow" => cur[t] = current /\ Filled(cur[t] + i[t])
          /\ pc[t] \in {"store", "storeErr"} => Filled(cur[t]) /\ current <= cur[t]
          /\ pc[t] = "delete" =>
                /\ current = MaxIdle
                /\ MaxIdle <= i[t]
                /\ \A s \in Slots : MaxIdle <= s /\ s < i[t] => conns[s] = Nil

(* What a thread inside Get, or a user, may rely on; and why a shrink      *)
(* cannot take it away: a Get that raised ref after the check of ref still *)
(* waits for the read lock.                                                *)
UseInv ==
    ~closed => \A t \in Threads :
        /\ pc[t] = "pick" => cur[t] <= current
        /\ pc[t] = "take" => i[t] < current
        /\ pc[t] = "using" =>
              /\ held[t] \in open
              /\ held[t] \in once \/ \E s \in Slots : s < current /\ held[t] = conns[s]
        /\ pc[t] \in {"shrink", "delete"} =>
              \A u \in Threads : pc[u] \in CountedPCs => pc[u] = "rlock"

(* An oversized pool has a user, has lost a ref, or has someone on the way *)
(* to shrink it.                                                           *)
ShrinkInv ==
    ~closed /\ MaxIdle < current =>
        \/ leaked > 0
        \/ \E t \in Threads :
              pc[t] \in CountedPCs \cup {"load", "shrinkLock", "check", "shrink"}

RefInv == ~closed => ref = Cardinality(Users) + leaked

IInv == TypeOK /\ ControlInv /\ OwnerInv /\ SlotInv /\ UseInv /\ ShrinkInv /\ RefInv

=============================================================================

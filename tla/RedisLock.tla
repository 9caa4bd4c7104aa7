------------------------------ MODULE RedisLock ------------------------------
(***************************************************************************)
(* The lease locks of cache/redis_lock.go: SpinLockWithTimeout, which      *)
(* waits on a pub/sub channel for the lock to be released, and             *)
(* TryLockWithTimeout, which does not wait; with RedisManager.Subscribe    *)
(* and the connections both take from the redigo pool.  Redis itself is    *)
(* external: a key with a time to live, an atomic unlock script, and a     *)
(* channel that reaches whoever is subscribed when a message is published. *)
(*                                                                         *)
(* Time is counted down: a tick ages every key and every waiting receive,  *)
(* and may happen between any two steps, so call() can outlast the lease.  *)
(***************************************************************************)
EXTENDS Integers, Sequences, FiniteSets

CONSTANTS
    Clients,        \* callers of the two lock functions
    Resources,      \* what is locked; all share one channel
    None,           \* no token, no resource
    Tokens,         \* lock tokens (NextSID); re-used once forgotten
    ExpSecond,      \* lease, in ticks
    TrySecond,      \* patience of one receive, in ticks
    MaxActive,      \* redis.Pool.MaxActive
    MaxErrors,      \* bound: commands that fail
    MaxPending      \* bound: nobody starts while a channel buffer is this full

(* checkParameters (redis_lock.go:103-108), in ticks.                      *)
ASSUME LockAssumption ==
    /\ ExpSecond \in Nat \ {0}
    /\ TrySecond \in 1 .. ExpSecond
    /\ MaxActive \in Nat
    /\ MaxErrors \in Nat
    /\ MaxPending \in Nat
    /\ None \notin Tokens
    /\ None \notin Resources

VARIABLES
    store,      \* Redis: the token under each lock key, None if absent
    ttl,        \* Redis: ticks until the key expires
    queue,      \* Redis: messages on their way to each subscriber
    pc,         \* where each client is
    spin,       \* is it in SpinLockWithTimeout?
    res,        \* the resource it locks
    token,      \* the token of its Lock object
    conns,      \* its connections from the pool: "lock", "sub"
    broken,     \* its lock connection only returns errors
    wait,       \* ticks left of the current ReceiveWithTimeout
    errors,     \* commands that failed so far
    expired,    \* history: the lease ran out while it believed to hold the lock
    unheard     \* history: the lock was released with no message for it

vars == <<store, ttl, queue, pc, spin, res, token, conns, broken, wait, errors,
          expired, unheard>>

local == <<spin, res>>

ConnNames == {"lock", "sub"}
WaitPCs   == {"subscribe", "receive", "retry"}
HoldPCs   == {"call", "unlock"}
PCs       == {"idle", "set", "crashed"} \cup WaitPCs \cup HoldPCs

Subscribers == {c \in Clients : "sub" \in conns[c]}

(* utils.NextSID is unique within a process, and a token is drawn for each *)
(* SET, so across processes two equal ones would be of the same            *)
(* millisecond: no key and no client has this token.                       *)
FreshTokens == Tokens \ ({store[r] : r \in Resources} \cup {token[c] : c \in Clients})
NextSID == CHOOSE k \in FreshTokens : TRUE

(* redis.Pool.Get : beyond MaxActive it returns a connection that fails.   *)
InUse == Cardinality({p \in Clients \X ConnNames : p[2] \in conns[p[1]]})
PoolHasRoom == InUse < MaxActive

Init ==
    /\ store = [r \in Resources |-> None]
    /\ ttl = [r \in Resources |-> 0]
    /\ queue = [c \in Clients |-> <<>>]
    /\ pc = [c \in Clients |-> "idle"]
    /\ spin = [c \in Clients |-> FALSE]
    /\ res = [c \in Clients |-> None]
    /\ token = [c \in Clients |-> None]
    /\ conns = [c \in Clients |-> {}]
    /\ broken = [c \in Clients |-> FALSE]
    /\ wait = [c \in Clients |-> 0]
    /\ errors = 0
    /\ expired = [c \in Clients |-> FALSE]
    /\ unheard = [c \in Clients |-> FALSE]

Goto(c, label) == pc' = [pc EXCEPT ![c] = label]

(* The call returns to its caller: its connections go back to the pool.    *)
Return(c) ==
    /\ Goto(c, "idle")
    /\ conns' = [conns EXCEPT ![c] = {}]
    /\ spin' = [spin EXCEPT ![c] = FALSE]
    /\ res' = [res EXCEPT ![c] = None]
    /\ token' = [token EXCEPT ![c] = None]
    /\ broken' = [broken EXCEPT ![c] = FALSE]
    /\ queue' = [queue EXCEPT ![c] = <<>>]
    /\ wait' = [wait EXCEPT ![c] = 0]
    /\ expired' = [expired EXCEPT ![c] = FALSE]
    /\ unheard' = [unheard EXCEPT ![c] = FALSE]

-----------------------------------------------------------------------------
(* SpinLockWithTimeout and TryLockWithTimeout take a connection.           *)
Begin(c, r, s) ==
    /\ pc[c] = "idle"
    /\ \A d \in Clients : Len(queue[d]) < MaxPending
    /\ Goto(c, "set")
    /\ spin' = [spin EXCEPT ![c] = s]
    /\ res' = [res EXCEPT ![c] = r]
    /\ conns' = [conns EXCEPT ![c] = IF PoolHasRoom THEN {"lock"} ELSE {}]
    /\ broken' = [broken EXCEPT ![c] = ~PoolHasRoom]
    /\ UNCHANGED <<store, ttl, queue, token, wait, errors, expired, unheard>>

(* SET key token EX exp NX                                                 *)
StoreToken(c, k) ==
    /\ store' = [store EXCEPT ![res[c]] = k]
    /\ ttl' = [ttl EXCEPT ![res[c]] = ExpSecond]

(* Faulty: SET without NX.                                                 *)
SetOKWithoutNX(c) ==
    /\ pc[c] \in {"set", "retry"}
    /\ ~broken[c]
    /\ FreshTokens # {}
    /\ token' = [token EXCEPT ![c] = NextSID]
    /\ StoreToken(c, NextSID)
    /\ conns' = [conns EXCEPT ![c] = {"lock"}]
    /\ queue' = [queue EXCEPT ![c] = <<>>]
    /\ wait' = [wait EXCEPT ![c] = 0]
    /\ expired' = [expired EXCEPT ![c] = FALSE]
    /\ unheard' = [unheard EXCEPT ![c] = FALSE]
    /\ Goto(c, "call")
    /\ UNCHANGED <<spin, res, broken, errors>>

(* tryLock succeeds: call() begins.  In the callback of Subscribe this     *)
(* also ends Subscribe, which closes its connection.                       *)
SetOK(c) ==
    /\ pc[c] \in {"set", "retry"}
    /\ ~broken[c]
    /\ store[res[c]] = None
    /\ FreshTokens # {}
    /\ token' = [token EXCEPT ![c] = NextSID]
    /\ StoreToken(c, NextSID)
    /\ conns' = [conns EXCEPT ![c] = {"lock"}]
    /\ queue' = [queue EXCEPT ![c] = <<>>]
    /\ wait' = [wait EXCEPT ![c] = 0]
    /\ expired' = [expired EXCEPT ![c] = FALSE]
    /\ unheard' = [unheard EXCEPT ![c] = FALSE]
    /\ Goto(c, "call")
    /\ UNCHANGED <<spin, res, broken, errors>>

(* tryLock fails, held or not: a spinning client goes on to Subscribe, or  *)
(* stays in it and receives again; the other returns an error.             *)
NotAcquired(c) ==
    \/ /\ spin[c]
       /\ Goto(c, IF pc[c] = "set" THEN "subscribe" ELSE "receive")
       /\ wait' = [wait EXCEPT ![c] = IF pc[c] = "set" THEN 0 ELSE TrySecond]
       /\ UNCHANGED <<spin, res, conns, queue>>
    \/ ~spin[c] /\ Return(c)

(* The key exists (ErrNil).  The new Lock object has a token that is       *)
(* stored nowhere.                                                         *)
SetPending(c) ==
    /\ pc[c] \in {"set", "retry"}
    /\ ~broken[c]
    /\ store[res[c]] # None
    /\ NotAcquired(c)
    /\ spin[c] => /\ token' = [token EXCEPT ![c] = None]
                  /\ unheard' = [unheard EXCEPT ![c] = FALSE]
                  /\ UNCHANGED <<broken, expired>>
    /\ UNCHANGED <<store, ttl, errors>>

(* SET fails: the connection was dead, or breaks now; in the latter case   *)
(* Redis may have executed the command.                                    *)
SetError(c) ==
    /\ pc[c] \in {"set", "retry"}
    /\ \/ /\ broken[c]
          /\ UNCHANGED <<store, ttl, errors>>
       \/ /\ ~broken[c]
          /\ errors < MaxErrors
          /\ errors' = errors + 1
          /\ \/ UNCHANGED <<store, ttl>>
             \/ /\ store[res[c]] = None
                /\ FreshTokens # {}
                /\ StoreToken(c, NextSID)
    /\ NotAcquired(c)
    /\ spin[c] => /\ token' = [token EXCEPT ![c] = None]
                  /\ broken' = [broken EXCEPT ![c] = TRUE]
                  /\ unheard' = [unheard EXCEPT ![c] = TRUE]
                  /\ UNCHANGED expired

(* Subscribe: a second connection, SUBSCRIBE, the first receive.  Without  *)
(* a connection SpinLockWithTimeout returns its timeout error.             *)
Subscribe(c) ==
    /\ pc[c] = "subscribe"
    /\ \/ /\ PoolHasRoom
          /\ conns' = [conns EXCEPT ![c] = @ \cup {"sub"}]
          /\ wait' = [wait EXCEPT ![c] = TrySecond]
          /\ Goto(c, "receive")
          /\ UNCHANGED <<queue, spin, res, token, broken, expired, unheard, errors>>
       \/ ~PoolHasRoom /\ Return(c) /\ UNCHANGED errors
       \/ /\ PoolHasRoom
          /\ errors < MaxErrors
          /\ errors' = errors + 1
          /\ Return(c)
    /\ UNCHANGED <<store, ttl>>

(* A message: of another resource, and the receive starts over with the    *)
(* full timeout; of this one, and the callback tries to lock again.        *)
Receive(c) ==
    /\ pc[c] = "receive"
    /\ queue[c] # <<>>
    /\ queue' = [queue EXCEPT ![c] = Tail(@)]
    /\ IF Head(queue[c]) = res[c]
       THEN Goto(c, "retry") /\ wait' = [wait EXCEPT ![c] = 0]
       ELSE UNCHANGED pc /\ wait' = [wait EXCEPT ![c] = TrySecond]
    /\ UNCHANGED <<store, ttl, local, token, conns, broken, errors, expired,
                   unheard>>

(* Faulty: a timeout starts the next receive.                              *)
ReceiveTimeoutRetries(c) ==
    /\ pc[c] = "receive"
    /\ queue[c] = <<>>
    /\ wait[c] = 0
    /\ wait' = [wait EXCEPT ![c] = TrySecond]
    /\ UNCHANGED <<store, ttl, queue, pc, local, token, conns, broken, errors,
                   expired, unheard>>

(* Nothing came in time: both connections are closed, the error returned.  *)
ReceiveTimeout(c) ==
    /\ pc[c] = "receive"
    /\ queue[c] = <<>>
    /\ wait[c] = 0
    /\ Return(c)
    /\ UNCHANGED <<store, ttl, errors>>

(* The connection of Subscribe breaks while it waits.                      *)
ReceiveError(c) ==
    /\ pc[c] = "receive"
    /\ errors < MaxErrors
    /\ errors' = errors + 1
    /\ Return(c)
    /\ UNCHANGED <<store, ttl>>

(* call() returns, or panics: then unlock is not reached.                  *)
CallReturns(c) ==
    /\ pc[c] = "call"
    /\ Goto(c, "unlock")
    /\ UNCHANGED <<store, ttl, queue, local, token, conns, broken, wait, errors,
                   expired, unheard>>

CallPanics(c) ==
    /\ pc[c] = "call"
    /\ errors < MaxErrors
    /\ errors' = errors + 1
    /\ Goto(c, "crashed")
    /\ UNCHANGED <<store, ttl, queue, local, token, conns, broken, wait,
                   expired, unheard>>

(* What a release of r leaves unheard: by all who wait for r but are not   *)
(* among those it is announced to.                                         *)
Unheard(r, announced) ==
    [c \in Clients |-> IF pc[c] \in WaitPCs /\ res[c] = r /\ c \notin announced
                       THEN TRUE ELSE unheard[c]]

(* Faulty: deletes the key without comparing the token.                    *)
RunUnlockScriptNoCompare(c) ==
    LET announced == IF spin[c] THEN Subscribers \ {c} ELSE {}
    IN  /\ store' = [store EXCEPT ![res[c]] = None]
        /\ ttl' = [ttl EXCEPT ![res[c]] = 0]
        /\ queue' = [d \in Clients |-> IF d \in announced
                                       THEN Append(queue[d], res[c]) ELSE queue[d]]
        /\ unheard' = [Unheard(res[c], announced) EXCEPT ![c] = FALSE]

(* Faulty: publishes only when it found the key gone.                      *)
RunUnlockScriptElsePublish(c) ==
    LET announced == IF spin[c] THEN Subscribers \ {c} ELSE {}
    IN  IF store[res[c]] = token[c]
        THEN /\ store' = [store EXCEPT ![res[c]] = None]
             /\ ttl' = [ttl EXCEPT ![res[c]] = 0]
             /\ unheard' = [Unheard(res[c], announced) EXCEPT ![c] = FALSE]
             /\ UNCHANGED queue
        ELSE /\ queue' = [d \in Clients |-> IF d \in announced
                                            THEN Append(queue[d], res[c])
                                            ELSE queue[d]]
             /\ UNCHANGED <<store, ttl, unheard>>

(* unlockScript: compare, delete, publish, in one step on the server.      *)
RunUnlockScript(c) ==
    LET announced == IF spin[c] THEN Subscribers \ {c} ELSE {}
    IN  IF store[res[c]] = token[c]
        THEN /\ store' = [store EXCEPT ![res[c]] = None]
             /\ ttl' = [ttl EXCEPT ![res[c]] = 0]
             /\ queue' = [d \in Clients |-> IF d \in announced
                                            THEN Append(queue[d], res[c])
                                            ELSE queue[d]]
             /\ unheard' = [Unheard(res[c], announced) EXCEPT ![c] = FALSE]
        ELSE UNCHANGED <<store, ttl, queue, unheard>>

(* unlock: the script, whose error is only logged, and the connection is   *)
(* closed.                                                                 *)
Unlock(c) ==
    /\ pc[c] = "unlock"
    /\ \/ RunUnlockScript(c) /\ UNCHANGED errors
       \/ /\ errors < MaxErrors
          /\ errors' = errors + 1
          /\ UNCHANGED <<store, ttl, queue, unheard>>
    /\ Goto(c, "idle")
    /\ conns' = [conns EXCEPT ![c] = {}]
    /\ spin' = [spin EXCEPT ![c] = FALSE]
    /\ res' = [res EXCEPT ![c] = None]
    /\ token' = [token EXCEPT ![c] = None]
    /\ expired' = [expired EXCEPT ![c] = FALSE]
    /\ UNCHANGED <<broken, wait>>

(* Time passes: keys expire, silently, and receives run out of patience.   *)
Tick ==
    LET gone == {r \in Resources : store[r] # None /\ ttl[r] = 1}
    IN  /\ \/ \E r \in Resources : ttl[r] > 0
           \/ \E c \in Clients : wait[c] > 0
        /\ ttl' = [r \in Resources |-> IF ttl[r] > 0 THEN ttl[r] - 1 ELSE 0]
        /\ store' = [r \in Resources |-> IF r \in gone THEN None ELSE store[r]]
        /\ wait' = [c \in Clients |-> IF wait[c] > 0 THEN wait[c] - 1 ELSE 0]
        /\ expired' = [c \in Clients |->
              expired[c] \/ /\ pc[c] \in HoldPCs
                            /\ res[c] \in gone
                            /\ store[res[c]] = token[c]]
        /\ unheard' = [c \in Clients |->
              unheard[c] \/ (pc[c] \in WaitPCs /\ res[c] \in gone)]
        /\ UNCHANGED <<queue, pc, local, token, conns, broken, errors>>

-----------------------------------------------------------------------------
ClientStep(c) ==
    \/ SetOK(c) \/ SetPending(c) \/ SetError(c)
    \/ Subscribe(c) \/ Receive(c) \/ ReceiveTimeout(c)
    \/ Unlock(c)

Next ==
    \/ \E c \in Clients :
          \/ \E r \in Resources, s \in BOOLEAN : Begin(c, r, s)
          \/ ClientStep(c) \/ ReceiveError(c) \/ CallReturns(c) \/ CallPanics(c)
    \/ Tick

Spec == Init /\ [][Next]_vars

(* Time passes, and a client that can take a step of the lock functions    *)
(* takes it; nothing is assumed of how long call() runs.                   *)
Fairness == WF_vars(Tick) /\ \A c \in Clients : WF_vars(ClientStep(c))

-----------------------------------------------------------------------------
(* Properties *)

(* Every variable keeps its type.                                          *)
TypeOK ==
    /\ store \in [Resources -> Tokens \cup {None}]
    /\ ttl \in [Resources -> 0 .. ExpSecond]
    /\ queue \in [Clients -> Seq(Resources)]
    /\ pc \in [Clients -> PCs]
    /\ spin \in [Clients -> BOOLEAN]
    /\ res \in [Clients -> Resources \cup {None}]
    /\ token \in [Clients -> Tokens \cup {None}]
    /\ conns \in [Clients -> SUBSET ConnNames]
    /\ broken \in [Clients -> BOOLEAN]
    /\ wait \in [Clients -> 0 .. TrySecond]
    /\ errors \in Nat
    /\ expired \in [Clients -> BOOLEAN]
    /\ unheard \in [Clients -> BOOLEAN]

(* Two clients run call() for one resource only if the lease of one of     *)
(* them has run out: whatever the order of SETs, retries, late unlocks of  *)
(* expired holders and failed commands.                                    *)
MutualExclusion ==
    \A c, d \in Clients :
        c # d /\ pc[c] = "call" /\ pc[d] = "call" /\ res[c] = res[d]
            => expired[c] \/ expired[d]

(* A lock key only disappears when its lease ends or when the client that  *)
(* stored its token unlocks: a client whose lease ran out never deletes    *)
(* the lock of its successor (the compare in unlockScript, 18).            *)
OnlyOwnerReleases ==
    [][\A r \in Resources :
          store[r] # None /\ store'[r] # store[r] =>
              \/ ttl[r] = 1 /\ ttl'[r] = 0
              \/ \E c \in Clients : /\ pc[c] = "unlock" /\ pc'[c] = "idle"
                                    /\ token[c] = store[r]]_vars

(* A waiter with no message on its way, although the lock is free, missed  *)
(* a release that was never announced to it (the lease expired, a TryLock  *)
(* released it, or the release came between its failed SET and its         *)
(* SUBSCRIBE, or a command failed): no announced release is ever lost.     *)
WakeupDelivered ==
    \A c \in Clients :
        /\ pc[c] = "receive"
        /\ store[res[c]] = None
        /\ \A n \in 1 .. Len(queue[c]) : queue[c][n] # res[c]
        => unheard[c]

(* A connection is back in the pool when its call is over, on every path,  *)
(* and the second one already when call() begins.                          *)
ConnsReturned ==
    \A c \in Clients :
        /\ pc[c] = "idle" => conns[c] = {}
        /\ pc[c] \in HoldPCs => conns[c] = {"lock"}

(* A waiter to which no further message comes stops waiting: it gets the   *)
(* lock or the timeout error.  (Each message, also one of another          *)
(* resource, starts its patience anew, so no more than this holds.)        *)
WaiterReturns ==
    \A c \in Clients :
        <>[](queue[c] = <<>>) => []<>(pc[c] \notin WaitPCs)

-----------------------------------------------------------------------------
(* The inductive invariant.                                                *)

ResSet == \A c \in Clients : pc[c] # "idle" => res[c] \in Resources

(* Until its lease ends, the key of a holder's resource has its token.     *)
HolderOwns ==
    \A c \in Clients : pc[c] \in HoldPCs =>
        /\ token[c] # None
        /\ ~expired[c] => store[res[c]] = token[c]

TokensDiffer ==
    \A c, d \in Clients : c # d /\ token[c] = token[d] => token[c] = None

(* The second connection is open exactly while its client is subscribed.   *)
SubFollows ==
    \A c \in Clients :
        /\ "sub" \in conns[c] <=> pc[c] \in {"receive", "retry"}
        /\ "sub" \notin conns[c] => queue[c] = <<>>

Announced(c) == \E n \in 1 .. Len(queue[c]) : queue[c][n] = res[c]

(* WakeupDelivered, and its counterpart before the subscription.           *)
Notified ==
    \A c \in Clients :
        pc[c] \in {"subscribe", "receive"} /\ store[res[c]] = None =>
            Announced(c) \/ unheard[c]

IInv ==
    /\ TypeOK /\ ResSet /\ HolderOwns /\ TokensDiffer
    /\ ConnsReturned /\ SubFollows /\ Notified

=============================================================================

-------------------------- MODULE GracefulListener --------------------------
(***************************************************************************)
(* node/listener.go: a net.Listener that counts its open connections, so   *)
(* that Close can wait until the last of them is closed.                   *)
(*                                                                         *)
(* One goroutine accepts, the handler of each connection closes it (any    *)
(* number of times), and Closers call Close.  Every atomic operation is a  *)
(* step; closing `done' a second time is a panic and ends the process.     *)
(***************************************************************************)
EXTENDS Integers, FiniteSets

CONSTANTS
    Conns,      \* connections that clients open
    Closers     \* goroutines that call Close

ASSUME ConnsAssumption == IsFiniteSet(Conns)

VARIABLES
    lnClosed,   \* the inner listener is closed
    count,      \* connsCount
    shutdown,   \* shutdown
    done,       \* times done was closed; 2 is the panic
    conn,       \* each connection, see ConnStates
    dec,        \* closeConn: the value its atomic decrement returned
    pc          \* where each call of Close is

listenerVars == <<lnClosed, count, shutdown, done, conn, dec, pc>>

(* "accepted" by the inner listener but not yet counted; "open"; being     *)
(* closed with the count still to be lowered ("closing") or the shutdown   *)
(* flag still to be read ("lowered"); "stuck" after a Close that failed.   *)
ConnStates == {"none", "accepted", "open", "closing", "lowered", "closed", "stuck"}

Counted == {c \in Conns : conn[c] \in {"open", "closing", "stuck"}}
Running == done < 2

InitListener ==
    /\ lnClosed = FALSE
    /\ count = 0 /\ shutdown = 0 /\ done = 0
    /\ conn = [c \in Conns |-> "none"]
    /\ dec = [c \in Conns |-> 0]
    /\ pc = [t \in Closers |-> "idle"]
(* No listener: nothing is accepted and nobody closes it.                  *)
NoListener ==
    /\ lnClosed = TRUE
    /\ count = 0 /\ shutdown = 0 /\ done = 0
    /\ conn = [c \in Conns |-> "none"]
    /\ dec = [c \in Conns |-> 0]
    /\ pc = [t \in Closers |-> "error"]

Move(c, s) == conn' = [conn EXCEPT ![c] = s]
Goto(t, l) == pc' = [pc EXCEPT ![t] = l]

-----------------------------------------------------------------------------
(* Accept : the accept loop is one goroutine.                              *)
Accept(c) ==
    /\ Running /\ ~lnClosed
    /\ conn[c] = "none" /\ \A d \in Conns : conn[d] # "accepted"
    /\ Move(c, "accepted")
    /\ UNCHANGED <<lnClosed, count, shutdown, done, dec, pc>>

AcceptCount(c) ==
    /\ Running /\ conn[c] = "accepted"
    /\ Move(c, "open")
    /\ count' = count + 1
    /\ UNCHANGED <<lnClosed, shutdown, done, dec, pc>>

(* gracefulConn.Close : the inner Close, which fails at most once, ...     *)
ConnClose(c) ==
    /\ Running /\ conn[c] = "open"
    /\ \/ Move(c, "closing")
       \/ Move(c, "stuck") /\ \A d \in Conns : conn[d] # "stuck"
    /\ UNCHANGED <<lnClosed, count, shutdown, done, dec, pc>>

(* ... then closeConn: AddUint64(-1) and, with its result, LoadUint64.     *)
Lower(c) ==
    /\ Running /\ conn[c] = "closing"
    /\ Move(c, "lowered")
    /\ count' = count - 1
    /\ dec' = [dec EXCEPT ![c] = count - 1]
    /\ UNCHANGED <<lnClosed, shutdown, done, pc>>

Signal(c) ==
    /\ Running /\ conn[c] = "lowered"
    /\ Move(c, "closed")
    /\ done' = IF shutdown # 0 /\ dec[c] = 0 THEN done + 1 ELSE done
    /\ dec' = [dec EXCEPT ![c] = 0]
    /\ UNCHANGED <<lnClosed, count, shutdown, pc>>

-----------------------------------------------------------------------------
(* Close : the inner Close fails, and Close returns nil, the second time.  *)
Close(t) ==
    /\ Running /\ pc[t] = "idle"
    /\ Goto(t, IF lnClosed THEN "nil" ELSE "mark")
    /\ lnClosed' = TRUE
    /\ UNCHANGED <<count, shutdown, done, conn, dec>>

(* Faulty: the flag is not set before the count is read.                   *)
MarkForgotten(t) ==
    /\ Running /\ pc[t] = "mark"
    /\ Goto(t, "check")
    /\ UNCHANGED <<lnClosed, count, shutdown, done, conn, dec>>

(* waitForZeroConns.                                                       *)
Mark(t) ==
    /\ Running /\ pc[t] = "mark"
    /\ shutdown' = shutdown + 1
    /\ Goto(t, "check")
    /\ UNCHANGED <<lnClosed, count, done, conn, dec>>

Check(t) ==
    /\ Running /\ pc[t] = "check"
    /\ IF count = 0 THEN done' = done + 1 /\ Goto(t, "nil")
                    ELSE Goto(t, "wait") /\ UNCHANGED done
    /\ UNCHANGED <<lnClosed, count, shutdown, conn, dec>>

(* select : done, or maxWaitTime has passed.                               *)
WaitDone(t) ==
    /\ Running /\ pc[t] = "wait" /\ done > 0
    /\ Goto(t, "nil")
    /\ UNCHANGED <<lnClosed, count, shutdown, done, conn, dec>>

WaitTimeout(t) ==
    /\ Running /\ pc[t] = "wait"
    /\ Goto(t, "error")
    /\ UNCHANGED <<lnClosed, count, shutdown, done, conn, dec>>

-----------------------------------------------------------------------------
NextListener ==
    \/ \E c \in Conns : Accept(c) \/ AcceptCount(c) \/ ConnClose(c) \/ Lower(c) \/ Signal(c)
    \/ \E t \in Closers : Close(t) \/ Mark(t) \/ Check(t) \/ WaitDone(t) \/ WaitTimeout(t)

ListenerSpec == InitListener /\ [][NextListener]_listenerVars

-----------------------------------------------------------------------------
(* Properties.                                                             *)

(* The count is the number of the connections it stands for, so that a     *)
(* repeated or failed Close never wraps the unsigned counter around; and a *)
(* Close that waits although nothing is open any more has been signalled   *)
(* or is about to be: the flag is set before the count is read, and the    *)
(* count is lowered before the flag is read.  Otherwise Close would sit    *)
(* out maxWaitTime after the last connection is gone.                      *)
NoLostSignal ==
    /\ count = Cardinality(Counted)
    /\ \A t \in Closers :
         pc[t] = "wait" /\ count = 0 =>
             done > 0 \/ \E c \in Conns : conn[c] = "lowered" /\ dec[c] = 0

=============================================================================

------------------------------- MODULE WsServer -------------------------------
(***************************************************************************)
(* The websocket server (node/node_websocket.go) and its clients           *)
(* (node/node_websocket_client.go).                                        *)
(*                                                                         *)
(* The server runs a handler for every connection, a cleaner that walks    *)
(* the pool, and SendMessage for the application; the pool maps a subject  *)
(* to its devices and a device to one DevConn.  Each client dials, is      *)
(* served, and dials again when the connection fails.                      *)
(*                                                                         *)
(* A connection is <<client, n>>; its n is used again once nothing refers  *)
(* to it.  A slot is <<subject, device and path>>.  Time is abstracted to  *)
(* what the code compares with it: whether a token has expired (Life) and  *)
(* whether the last ping of an entry is older than two intervals (Last).   *)
(* Bodies that validBody refuses, and handle's errors, are answered and    *)
(* change nothing.                                                         *)
(***************************************************************************)
EXTENDS Integers, FiniteSets

CONSTANTS
    Clients,
    SlotMaps,   \* the possible assignments of a slot to each client
    Maxes,      \* the possible values of max
    Autos,      \* the possible arguments of WsClient.StartWebsocket
    Conns,      \* the connections of each client that exist at the same time
    None,
    MaxFaults   \* bound: broken links, refused dials, failed replies

VARIABLES
    max,        \* WsServer.max
    slotOf,     \* the subject and device in the token of each client
    auto,       \* the argument of WsClient.StartWebsocket
    sock,       \* each connection: "open", "broken" (one side is gone),
                \* "closed" (by the server, or not in use)
    pc,         \* its handler: "none", "add", "loop"
    subs,       \* the subjects in the pool; none is ever removed
    pool,       \* the connection of each slot's DevConn, or None
    old,        \* current - Last > 2 * ping, for each slot's DevConn
    expired,    \* current > Life, for each slot's DevConn
    victim,     \* the slot the cleaner has chosen and waits for the lock with
    send,       \* the call of SendMessage
    cl,         \* each client: "start" (the next attempt), "receive", "ended"
    cur,        \* WsClient.conn
    faults

server == <<subs, pool, old, expired>>
client == <<cl, cur>>
config == <<max, slotOf, auto>>
vars == <<config, server, client, sock, pc, victim, send, faults>>

Slots == UNION {{f[k] : k \in Clients} : f \in SlotMaps}
Subs == {s[1] : s \in Slots}

ASSUME WsAssumption ==
    /\ Maxes \subseteq Nat /\ Autos \subseteq BOOLEAN /\ MaxFaults \in Nat
    /\ \A c \in Conns : c[1] \in Clients
    /\ None \notin Conns \cup Slots

Slot(c) == slotOf[c[1]]

(* SendMessage: the slots still to be visited, the ones whose entry stayed *)
(* the same all the time (history), and the ones written to.               *)
NoSend == [at |-> "idle", todo |-> {}, must |-> {}, got |-> {}]

Init ==
    /\ max \in Maxes /\ slotOf \in SlotMaps /\ auto \in Autos
    /\ sock = [c \in Conns |-> "closed"]
    /\ pc = [c \in Conns |-> "none"]
    /\ subs = {} /\ pool = [s \in Slots |-> None] /\ old = [s \in Slots |-> FALSE]
    /\ expired = [s \in Slots |-> FALSE]
    /\ victim = None
    /\ send = NoSend
    /\ cl = [k \in Clients |-> "start"]
    /\ cur = [k \in Clients |-> None]
    /\ faults = 0

Fault ==
    /\ faults < MaxFaults
    /\ faults' = faults + 1

(* closeConn: a second close of the same connection fails and is logged.   *)
Close(S) == sock' = [c \in Conns |-> IF c \in S THEN "closed" ELSE sock[c]]

(* History: the entry of slot s has changed under SendMessage.             *)
Touch(s) == send' = [send EXCEPT !.must = @ \ {s}]

-----------------------------------------------------------------------------
(* Handler of a connection.                                                *)

(* wsHandler: the token is missing, invalid or expired, and it returns.    *)
VerifyFails(c) ==
    /\ pc[c] = "add"
    /\ Fault
    /\ pc' = [pc EXCEPT ![c] = "none"]
    /\ Close({c})
    /\ UNCHANGED <<config, server, client, victim, send>>

(* addConn, when the pool is full of subjects, among them perhaps this     *)
(* one: the connection is closed and the handler returns.                  *)
AddConnFull(c) ==
    /\ pc[c] = "add"
    /\ Cardinality(subs) >= max
    /\ pc' = [pc EXCEPT ![c] = "none"]
    /\ Close({c})
    /\ UNCHANGED <<config, server, client, victim, send, faults>>

(* Faulty: the connection that is replaced stays open.                     *)
AddConnKeepsOld(c) ==
    /\ pc[c] = "add"
    /\ Cardinality(subs) < max
    /\ subs' = subs \cup {Slot(c)[1]}
    /\ pool' = [pool EXCEPT ![Slot(c)] = c]
    /\ old' = [old EXCEPT ![Slot(c)] = FALSE]
    /\ expired' = [expired EXCEPT ![Slot(c)] = FALSE]
    /\ pc' = [pc EXCEPT ![c] = "loop"]
    /\ Touch(Slot(c))
    /\ UNCHANGED <<config, client, sock, victim, faults>>

(* addConn: the entry of the slot is made, or closed and overwritten.      *)
AddConn(c) ==
    /\ pc[c] = "add"
    /\ Cardinality(subs) < max
    /\ subs' = subs \cup {Slot(c)[1]}
    /\ Close({pool[Slot(c)]})
    /\ pool' = [pool EXCEPT ![Slot(c)] = c]
    /\ old' = [old EXCEPT ![Slot(c)] = FALSE]
    /\ expired' = [expired EXCEPT ![Slot(c)] = FALSE]
    /\ pc' = [pc EXCEPT ![c] = "loop"]
    /\ Touch(Slot(c))
    /\ UNCHANGED <<config, client, victim, faults>>

(* The handler reads a ping.  refConn renews whatever entry its slot has.  *)
RefConn(c) ==
    /\ pc[c] = "loop" /\ sock[c] \in {"open", "broken"}
    /\ pool[Slot(c)] # None
    /\ old' = [old EXCEPT ![Slot(c)] = FALSE]
    /\ UNCHANGED <<config, subs, pool, expired, client, sock, pc, victim, send, faults>>

(* Receive fails, or the reply to a message cannot be written: the handler *)
(* returns and closes its connection.  Its entry stays in the pool.        *)
HandlerEnds(c) ==
    /\ pc[c] = "loop"
    /\ \/ sock[c] # "open" /\ UNCHANGED faults
       \/ sock[c] = "open" /\ Fault
    /\ pc' = [pc EXCEPT ![c] = "none"]
    /\ Close({c})
    /\ UNCHANGED <<config, server, client, victim, send>>

-----------------------------------------------------------------------------
(* Cleaner.                                                                *)

(* Faulty: the life of the token is not looked at.                         *)
StaleIgnoresLife(s) == pool[s] # None /\ old[s]

Stale(s) == pool[s] # None /\ (old[s] \/ expired[s])

(* The walk over the pool, without the lock, comes to a stale entry, ...   *)
CleanerFinds(s) ==
    /\ victim = None
    /\ Stale(s)
    /\ victim' = s
    /\ UNCHANGED <<config, server, client, sock, pc, send, faults>>

(* ... and under the lock closes what the entry then holds and deletes it. *)
CleanerCloses ==
    /\ victim # None
    /\ Close({pool[victim]})
    /\ pool' = [pool EXCEPT ![victim] = None]
    /\ old' = [old EXCEPT ![victim] = FALSE]
    /\ expired' = [expired EXCEPT ![victim] = FALSE]
    /\ Touch(victim)
    /\ victim' = None
    /\ UNCHANGED <<config, subs, client, pc, faults>>

(* Time passes: two intervals without a ping, or the end of a token.       *)
PingOverdue(s) ==
    /\ pool[s] # None /\ ~old[s]
    /\ old' = [old EXCEPT ![s] = TRUE]
    /\ UNCHANGED <<config, subs, pool, expired, client, sock, pc, victim, send, faults>>

TokenExpires(s) ==
    /\ pool[s] # None /\ ~expired[s]
    /\ expired' = [expired EXCEPT ![s] = TRUE]
    /\ UNCHANGED <<config, subs, pool, old, client, sock, pc, victim, send, faults>>

-----------------------------------------------------------------------------
(* SendMessage to the devices of a subject, without the lock.  (It returns *)
(* nil when there are none; the filter by device is left out.)             *)
SendMessage(u) ==
    /\ send.at = "idle"
    /\ LET D == {s \in Slots : s[1] = u /\ pool[s] # None}
       IN  D # {} /\ send' = [at |-> "sending", todo |-> D, must |-> D, got |-> {}]
    /\ UNCHANGED <<config, server, client, sock, pc, victim, faults>>

(* One device: an entry deleted meanwhile is not visited; the first write  *)
(* that fails ends the call, whatever devices are left.  A write to a      *)
(* connection whose client has gone may or may not fail.                   *)
SendTo(s) ==
    /\ send.at = "sending"
    /\ s \in send.todo
    /\ \/ /\ pool[s] = None
          /\ send' = [send EXCEPT !.todo = @ \ {s}]
       \/ /\ pool[s] # None
          /\ sock[pool[s]] \in {"open", "broken"}
          /\ send' = [send EXCEPT !.todo = @ \ {s}, !.got = @ \cup {s}]
       \/ /\ pool[s] # None
          /\ sock[pool[s]] \in {"broken", "closed"}
          /\ send' = NoSend
    /\ UNCHANGED <<config, server, client, sock, pc, victim, faults>>

SendReturns ==
    /\ \/ send.at = "sending" /\ send.todo = {} /\ send' = [send EXCEPT !.at = "nil"]
       \/ send.at = "nil" /\ send' = NoSend
    /\ UNCHANGED <<config, server, client, sock, pc, victim, faults>>

-----------------------------------------------------------------------------
(* Client.                                                                 *)

Free(c) == sock[c] = "closed" /\ pc[c] = "none" /\ \A s \in Slots : pool[s] # c

(* initClient: AuthCall brings a token, the dial passes the limiter        *)
(* (withConnectionLimit) and the server starts a handler.                  *)
InitClient(k) ==
    /\ cl[k] = "start"
    /\ \E c \in Conns :
        /\ c[1] = k /\ Free(c)
        /\ sock' = [sock EXCEPT ![c] = "open"]
        /\ pc' = [pc EXCEPT ![c] = "add"]
        /\ cur' = [cur EXCEPT ![k] = c]
    /\ cl' = [cl EXCEPT ![k] = "receive"]
    /\ UNCHANGED <<config, server, victim, send, faults>>

(* Faulty: auto is not looked at.                                          *)
RestartNever(k) == "ended"

(* StartWebsocket after an error of initClient.                            *)
Restart(k) == IF auto THEN "start" ELSE "ended"

(* AuthCall or the dial fails, or the limiter refuses the request.         *)
InitClientFails(k) ==
    /\ cl[k] = "start"
    /\ Fault
    /\ cl' = [cl EXCEPT ![k] = Restart(k)]
    /\ UNCHANGED <<config, server, cur, sock, pc, victim, send>>

(* receive returns the error of a connection that is gone.  (The pings,    *)
(* sent on client.conn by a goroutine, end with an error as well.)         *)
ReceiveFails(k) ==
    /\ cl[k] = "receive"
    /\ sock[cur[k]] # "open"
    /\ cl' = [cl EXCEPT ![k] = Restart(k)]
    /\ cur' = [cur EXCEPT ![k] = None]
    /\ UNCHANGED <<config, server, sock, pc, victim, send, faults>>

(* A reply cannot be sent: receive returns nil, initClient closes the      *)
(* connection, and StartWebsocket goes on whatever auto says.              *)
ReplyFails(k) ==
    /\ cl[k] = "receive"
    /\ Fault
    /\ sock' = [sock EXCEPT ![cur[k]] = IF @ = "open" THEN "broken" ELSE @]
    /\ cl' = [cl EXCEPT ![k] = "start"]
    /\ cur' = [cur EXCEPT ![k] = None]
    /\ UNCHANGED <<config, server, pc, victim, send>>

LinkBreaks(c) ==
    /\ sock[c] = "open"
    /\ Fault
    /\ sock' = [sock EXCEPT ![c] = "broken"]
    /\ UNCHANGED <<config, server, client, pc, victim, send>>

-----------------------------------------------------------------------------
HandlerStep(c) == VerifyFails(c) \/ AddConnFull(c) \/ AddConn(c) \/ HandlerEnds(c)
ClientStep(k) ==
    \/ InitClient(k) \/ InitClientFails(k) \/ ReceiveFails(k)

Next ==
    \/ \E c \in Conns : HandlerStep(c) \/ RefConn(c) \/ LinkBreaks(c)
    \/ \E s \in Slots : CleanerFinds(s) \/ PingOverdue(s) \/ TokenExpires(s) \/ SendTo(s)
    \/ CleanerCloses
    \/ \E u \in Subs : SendMessage(u)
    \/ SendReturns
    \/ \E k \in Clients : ClientStep(k) \/ ReplyFails(k)

(* No ping can come over the connection of the entry.                      *)
Silent(s) == pool[s] # None /\ sock[pool[s]] # "open"

(* The goroutines go on, an entry that gets no pings becomes overdue, and  *)
(* the cleaner's walk, which starts again after every interval, reaches    *)
(* every stale entry.                                                      *)
Fairness ==
    /\ \A c \in Conns : WF_vars(HandlerStep(c))
    /\ \A s \in Slots : WF_vars(Silent(s) /\ PingOverdue(s)) /\ SF_vars(CleanerFinds(s))
    /\ WF_vars(CleanerCloses)
    /\ \A k \in Clients : WF_vars(ClientStep(k))

Spec == Init /\ [][Next]_vars /\ Fairness

-----------------------------------------------------------------------------
SendCalls == [at : {"idle", "sending", "nil"}, todo : SUBSET Slots,
              must : SUBSET Slots, got : SUBSET Slots]

TypeOK ==
    /\ max \in Maxes /\ slotOf \in SlotMaps /\ auto \in Autos
    /\ sock \in [Conns -> {"open", "broken", "closed"}]
    /\ pc \in [Conns -> {"none", "add", "loop"}]
    /\ subs \subseteq Subs
    /\ pool \in [Slots -> Conns \cup {None}]
    /\ old \in [Slots -> BOOLEAN] /\ expired \in [Slots -> BOOLEAN]
    /\ victim \in Slots \cup {None}
    /\ send \in SendCalls
    /\ cl \in [Clients -> {"start", "receive", "ended"}]
    /\ cur \in [Clients -> Conns \cup {None}]
    /\ faults \in 0 .. MaxFaults

(* Every connection that is served and not closed is the one its slot's    *)
(* entry holds, whatever replaces it, renews it or cleans it up: only so   *)
(* can SendMessage reach it and the cleaner end it when its token expires. *)
Supervised ==
    \A c \in Conns : pc[c] = "loop" /\ sock[c] # "closed" => pool[Slot(c)] = c

(* When SendMessage returns nil, every device that was in the pool during  *)
(* the whole call has been written to.  (One dead entry makes it return an *)
(* error before it reaches the others.)                                    *)
NilMeansAll ==
    send.at = "nil" => send.must \subseteq send.got

(* A connection is not served for ever on an expired token: the cleaner    *)
(* closes it and its handler returns.                                      *)
ExpiredClosed ==
    \A s \in Slots :
        LET Served == pool[s] # None /\ expired[s] /\ pc[pool[s]] = "loop"
        IN  Served ~> ~Served

(* A client that is to restart is served again and again, unless the pool  *)
(* is full: since no subject is ever removed and the limit is tested       *)
(* first, a full pool refuses even the subjects it holds.                  *)
ComesBack ==
    \A k \in Clients :
        auto => []<>(\/ Cardinality(subs) >= max
                        \/ \E c \in Conns : c[1] = k /\ pc[c] = "loop")

=============================================================================

------------------------------ MODULE NodeProofs ------------------------------
(***************************************************************************)
(* Proofs about WsServer and Encipher, for any clients, connections,       *)
(* slots, files and bounds.                                                *)
(***************************************************************************)
EXTENDS WsServer, Encipher, FiniteSetTheorems, TLAPS

(* SendMessage under way: what must be written to is written to or still   *)
(* to be visited, and is in the pool.                                      *)
Sending ==
    /\ send.at = "sending" => send.must \subseteq send.got \cup send.todo
    /\ \A s \in send.must : pool[s] # None
    /\ send.at = "nil" => send.must \subseteq send.got

WsInv == TypeOK /\ Supervised /\ Sending

(* The slot of a connection is one of the slots.                           *)
LEMMA SlotType == ASSUME TypeOK, NEW c \in Conns PROVE Slot(c) \in Slots
  BY WsAssumption DEF TypeOK, Slot, Slots

(* closeConn closes the connections it is given, and no other.             *)
LEMMA CloseIs ==
    ASSUME TypeOK, NEW S, Close(S)
    PROVE  /\ sock' \in [Conns -> {"open", "broken", "closed"}]
           /\ \A c \in Conns : sock'[c] = IF c \in S THEN "closed" ELSE sock[c]
  BY DEF TypeOK, Close

(* The invariant holds when the server starts.                             *)
LEMMA WsInit == Init => WsInv
<1> SUFFICES ASSUME Init PROVE WsInv
  OBVIOUS
<1>1. NoSend \in SendCalls
  BY DEF NoSend, SendCalls
<1>2. TypeOK
  BY <1>1, WsAssumption DEF Init, TypeOK
<1> QED
  BY <1>2 DEF Init, WsInv, Supervised, Sending, NoSend

(* A fault is counted.                                                     *)
LEMMA FaultType == ASSUME TypeOK, Fault PROVE faults' \in 0 .. MaxFaults
  BY WsAssumption DEF TypeOK, Fault

(* A handler that returns closes its connection.                           *)
LEMMA HandlerReturns ==
    ASSUME WsInv, NEW c \in Conns, pc' = [pc EXCEPT ![c] = "none"], Close({c}),
           UNCHANGED <<config, server, client, victim, send>>,
           faults' \in 0 .. MaxFaults
    PROVE  WsInv'
<1>1. TypeOK'
  BY CloseIs DEF WsInv, TypeOK, config, server, client
<1>2. Supervised'
  BY CloseIs DEF WsInv, TypeOK, Supervised, Slot, config, server
<1>3. Sending'
  BY DEF WsInv, Sending, server
<1> QED
  BY <1>1, <1>2, <1>3 DEF WsInv

(* An entry that changes is none of those SendMessage must write to.       *)
LEMMA TouchIs ==
    ASSUME TypeOK, Sending, NEW s \in Slots, Touch(s),
           \A t \in Slots : t # s => pool'[t] = pool[t]
    PROVE  send' \in SendCalls /\ Sending'
<1> DEFINE x == [send EXCEPT !.must = send.must \ {s}]
<1>1. send' = x
  BY DEF Touch
<1>2. /\ x \in SendCalls /\ x.must = send.must \ {s} /\ x.at = send.at
      /\ x.got = send.got /\ x.todo = send.todo
  BY DEF TypeOK, SendCalls
<1>3. send.must \subseteq Slots
  BY DEF TypeOK, SendCalls
<1> HIDE DEF x
<1> QED
  BY <1>1, <1>2, <1>3 DEF Sending

(* addConn preserves the invariant: the connection it takes out of the     *)
(* pool is closed, and it is the only one served for that slot.            *)
LEMMA AddConnPreserves ==
    ASSUME WsInv, NEW c \in Conns, AddConn(c)
    PROVE  WsInv'
<1>1. Slot(c) \in Slots
  BY SlotType DEF WsInv
<1>2. Slot(c)[1] \in Subs
  BY <1>1 DEF Subs
<1>3. \A t \in Slots : t # Slot(c) => pool'[t] = pool[t]
  BY DEF AddConn, WsInv, TypeOK
<1>4. send' \in SendCalls /\ Sending'
  BY <1>1, <1>3, TouchIs DEF AddConn, WsInv
<1>5. TypeOK'
  BY <1>1, <1>2, <1>4, CloseIs DEF AddConn, WsInv, TypeOK, config, client
<1>6. ASSUME NEW d \in Conns, pc'[d] = "loop", sock'[d] # "closed" PROVE pool'[Slot(d)'] = d
  <2>1. Slot(d)' = Slot(d) /\ Slot(d) \in Slots
    BY SlotType DEF AddConn, WsInv, Slot, config
  <2>2. CASE d = c
    BY <1>1, <2>1, <2>2 DEF AddConn, WsInv, TypeOK
  <2>3. CASE d # c
    <3>1. pc[d] = "loop" /\ sock[d] # "closed" /\ d # pool[Slot(c)]
      BY <1>6, <2>3, CloseIs DEF AddConn, WsInv, TypeOK
    <3>2. pool[Slot(d)] = d
      BY <3>1 DEF WsInv, Supervised
    <3>3. Slot(d) # Slot(c)
      BY <3>1, <3>2
    <3> QED
      BY <1>3, <2>1, <3>2, <3>3
  <2> QED
    BY <2>2, <2>3
<1> QED
  BY <1>4, <1>5, <1>6 DEF WsInv, Supervised

(* The cleaner preserves the invariant: what it deletes it has closed.     *)
LEMMA CleanerClosesPreserves ==
    ASSUME WsInv, CleanerCloses
    PROVE  WsInv'
<1>1. victim \in Slots
  BY DEF CleanerCloses, WsInv, TypeOK
<1>2. \A t \in Slots : t # victim => pool'[t] = pool[t]
  BY DEF CleanerCloses, WsInv, TypeOK
<1>3. send' \in SendCalls /\ Sending'
  BY <1>1, <1>2, TouchIs DEF CleanerCloses, WsInv
<1>4. TypeOK'
  BY <1>1, <1>3, CloseIs DEF CleanerCloses, WsInv, TypeOK, config, client
<1>5. ASSUME NEW d \in Conns, pc'[d] = "loop", sock'[d] # "closed" PROVE pool'[Slot(d)'] = d
  <2>1. Slot(d)' = Slot(d) /\ Slot(d) \in Slots
    BY SlotType DEF CleanerCloses, WsInv, Slot, config
  <2>2. pc[d] = "loop" /\ sock[d] # "closed" /\ d # pool[victim]
    BY <1>5, CloseIs DEF CleanerCloses, WsInv, TypeOK
  <2>3. pool[Slot(d)] = d
    BY <2>2 DEF WsInv, Supervised
  <2> QED
    BY <1>2, <2>1, <2>2, <2>3
<1> QED
  BY <1>3, <1>4, <1>5 DEF WsInv, Supervised

(* SendMessage preserves the invariant.                                    *)
LEMMA SendPreserves ==
    ASSUME WsInv, (\E u \in Subs : SendMessage(u)) \/ (\E s \in Slots : SendTo(s)) \/ SendReturns
    PROVE  WsInv'
<1>1. UNCHANGED <<config, server, client, sock, pc, victim, faults>>
  BY DEF SendMessage, SendTo, SendReturns
<1>2. /\ send \in SendCalls /\ send.must \subseteq Slots
      /\ NoSend \in SendCalls /\ NoSend.must = {} /\ NoSend.at = "idle"
  BY DEF WsInv, TypeOK, SendCalls, NoSend
<1>3. pool' = pool
  BY <1>1 DEF server
<1>4. send' \in SendCalls /\ Sending'
  <2>1. ASSUME NEW u \in Subs, SendMessage(u) PROVE send' \in SendCalls /\ Sending'
    <3> DEFINE D == {s \in Slots : s[1] = u /\ pool[s] # None}
               x == [at |-> "sending", todo |-> D, must |-> D, got |-> {}]
    <3>1. send' = x
      BY <2>1 DEF SendMessage
    <3>2. x \in SendCalls /\ x.at = "sending" /\ x.todo = D /\ x.must = D
      BY DEF SendCalls
    <3> HIDE DEF x
    <3> QED
      BY <1>3, <3>1, <3>2 DEF Sending
  <2>2. ASSUME NEW s \in Slots, SendTo(s) PROVE send' \in SendCalls /\ Sending'
    <3>1. send.at = "sending" /\ send.must \subseteq send.got \cup send.todo
      BY <2>2 DEF SendTo, WsInv, Sending
    <3>2. CASE pool[s] = None /\ send' = [send EXCEPT !.todo = @ \ {s}]
      <4> DEFINE x == [send EXCEPT !.todo = send.todo \ {s}]
      <4>1. /\ x \in SendCalls /\ x.at = "sending" /\ x.must = send.must /\ x.got = send.got
            /\ x.todo = send.todo \ {s}
        BY <1>2, <3>1 DEF SendCalls
      <4>2. send' = x /\ s \notin send.must
        BY <3>2 DEF WsInv, Sending
      <4> HIDE DEF x
      <4> QED
        BY <1>3, <3>1, <4>1, <4>2 DEF WsInv, Sending
    <3>3. CASE send' = [send EXCEPT !.todo = @ \ {s}, !.got = @ \cup {s}]
      <4> DEFINE x == [send EXCEPT !.todo = send.todo \ {s}, !.got = send.got \cup {s}]
      <4>1. /\ x \in SendCalls /\ x.at = "sending" /\ x.must = send.must
            /\ x.got = send.got \cup {s} /\ x.todo = send.todo \ {s}
        BY <1>2, <3>1 DEF SendCalls
      <4>2. send' = x
        BY <3>3
      <4> HIDE DEF x
      <4> QED
        BY <1>3, <3>1, <4>1, <4>2 DEF WsInv, Sending
    <3>4. CASE send' = NoSend
      BY <1>2, <3>4 DEF Sending
    <3> QED
      BY <2>2, <3>2, <3>3, <3>4 DEF SendTo
  <2>3. CASE SendReturns
    <3>1. CASE send.at = "sending" /\ send.todo = {} /\ send' = [send EXCEPT !.at = "nil"]
      <4> DEFINE x == [send EXCEPT !.at = "nil"]
      <4>1. /\ x \in SendCalls /\ x.at = "nil" /\ x.must = send.must /\ x.got = send.got
        BY <1>2 DEF SendCalls
      <4>2. send' = x /\ send.must \subseteq send.got
        BY <3>1 DEF WsInv, Sending
      <4> HIDE DEF x
      <4> QED
        BY <1>3, <4>1, <4>2 DEF WsInv, Sending
    <3>2. CASE send' = NoSend
      BY <1>2, <3>2 DEF Sending
    <3> QED
      BY <2>3, <3>1, <3>2 DEF SendReturns
  <2> QED
    BY <2>1, <2>2, <2>3
<1>5. TypeOK'
  BY <1>1, <1>4 DEF WsInv, TypeOK, config, server, client
<1>6. Supervised'
  BY <1>1 DEF WsInv, Supervised, Slot, config, server
<1> QED
  BY <1>4, <1>5, <1>6 DEF WsInv

(* The steps of the clients, of the links and of time preserve the         *)
(* invariant: they leave the pool and what is served.                      *)
LEMMA OutsidePreserves ==
    ASSUME WsInv,
           \/ \E c \in Conns : RefConn(c) \/ LinkBreaks(c)
           \/ \E s \in Slots : CleanerFinds(s) \/ PingOverdue(s) \/ TokenExpires(s)
           \/ \E k \in Clients : ClientStep(k) \/ ReplyFails(k)
    PROVE  WsInv'
<1>1. /\ UNCHANGED <<config, pool, send, subs>>
      /\ pc' = pc \/ \E c \in Conns : pc' = [pc EXCEPT ![c] = "add"]
  BY DEF RefConn, LinkBreaks, CleanerFinds, PingOverdue, TokenExpires, ClientStep, ReplyFails,
         InitClient, InitClientFails, ReceiveFails, config, server
<1>2. Sending'
  BY <1>1 DEF WsInv, Sending
<1>3. \A c \in Conns : pc'[c] = "loop" /\ sock'[c] # "closed" => pc[c] = "loop" /\ sock[c] # "closed"
  BY DEF RefConn, LinkBreaks, CleanerFinds, PingOverdue, TokenExpires, ClientStep, ReplyFails,
         InitClient, InitClientFails, ReceiveFails, WsInv, TypeOK
<1>4. Supervised'
  BY <1>1, <1>3 DEF WsInv, Supervised, Slot, config
<1>5. TypeOK'
  <2>1. ASSUME NEW c \in Conns, RefConn(c) \/ LinkBreaks(c) PROVE TypeOK'
    <3>1. CASE RefConn(c)
      BY <3>1, SlotType DEF RefConn, WsInv, TypeOK, config, client
    <3>2. CASE LinkBreaks(c)
      BY <3>2, FaultType DEF LinkBreaks, WsInv, TypeOK, config, server, client
    <3> QED
      BY <2>1, <3>1, <3>2
  <2>2. ASSUME NEW s \in Slots, CleanerFinds(s) \/ PingOverdue(s) \/ TokenExpires(s) PROVE TypeOK'
    BY <2>2 DEF CleanerFinds, PingOverdue, TokenExpires, WsInv, TypeOK, config, server, client
  <2>3. ASSUME NEW k \in Clients, ClientStep(k) \/ ReplyFails(k) PROVE TypeOK'
    <3>1. Restart(k) \in {"start", "ended"}
      BY DEF Restart
    <3>2. CASE InitClient(k)
      BY <3>2 DEF InitClient, WsInv, TypeOK, config, server
    <3>3. CASE InitClientFails(k) \/ ReceiveFails(k)
      BY <3>1, <3>3, FaultType DEF InitClientFails, ReceiveFails, WsInv, TypeOK, config, server
    <3>4. CASE ReplyFails(k)
      BY <3>4, FaultType DEF ReplyFails, WsInv, TypeOK, config, server
    <3> QED
      BY <2>3, <3>2, <3>3, <3>4 DEF ClientStep
  <2> QED
    BY <2>1, <2>2, <2>3
<1> QED
  BY <1>2, <1>4, <1>5 DEF WsInv

(* Every step preserves the invariant.                                     *)
LEMMA WsStep == WsInv /\ [Next]_vars => WsInv'
<1> SUFFICES ASSUME WsInv, [Next]_vars PROVE WsInv'
  OBVIOUS
<1>1. ASSUME NEW c \in Conns, VerifyFails(c) \/ AddConnFull(c) \/ HandlerEnds(c) PROVE WsInv'
  <2>1. faults' \in 0 .. MaxFaults
    BY <1>1, FaultType DEF VerifyFails, AddConnFull, HandlerEnds, WsInv, TypeOK
  <2> QED
    BY <1>1, <2>1, HandlerReturns DEF VerifyFails, AddConnFull, HandlerEnds
<1>2. CASE UNCHANGED vars
  BY <1>2 DEF vars, config, server, client, WsInv, TypeOK, Supervised, Slot, Sending
<1> QED
  BY <1>1, <1>2, AddConnPreserves, CleanerClosesPreserves, SendPreserves, OutsidePreserves
     DEF Next, HandlerStep

(* The invariant holds in every reachable state of the server.             *)
LEMMA WsInvariance == Spec => []WsInv
  BY WsInit, WsStep, PTL DEF Spec

(* The pool, the connections and the calls have the values the code gives  *)
(* them, in every reachable state.                                         *)
THEOREM WsTypeCorrect == Spec => []TypeOK
<1>1. WsInv => TypeOK
  BY DEF WsInv
<1> QED
  BY <1>1, WsInvariance, PTL

(* For any clients, slots and limit, a connection that is served is the    *)
(* one its slot's entry holds (addConn, refConn, the cleaner).             *)
THEOREM ServedIsSupervised == Spec => []Supervised
<1>1. WsInv => Supervised
  BY DEF WsInv
<1> QED
  BY <1>1, WsInvariance, PTL

(* A SendMessage that returns nil has written to every device that was in  *)
(* the pool during the whole call.                                         *)
THEOREM NilReachedAll == Spec => []NilMeansAll
<1>1. WsInv => NilMeansAll
  BY DEF WsInv, Sending, NilMeansAll
<1> QED
  BY <1>1, WsInvariance, PTL
-----------------------------------------------------------------------------
(* The encipher service and its client.                                    *)

(* The keystore is written once and never again: a service that has gone   *)
(* past it has its key, and so had whoever made what the caller keeps.     *)
Written == disk[1] \notin {0, Empty}

KeyKept ==
    /\ srv.pc = "write" => srv.i <= Len(Files) /\ disk[srv.i] = Empty
    /\ srv.pc = "up" \/ (srv.pc \in {"files", "write"} /\ srv.i > 1) => Written /\ srv.key = disk[1]
    /\ \A op \in Makers : kept[op] # 0 => Written /\ kept[op] = disk[1]

CallKept ==
    /\ call.pc = "send" /\ call.op \in Takers => kept[Maker[call.op]] # 0
    /\ call.pc \in {"check", "open", "accept"} /\ call.plain = "in" =>
         /\ call.op \in Takers => call.res = 1
         /\ call.op \in Makers => Written /\ call.res = disk[1]

(* Keys only get younger: once the client has another key than the one a   *)
(* call was encrypted with, it never has that one again.                   *)
KeyOrder ==
    /\ srv.ecc <= crashes + 1 /\ (srv.pc # "down" => srv.ecc # 0)
    /\ ec.shared <= srv.ecc
    /\ ec.ready \/ chk.pc \in {"post", "reply"} => ec.shared # 0

CallOrder ==
    /\ call.pc # "idle" => call.enc # 0 /\ call.enc <= ec.shared
    /\ call.pc \in {"check", "open"} /\ call.plain = "in" => call.signed = call.enc
    /\ call.pc = "check" /\ call.plain # "in" => call.signed # call.enc
    /\ call.pc \in {"open", "accept"} /\ call.plain # "in" => ec.shared # call.enc

EncipherInv == EncipherTypes /\ KeyKept /\ CallKept /\ KeyOrder /\ CallOrder

ServiceType == [pc : ServicePlaces, i : 1..(Len(Files) + 1), ecc : Starts, cached : Starts, key : Starts]
CallType == [pc : CallPlaces, op : Ops, enc : Starts, plain : Texts, res : Starts, signed : Starts]

(* There is a first file, the keystore; starts are numbered.               *)
LEMMA FilesExist ==
    /\ Len(Files) \in Nat /\ Len(Files) > 0 /\ 1 \in 1..Len(Files)
    /\ MaxCrashes \in Nat /\ 0 \in Starts /\ 1 \in Starts /\ Empty \notin Starts
    /\ \A n \in Starts : n \in Nat
  BY FilesAssumption, BoundsAssumption DEF Starts, Empty

(* A step of the service that does not touch the keystore, or finds it     *)
(* unwritten, and goes no further than the keystore allows.                *)
LEMMA ServiceFrame ==
    ASSUME EncipherInv, UNCHANGED <<ec, chk, call, kept, losses>>,
           srv' \in ServiceType, disk' \in [1..Len(Files) -> Starts \cup {Empty}],
           crashes' \in 0..MaxCrashes, srv'.ecc >= srv.ecc, srv'.ecc <= crashes' + 1,
           srv'.pc # "down" => srv'.ecc # 0,
           Written => disk'[1] = disk[1],
           srv'.pc = "write" => srv'.i <= Len(Files) /\ disk'[srv'.i] = Empty,
           srv'.pc = "up" \/ (srv'.pc \in {"files", "write"} /\ srv'.i > 1) =>
              Written' /\ srv'.key = disk'[1]
    PROVE  EncipherInv'
<1>1. EncipherTypes'
  BY DEF EncipherInv, EncipherTypes, ServiceType
<1>2. Written => Written'
  BY DEF Written
<1>3. KeyKept' /\ CallKept'
  BY <1>2 DEF EncipherInv, KeyKept, CallKept
<1>4. srv.ecc \in Nat /\ srv'.ecc \in Nat /\ ec.shared \in Nat
  BY FilesExist DEF EncipherInv, EncipherTypes, ServiceType
<1>5. KeyOrder' /\ CallOrder'
  BY <1>4 DEF EncipherInv, KeyOrder, CallOrder
<1> QED
  BY <1>1, <1>3, <1>5 DEF EncipherInv

(* Every step of the service, and a crash, preserves the invariant.        *)
LEMMA ServicePreserves ==
    ASSUME EncipherInv, Service \/ Crash
    PROVE  EncipherInv'
<1>1. /\ srv \in ServiceType /\ disk \in [1..Len(Files) -> Starts \cup {Empty}]
      /\ crashes \in 0..MaxCrashes /\ crashes \in Nat
      /\ srv.i \in Nat /\ srv.ecc \in Nat /\ srv.ecc <= crashes + 1
      /\ srv.pc # "down" => srv.ecc # 0
  <2>1. /\ srv \in ServiceType /\ disk \in [1..Len(Files) -> Starts \cup {Empty}]
        /\ crashes \in 0..MaxCrashes
    BY DEF EncipherInv, EncipherTypes, ServiceType
  <2>2. srv.i \in 1..(Len(Files) + 1) /\ srv.ecc \in Starts
    BY <2>1 DEF ServiceType
  <2>3. srv.ecc <= crashes + 1 /\ (srv.pc # "down" => srv.ecc # 0)
    BY DEF EncipherInv, KeyOrder
  <2> QED
    BY <2>1, <2>2, <2>3, FilesExist
<1>2. /\ srv.pc = "write" => srv.i \in 1..Len(Files) /\ disk[srv.i] = Empty
      /\ srv.pc \in {"files", "write"} /\ srv.i > 1 => Written /\ srv.key = disk[1]
  <2>1. srv.i \in 1..(Len(Files) + 1)
    BY <1>1 DEF ServiceType
  <2> QED
    BY <2>1, FilesExist DEF EncipherInv, KeyKept
<1>3. {"down", "files", "write", "up"} \subseteq ServicePlaces
  BY DEF ServicePlaces
<1>4. CASE Start
  <2> DEFINE x == [pc |-> "files", i |-> 1, ecc |-> crashes + 1, cached |-> 0, key |-> 0]
  <2>1. srv' = x /\ UNCHANGED <<disk, ec, chk, call, kept, crashes, losses>>
    BY <1>4 DEF Start
  <2>2. crashes + 1 \in Starts /\ crashes + 1 > 0 /\ 1 \in 1..(Len(Files) + 1)
    BY <1>1, FilesExist DEF Starts
  <2>3. x \in ServiceType /\ x.pc = "files" /\ x.i = 1 /\ x.ecc = crashes + 1
    BY <1>3, <2>2, FilesExist DEF ServiceType
  <2> HIDE DEF x
  <2> QED
    BY <1>1, <2>1, <2>2, <2>3, ServiceFrame
<1>5. CASE createFile
  <2> DEFINE x == [srv EXCEPT !.pc = "write"]
  <2>1. /\ srv' = x /\ UNCHANGED <<ec, chk, call, kept, crashes, losses>>
        /\ disk' = [disk EXCEPT ![srv.i] = Empty]
        /\ srv.i <= Len(Files) /\ disk[srv.i] = 0 /\ srv.pc = "files"
    BY <1>5 DEF createFile
  <2>2. /\ x \in ServiceType /\ x.pc = "write" /\ x.i = srv.i /\ x.ecc = srv.ecc
        /\ x.key = srv.key
    BY <1>1, <1>3 DEF ServiceType
  <2> HIDE DEF x
  <2>3. srv.i \in 1..Len(Files)
    BY <1>1, <2>1, FilesExist DEF ServiceType
  <2>4. disk' \in [1..Len(Files) -> Starts \cup {Empty}] /\ disk'[srv.i] = Empty
    BY <1>1, <2>1, <2>3
  <2>5. Written => disk'[1] = disk[1]
    BY <1>1, <2>1, FilesExist DEF Written
  <2>6. srv.i > 1 => Written' /\ srv.key = disk'[1]
    BY <1>2, <2>1, <2>5 DEF Written
  <2> QED
    BY <1>1, <2>1, <2>2, <2>3, <2>4, <2>5, <2>6, ServiceFrame
<1>6. CASE writeFile
  <2> DEFINE key == IF srv.i = 1 THEN srv.ecc ELSE srv.key
             x == [srv EXCEPT !.pc = "files", !.i = srv.i + 1, !.key = key]
  <2>1. /\ UNCHANGED <<ec, chk, call, kept, crashes, losses>>
        /\ disk' = [disk EXCEPT ![srv.i] = srv.ecc] /\ srv.pc = "write"
    BY <1>6 DEF writeFile
  <2>2. srv' = x
    BY <1>1, <1>6 DEF writeFile, createKeystore, ServiceType
  <2>3. /\ x \in ServiceType /\ x.pc = "files" /\ x.i = srv.i + 1 /\ x.ecc = srv.ecc /\ x.key = key
    <3>1. key \in Starts /\ srv.i + 1 \in 1..(Len(Files) + 1)
      BY <1>1, <1>2, <2>1, FilesExist DEF ServiceType
    <3> HIDE DEF key
    <3> QED
      BY <1>1, <1>3, <3>1 DEF ServiceType
  <2> HIDE DEF x
  <2>4. /\ disk' \in [1..Len(Files) -> Starts \cup {Empty}] /\ disk'[srv.i] = srv.ecc
        /\ srv.i # 1 => disk'[1] = disk[1]
    BY <1>1, <1>2, <2>1, FilesExist DEF ServiceType
  <2>5. Written => disk'[1] = disk[1]
    BY <1>2, <2>1, <2>4 DEF Written
  <2>6. Written' /\ key = disk'[1]
    <3>1. CASE srv.i = 1
      BY <1>1, <2>1, <2>4, <3>1, FilesExist DEF Written, ServiceType
    <3>2. CASE srv.i # 1
      <4>1. srv.i > 1
        BY <1>2, <2>1, <3>2
      <4> QED
        BY <1>2, <2>1, <2>4, <3>2, <4>1 DEF Written
    <3> QED
      BY <3>1, <3>2
  <2> QED
    BY <1>1, <2>1, <2>2, <2>3, <2>4, <2>5, <2>6, ServiceFrame
<1>7. CASE readKeystore
  <2>1. /\ UNCHANGED <<disk, ec, chk, call, kept, crashes, losses>>
        /\ srv.pc = "files" /\ srv.i <= Len(Files) /\ disk[srv.i] # 0
    BY <1>7 DEF readKeystore
  <2>2. CASE srv.i = 1 /\ disk[1] = Empty
    <3> DEFINE x == [srv EXCEPT !.pc = "down"]
    <3>1. srv' = x
      BY <1>7, <2>2 DEF readKeystore
    <3>2. x \in ServiceType /\ x.pc = "down" /\ x.ecc = srv.ecc
      BY <1>1, <1>3 DEF ServiceType
    <3> HIDE DEF x
    <3> QED
      BY <1>1, <2>1, <3>1, <3>2, ServiceFrame
  <2>3. CASE srv.i = 1 /\ disk[1] # Empty
    <3> DEFINE x == [srv EXCEPT !.key = disk[1], !.i = 2]
    <3>1. srv' = x
      BY <1>7, <2>3 DEF readKeystore
    <3>2. disk[1] \in Starts /\ 2 \in 1..(Len(Files) + 1) /\ Written
      BY <1>1, <2>1, <2>3, FilesExist DEF Written
    <3>3. x \in ServiceType /\ x.pc = "files" /\ x.i = 2 /\ x.ecc = srv.ecc /\ x.key = disk[1]
      BY <1>1, <2>1, <3>2 DEF ServiceType
    <3> HIDE DEF x
    <3>4. Written'
      BY <2>1, <3>2 DEF Written
    <3> QED
      BY <1>1, <2>1, <3>1, <3>3, <3>4, ServiceFrame
  <2>4. CASE srv.i # 1
    <3> DEFINE x == [srv EXCEPT !.i = srv.i + 1]
    <3>1. srv' = x
      BY <1>7, <2>4 DEF readKeystore
    <3>2. srv.i + 1 \in 1..(Len(Files) + 1) /\ srv.i > 1
      BY <1>1, <2>1, <2>4, FilesExist DEF ServiceType
    <3>3. x \in ServiceType /\ x.pc = "files" /\ x.ecc = srv.ecc /\ x.key = srv.key
      BY <1>1, <2>1, <3>2 DEF ServiceType
    <3> HIDE DEF x
    <3>4. Written' /\ srv.key = disk'[1]
      BY <1>2, <2>1, <3>2 DEF Written
    <3> QED
      BY <1>1, <2>1, <3>1, <3>3, <3>4, ServiceFrame
  <2> QED
    BY <2>2, <2>3, <2>4
<1>8. CASE loadConfig
  <2> DEFINE x == [srv EXCEPT !.pc = "up"]
  <2>1. /\ UNCHANGED <<disk, ec, chk, call, kept, crashes, losses>> /\ srv' = x
        /\ srv.pc = "files" /\ srv.i > Len(Files)
    BY <1>8 DEF loadConfig
  <2>2. x \in ServiceType /\ x.pc = "up" /\ x.ecc = srv.ecc /\ x.key = srv.key
    BY <1>1, <1>3 DEF ServiceType
  <2> HIDE DEF x
  <2>3. Written' /\ srv.key = disk'[1]
    BY <1>1, <1>2, <2>1, FilesExist DEF Written
  <2> QED
    BY <1>1, <2>1, <2>2, <2>3, ServiceFrame
<1>9. CASE Crash
  <2> DEFINE x == [srv EXCEPT !.pc = "down"]
  <2>1. /\ UNCHANGED <<disk, ec, chk, call, kept, losses>> /\ srv' = x
        /\ crashes < MaxCrashes /\ crashes' = crashes + 1
    BY <1>9 DEF Crash
  <2>2. x \in ServiceType /\ x.pc = "down" /\ x.ecc = srv.ecc
    BY <1>1, <1>3 DEF ServiceType
  <2> HIDE DEF x
  <2>3. crashes' \in 0..MaxCrashes
    BY <1>1, <2>1, FilesExist
  <2> QED
    BY <1>1, <2>1, <2>2, <2>3, ServiceFrame
<1> QED
  BY <1>4, <1>5, <1>6, <1>7, <1>8, <1>9 DEF Service
ClientType == [keystore : Starts, shared : Starts, ready : BOOLEAN]
CheckerType == [pc : CheckerPlaces, key : Starts, reply : Replies]

(* A step of the goroutine that checks the key replaces the client's key,  *)
(* if at all, by one that is not older, and the service's by none.         *)
LEMMA CheckerFrame ==
    ASSUME EncipherInv, UNCHANGED <<disk, call, kept, crashes>>,
           srv' \in ServiceType, srv'.pc = srv.pc, srv'.i = srv.i, srv'.ecc = srv.ecc,
           srv'.key = srv.key, ec' \in ClientType, chk' \in CheckerType,
           losses' \in 0..MaxLosses, ec'.shared >= ec.shared, ec'.shared <= srv.ecc,
           ec'.ready \/ chk'.pc \in {"post", "reply"} => ec'.shared # 0
    PROVE  EncipherInv'
<1>1. EncipherTypes'
  BY DEF EncipherInv, EncipherTypes, ServiceType, ClientType, CheckerType
<1>2. KeyKept' /\ CallKept'
  BY DEF EncipherInv, KeyKept, CallKept, Written
<1>3. KeyOrder'
  BY DEF EncipherInv, KeyOrder
<1>4. ec.shared \in Nat /\ ec'.shared \in Nat /\ call.enc \in Nat
  BY FilesExist DEF EncipherInv, EncipherTypes, ClientType
<1>5. CallOrder'
  BY <1>4 DEF EncipherInv, CallOrder
<1> QED
  BY <1>1, <1>2, <1>3, <1>5 DEF EncipherInv

(* An exchange that is lost is counted within the bound.                   *)
LEMMA LossBounded ==
    ASSUME EncipherInv, UNCHANGED losses \/ (losses < MaxLosses /\ losses' = losses + 1)
    PROVE  losses' \in 0..MaxLosses
  BY BoundsAssumption DEF EncipherInv, EncipherTypes

(* Every step of the goroutine that checks the key preserves it.           *)
LEMMA CheckerPreserves ==
    ASSUME EncipherInv, Checker
    PROVE  EncipherInv'
<1>1. /\ srv \in ServiceType /\ ec \in ClientType /\ chk \in CheckerType
      /\ losses \in 0..MaxLosses /\ srv.ecc \in Starts /\ ec.shared \in Nat /\ srv.ecc \in Nat
      /\ ec.shared <= srv.ecc /\ (srv.pc = "up" => srv.ecc # 0)
      /\ ec.ready \/ chk.pc \in {"post", "reply"} => ec.shared # 0
      /\ ec.shared >= ec.shared
  BY FilesExist DEF EncipherInv, EncipherTypes, ServiceType, ClientType, CheckerType, KeyOrder
<1>2. {"poll", "compare", "load", "post", "reply"} \subseteq CheckerPlaces
  BY DEF CheckerPlaces
<1>3. {"", "echo", "junk"} \subseteq Replies
  BY DEF Replies
<1> DEFINE unready == [ec EXCEPT !.ready = FALSE]
           again == [chk EXCEPT !.pc = "poll", !.reply = ""]
<1>4. unready \in ClientType /\ unready.shared = ec.shared /\ unready.ready = FALSE
  BY <1>1 DEF ClientType
<1>5. again \in CheckerType /\ again.pc = "poll"
  BY <1>1, <1>2, <1>3 DEF CheckerType
<1>6. ASSUME HandshakeFailed
      PROVE  ec' = unready /\ chk' = again
  BY <1>6 DEF HandshakeFailed
<1> HIDE DEF unready, again
<1>7. ASSUME HandshakeFailed, losses' \in 0..MaxLosses, UNCHANGED <<disk, call, kept, crashes>>,
             srv' \in ServiceType, srv'.pc = srv.pc, srv'.i = srv.i, srv'.ecc = srv.ecc,
             srv'.key = srv.key
      PROVE  EncipherInv'
  BY <1>1, <1>4, <1>5, <1>6, <1>7, CheckerFrame
<1>8. Fails => losses' \in 0..MaxLosses
  BY LossBounded DEF Fails
<1>9. CASE pollKey
  <2>1. UNCHANGED <<disk, srv, call, kept, crashes>>
    BY <1>9 DEF pollKey
  <2>2. CASE srv.pc = "up" /\ chk' = [chk EXCEPT !.pc = "compare", !.key = srv.ecc] /\ UNCHANGED <<ec, losses>>
    <3>1. chk' \in CheckerType /\ chk'.pc = "compare"
      BY <1>1, <1>2, <2>2 DEF CheckerType
    <3> QED
      BY <1>1, <2>1, <2>2, <3>1, CheckerFrame
  <2>3. CASE Fails /\ ec' = unready /\ UNCHANGED chk
    <3>1. chk.pc = "poll"
      BY <1>9 DEF pollKey
    <3> QED
      BY <1>1, <1>4, <1>8, <2>1, <2>3, <3>1, CheckerFrame
  <2> QED
    BY <1>9, <2>2, <2>3 DEF pollKey, unready
<1>10. CASE compareKey
  <2> DEFINE p == IF KeyChanged THEN "load" ELSE "poll"
             x == [chk EXCEPT !.pc = p, !.key = 0]
  <2>1. UNCHANGED <<disk, srv, ec, call, kept, crashes, losses>> /\ chk' = x
    BY <1>10 DEF compareKey
  <2>2. p \in {"load", "poll"}
    OBVIOUS
  <2> HIDE DEF p
  <2>3. x \in CheckerType /\ x.pc = p
    BY <1>1, <1>2, <2>2, FilesExist DEF CheckerType
  <2> HIDE DEF x
  <2> QED
    BY <1>1, <2>1, <2>2, <2>3, CheckerFrame
<1>11. CASE loadKey
  <2>1. UNCHANGED <<disk, srv, call, kept, crashes>>
    BY <1>11 DEF loadKey
  <2>2. CASE /\ srv.pc = "up" /\ ec' = [ec EXCEPT !.keystore = srv.ecc, !.shared = srv.ecc]
             /\ chk' = [chk EXCEPT !.pc = "post"] /\ UNCHANGED losses
    <3>1. chk' \in CheckerType
      BY <1>1, <1>2, <2>2 DEF CheckerType
    <3>2. ec' \in ClientType /\ ec'.shared = srv.ecc
      BY <1>1, <2>2 DEF ClientType
    <3> QED
      BY <1>1, <2>1, <2>2, <3>1, <3>2, CheckerFrame
  <2>3. CASE Fails /\ HandshakeFailed
    BY <1>1, <1>7, <1>8, <2>1, <2>3
  <2> QED
    BY <1>11, <2>2, <2>3 DEF loadKey
<1>12. CASE postHandshake
  <2> DEFINE cached == [srv EXCEPT !.cached = srv.ecc]
  <2>1. UNCHANGED <<disk, call, kept, crashes>> /\ chk.pc = "post"
    BY <1>12 DEF postHandshake
  <2>2. /\ cached \in ServiceType /\ cached.pc = srv.pc /\ cached.i = srv.i
        /\ cached.ecc = srv.ecc /\ cached.key = srv.key
    BY <1>1 DEF ServiceType
  <2>3. \/ /\ srv' = cached \/ UNCHANGED srv
           /\ \E text \in {"", "echo", "junk"} : chk' = [chk EXCEPT !.pc = "reply", !.reply = text]
           /\ UNCHANGED <<ec, losses>>
        \/ /\ srv' = cached \/ UNCHANGED srv
           /\ (losses < MaxLosses /\ losses' = losses + 1) \/ Fails
           /\ HandshakeFailed
    BY <1>12 DEF postHandshake
  <2> HIDE DEF cached
  <2>4. /\ srv' \in ServiceType /\ srv'.pc = srv.pc /\ srv'.i = srv.i
        /\ srv'.ecc = srv.ecc /\ srv'.key = srv.key
    BY <1>1, <2>2, <2>3
  <2>5. ASSUME NEW text \in {"", "echo", "junk"},
               chk' = [chk EXCEPT !.pc = "reply", !.reply = text], UNCHANGED <<ec, losses>>
        PROVE  EncipherInv'
    <3>1. chk' \in CheckerType /\ chk'.pc = "reply"
      BY <1>1, <1>2, <1>3, <2>5 DEF CheckerType
    <3> QED
      BY <1>1, <2>1, <2>4, <2>5, <3>1, CheckerFrame
  <2>6. CASE ((losses < MaxLosses /\ losses' = losses + 1) \/ Fails) /\ HandshakeFailed
    <3>1. losses' \in 0..MaxLosses
      BY <1>8, <2>6, LossBounded
    <3> QED
      BY <1>7, <2>1, <2>4, <2>6, <3>1
  <2> QED
    BY <2>3, <2>5, <2>6
<1>13. CASE readHandshake
  <2>1. UNCHANGED <<disk, srv, call, kept, crashes, losses>> /\ chk.pc = "reply"
    BY <1>13 DEF readHandshake
  <2>2. CASE ec' = [ec EXCEPT !.ready = TRUE] /\ chk' = again
    <3>1. ec' \in ClientType /\ ec'.shared = ec.shared
      BY <1>1, <2>2 DEF ClientType
    <3> QED
      BY <1>1, <1>5, <2>1, <2>2, <3>1, CheckerFrame
  <2>3. CASE UNCHANGED ec /\ chk' = again
    BY <1>1, <1>5, <2>1, <2>3, CheckerFrame
  <2>4. CASE HandshakeFailed
    BY <1>1, <1>7, <2>1, <2>4
  <2> QED
    BY <1>13, <2>2, <2>3, <2>4 DEF readHandshake, again
<1> QED
  BY <1>9, <1>10, <1>11, <1>12, <1>13 DEF Checker
(* A step of the caller changes its call and what it keeps of the answers. *)
LEMMA CallerFrame ==
    ASSUME EncipherInv, UNCHANGED <<disk, srv, ec, chk, crashes>>, losses' \in 0..MaxLosses,
           call' \in CallType, kept' \in [Makers -> Starts],
           \A op \in Makers : kept'[op] # 0 => Written /\ kept'[op] = disk[1],
           CallKept', CallOrder'
    PROVE  EncipherInv'
<1>1. EncipherTypes'
  BY DEF EncipherInv, EncipherTypes, CallType
<1>2. KeyKept' /\ KeyOrder'
  BY DEF EncipherInv, KeyKept, KeyOrder, Written
<1> QED
  BY <1>1, <1>2 DEF EncipherInv

(* The operation that made what an operation takes back keeps its result.  *)
LEMMA MakersKeep == /\ Takers \subseteq Ops /\ Makers \subseteq Ops
                    /\ \A op \in Takers : Maker[op] \in Makers
  BY DEF Ops, Takers, Maker, Makers

(* What the service makes of a plain text is the number of a key, or 0/1.  *)
LEMMA ResultType ==
    ASSUME EncipherInv, NEW op \in Ops, NEW plain
    PROVE  Result(op, plain) \in Starts
<1>1. srv.key \in Starts
  BY DEF EncipherInv, EncipherTypes
<1> QED
  BY <1>1, FilesExist DEF Ops, Result, Signature, TokenSignature, AesEncrypt, TokenEncrypt,
     TokenCreate, ReadConfig, EccEncrypt, Good, VerifySignature, TokenVerifySignature, AesDecrypt,
     EccDecrypt, TokenDecrypt, TokenVerify

(* On the caller's own text a service that is up makes a result with the   *)
(* key of the keystore, and finds what was made with that key good.        *)
LEMMA ResultOfOwnText ==
    ASSUME EncipherInv, NEW op \in Ops, srv.pc = "up",
           op \in Takers => kept[Maker[op]] # 0
    PROVE  /\ op \in Takers => Result(op, "in") = 1
           /\ op \in Makers => Written /\ Result(op, "in") = disk[1]
<1>1. Written /\ srv.key = disk[1]
  BY DEF EncipherInv, KeyKept
<1>2. CASE op \in Takers
  <2>1. kept[Maker[op]] = srv.key
    BY <1>1, <1>2, MakersKeep DEF EncipherInv, KeyKept
  <2>2. Good(Maker[op], "in") = 1
    BY <2>1 DEF Good
  <2>3. op \in {"SignatureVerify", "TokenSignatureVerify", "AesDecrypt", "EccDecrypt",
                "TokenDecrypt", "TokenVerify"}
    BY <1>2 DEF Takers, Maker
  <2>4. Result(op, "in") = Good(Maker[op], "in")
    BY <2>3 DEF Result, VerifySignature, TokenVerifySignature, AesDecrypt, EccDecrypt,
       TokenDecrypt, TokenVerify, Maker
  <2> QED
    BY <1>2, <2>2, <2>4 DEF Takers, Maker, Makers
<1>3. CASE op \in Makers
  <2>1. Result(op, "in") = srv.key
    BY <1>3 DEF Makers, Result, Signature, TokenSignature, AesEncrypt, TokenEncrypt, TokenCreate,
       ReadConfig
  <2> QED
    BY <1>1, <1>3, <2>1 DEF Takers, Maker, Makers
<1> QED
  BY <1>2, <1>3

(* Every step of the caller preserves the invariant.                       *)
LEMMA CallerPreserves ==
    ASSUME EncipherInv, Caller
    PROVE  EncipherInv'
<1>1. /\ call \in CallType /\ call.op \in Ops /\ call.enc \in Nat /\ ec.shared \in Starts
      /\ ec.shared \in Nat /\ srv.cached \in Starts /\ losses \in 0..MaxLosses
      /\ kept \in [Makers -> Starts]
      /\ \A op \in Makers : kept[op] # 0 => Written /\ kept[op] = disk[1]
  BY FilesExist DEF EncipherInv, EncipherTypes, CallType, KeyKept
<1>2. CallKept /\ CallOrder
  BY DEF EncipherInv
<1>3. /\ {"idle", "send", "check", "open", "accept"} \subseteq CallPlaces
      /\ {"", "in", "junk"} \subseteq Texts
  BY DEF CallPlaces, Texts
<1>4. Idle \in CallType /\ Idle.pc = "idle"
  BY <1>3, FilesExist DEF Idle, CallType, Ops
<1>5. ASSUME call' = Idle, UNCHANGED <<disk, srv, ec, chk, crashes>>, losses' \in 0..MaxLosses,
             kept' \in [Makers -> Starts],
             \A op \in Makers : kept'[op] # 0 => Written /\ kept'[op] = disk[1]
      PROVE  EncipherInv'
  <2>1. CallKept' /\ CallOrder'
    BY <1>4, <1>5 DEF CallKept, CallOrder
  <2> QED
    BY <1>4, <1>5, <2>1, CallerFrame
<1>6. ASSUME NEW op \in Ops, encrypt(op)
      PROVE  EncipherInv'
  <2> DEFINE x == [Idle EXCEPT !.pc = "send", !.op = op, !.enc = ec.shared]
  <2>1. /\ call' = x /\ UNCHANGED <<disk, srv, ec, chk, kept, crashes, losses>>
        /\ ec.ready /\ (op \in Takers => kept[Maker[op]] # 0)
    BY <1>6 DEF encrypt
  <2>2. x \in CallType /\ x.pc = "send" /\ x.op = op /\ x.enc = ec.shared
    BY <1>1, <1>3, <1>4 DEF CallType
  <2> HIDE DEF x
  <2>3. ec.shared # 0
    BY <2>1 DEF EncipherInv, KeyOrder
  <2>4. CallKept'
    BY <2>1, <2>2 DEF CallKept
  <2>5. CallOrder'
    BY <1>1, <2>1, <2>2, <2>3 DEF CallOrder
  <2> QED
    BY <1>1, <2>1, <2>2, <2>4, <2>5, CallerFrame
<1>7. CASE postCall
  <2>1. UNCHANGED <<disk, srv, ec, chk, kept, crashes>> /\ call.pc = "send"
    BY <1>7 DEF postCall
  <2>2. CASE Fails /\ call' = Idle
    <3>1. losses' \in 0..MaxLosses
      BY <2>2, LossBounded DEF Fails
    <3> QED
      BY <1>1, <1>5, <2>1, <2>2, <3>1
  <2>3. ASSUME NEW d \in decryptBody, srv.pc = "up", UNCHANGED losses,
               call' = [call EXCEPT !.pc = "check", !.plain = d.plain,
                                    !.res = Result(call.op, d.plain), !.signed = d.key]
        PROVE  EncipherInv'
    <3> DEFINE res == Result(call.op, d.plain)
               x == [call EXCEPT !.pc = "check", !.plain = d.plain, !.res = res, !.signed = d.key]
    <3>1. call.enc # 0 /\ call.enc <= ec.shared
      BY <1>2, <2>1 DEF CallOrder
    <3>2. /\ d.plain \in Texts /\ d.key \in Starts
          /\ IF d.plain = "in" THEN d.key = call.enc ELSE d.key # call.enc
      <4> HIDE DEF res, x
      <4>1. \/ srv.cached = call.enc /\ d = [plain |-> "in", key |-> srv.cached]
            \/ d = [plain |-> "", key |-> 0]
            \/ srv.cached # call.enc /\ d = [plain |-> "junk", key |-> srv.cached]
        BY DEF decryptBody
      <4>2. /\ d.plain \in {"", "in", "junk"} /\ d.key \in {0, srv.cached}
            /\ d.plain = "in" => d.key = call.enc
            /\ d.plain # "in" => d.key # call.enc
        <5>1. CASE srv.cached = call.enc /\ d = [plain |-> "in", key |-> srv.cached]
          BY <5>1
        <5>2. CASE d = [plain |-> "", key |-> 0]
          BY <3>1, <5>2
        <5>3. CASE srv.cached # call.enc /\ d = [plain |-> "junk", key |-> srv.cached]
          BY <5>3
        <5> QED
          BY <4>1, <5>1, <5>2, <5>3
      <4> QED
        BY <1>1, <1>3, <4>2, FilesExist
    <3>3. res \in Starts
      BY <1>1, ResultType
    <3>4. d.plain = "in" => /\ call.op \in Takers => res = 1
                            /\ call.op \in Makers => Written /\ res = disk[1]
      <4>1. call.op \in Takers => kept[Maker[call.op]] # 0
        BY <1>2, <2>1 DEF CallKept
      <4> QED
        BY <1>1, <2>3, <4>1, ResultOfOwnText
    <3>5. call' = x
      BY <2>3
    <3> HIDE DEF res
    <3>6. /\ x \in CallType /\ x.pc = "check" /\ x.op = call.op /\ x.enc = call.enc
          /\ x.plain = d.plain /\ x.res = res /\ x.signed = d.key
      BY <1>1, <1>3, <3>2, <3>3 DEF CallType
    <3> HIDE DEF x
    <3>7. CallKept'
      <4>1. /\ call'.pc = "check" /\ call'.op = call.op /\ call'.plain = d.plain /\ call'.res = res
            /\ disk' = disk
        BY <2>1, <3>5, <3>6
      <4>2. ASSUME d.plain = "in"
            PROVE  /\ call'.op \in Takers => call'.res = 1
                   /\ call'.op \in Makers => Written' /\ call'.res = disk'[1]
        <5>1. call.op \in Takers => call'.res = 1
          BY <3>4, <4>1, <4>2
        <5>2. call.op \in Makers => Written' /\ call'.res = disk'[1]
          BY <3>4, <4>1, <4>2 DEF Written
        <5> QED
          BY <4>1, <5>1, <5>2
      <4> QED
        BY <4>1, <4>2 DEF CallKept
    <3>8. CallOrder'
      BY <2>1, <3>1, <3>2, <3>5, <3>6 DEF CallOrder
    <3> QED
      BY <1>1, <2>1, <2>3, <3>5, <3>6, <3>7, <3>8, CallerFrame
  <2> QED
    BY <1>7, <2>2, <2>3 DEF postCall
<1>8. ASSUME NEW p \in {"open", "accept"}, NEW plain \in {call.plain, "junk"},
             UNCHANGED <<disk, srv, ec, chk, kept, crashes, losses>>,
             call' = [call EXCEPT !.pc = p, !.plain = plain], call.pc \in {"check", "open"},
             p = "open" => plain = call.plain,
             plain # "in" => ec.shared # call.enc
      PROVE  EncipherInv'
  <2> DEFINE x == [call EXCEPT !.pc = p, !.plain = plain]
  <2>1. call' = x
    BY <1>8
  <2>2. /\ x \in CallType /\ x.pc = p /\ x.op = call.op /\ x.enc = call.enc /\ x.plain = plain
        /\ x.res = call.res /\ x.signed = call.signed
    BY <1>1, <1>3, <1>8 DEF CallType
  <2> HIDE DEF x
  <2>3. CallKept'
    BY <1>2, <1>8, <2>1, <2>2 DEF CallKept, Written
  <2>4. CallOrder'
    BY <1>2, <1>8, <2>1, <2>2 DEF CallOrder
  <2> QED
    BY <1>1, <1>8, <2>1, <2>2, <2>3, <2>4, CallerFrame
<1>9. CASE checkAnswer
  <2>1. UNCHANGED <<disk, srv, ec, chk, kept, crashes, losses>> /\ call.pc = "check"
    BY <1>9 DEF checkAnswer
  <2>2. CASE ~SignValid
    <3>1. call' = Idle
      BY <1>9, <2>2 DEF checkAnswer
    <3> QED
      BY <1>1, <1>5, <2>1, <3>1
  <2>3. CASE SignValid
    <3>1. call.plain # "in" => ec.shared # call.enc
      BY <1>2, <2>1, <2>3 DEF CallOrder, SignValid
    <3>2. PICK p \in {"open", "accept"} : call' = [call EXCEPT !.pc = p]
      BY <1>9, <2>3 DEF checkAnswer
    <3>3. call' = [call EXCEPT !.pc = p, !.plain = call.plain]
      BY <1>1, <3>2 DEF CallType
    <3> QED
      BY <1>8, <2>1, <3>1, <3>3
  <2> QED
    BY <2>2, <2>3
<1>10. CASE openAnswer
  <2>1. UNCHANGED <<disk, srv, ec, chk, kept, crashes, losses>> /\ call.pc = "open"
    BY <1>10 DEF openAnswer
  <2>2. /\ call.plain = "in" => call.signed = call.enc
        /\ call.plain # "in" => ec.shared # call.enc
    BY <1>2, <2>1 DEF CallOrder
  <2>3. ASSUME NEW plain \in Texts, Opens(plain),
               call' = [call EXCEPT !.pc = "accept", !.plain = plain]
        PROVE  EncipherInv'
    <3>1. CASE plain = call.plain
      BY <1>8, <2>1, <2>2, <2>3, <3>1
    <3>2. CASE plain # call.plain
      <4>1. plain = "junk" /\ call.signed # ec.shared
        BY <2>3, <3>2 DEF Opens
      <4>2. ec.shared # call.enc
        BY <2>2, <4>1
      <4> QED
        BY <1>8, <2>1, <2>3, <4>1, <4>2
    <3> QED
      BY <3>1, <3>2
  <2>4. CASE call' = Idle
    BY <1>1, <1>5, <2>1, <2>4
  <2> QED
    BY <1>10, <2>3, <2>4 DEF openAnswer
<1>11. CASE accept
  <2>1. /\ UNCHANGED <<disk, srv, ec, chk, crashes, losses>> /\ call.pc = "accept" /\ call' = Idle
        /\ kept' = IF call.op \notin Makers \/ call.plain # "in" THEN kept
                   ELSE [op \in Makers |-> IF op = call.op THEN call.res ELSE 0]
    BY <1>11 DEF accept
  <2>2. call.res \in Starts
    BY <1>1 DEF CallType
  <2>3. call.plain = "in" /\ call.op \in Makers => Written /\ call.res = disk[1]
    BY <1>2, <2>1 DEF CallKept
  <2>4. /\ kept' \in [Makers -> Starts]
        /\ \A op \in Makers : kept'[op] # 0 => Written /\ kept'[op] = disk[1]
    BY <1>1, <2>1, <2>2, <2>3, FilesExist
  <2> QED
    BY <1>1, <1>5, <2>1, <2>4
<1> QED
  BY <1>6, <1>7, <1>9, <1>10, <1>11 DEF Caller

(* The invariant holds at the start.                                       *)
LEMMA EncipherInit == InitEncipher => EncipherInv
<1> SUFFICES ASSUME InitEncipher PROVE EncipherInv
  OBVIOUS
<1>1. /\ "down" \in ServicePlaces /\ "load" \in CheckerPlaces /\ "idle" \in CallPlaces
      /\ "" \in Replies /\ "" \in Texts /\ "Signature" \in Ops
  BY DEF ServicePlaces, CheckerPlaces, CallPlaces, Replies, Texts, Ops
<1>2. EncipherTypes
  <2>1. Idle \in CallType
    BY <1>1, FilesExist DEF Idle, CallType
  <2>2. srv \in ServiceType
    <3>1. 1 \in 1..(Len(Files) + 1)
      BY FilesExist
    <3> QED
      BY <1>1, <3>1, FilesExist DEF InitEncipher, ServiceType
  <2>3. ec \in ClientType /\ chk \in CheckerType
    BY <1>1, FilesExist DEF InitEncipher, ClientType, CheckerType
  <2>4. /\ disk \in [1..Len(Files) -> Starts \cup {Empty}]
        /\ kept \in [Makers -> Starts]
    BY FilesExist DEF InitEncipher
  <2>5. crashes \in 0..MaxCrashes /\ losses \in 0..MaxLosses /\ call = Idle
    <3>1. crashes = 0 /\ losses = 0 /\ call = Idle
      BY DEF InitEncipher
    <3> QED
      BY <3>1, BoundsAssumption
  <2> QED
    BY <2>1, <2>2, <2>3, <2>4, <2>5 DEF EncipherTypes, ServiceType, ClientType, CheckerType, CallType
<1>3. KeyKept
  BY DEF InitEncipher, KeyKept
<1>4. CallKept /\ CallOrder
  BY DEF InitEncipher, CallKept, CallOrder, Idle
<1>5. KeyOrder
  <2>1. /\ srv.pc = "down" /\ srv.ecc = 0 /\ crashes = 0
        /\ ec.shared = 0 /\ ec.ready = FALSE /\ chk.pc = "load"
    BY DEF InitEncipher
  <2> QED
    BY <2>1 DEF KeyOrder
<1> QED
  BY <1>2, <1>3, <1>4, <1>5 DEF EncipherInv

(* The invariant holds always.                                             *)
LEMMA EncipherInvariance == EncipherSpec => []EncipherInv
<1>1. ASSUME EncipherInv, [NextEncipher]_encipherVars
      PROVE  EncipherInv'
  <2>1. CASE NextEncipher
    BY <1>1, <2>1, ServicePreserves, CheckerPreserves, CallerPreserves DEF NextEncipher
  <2>2. CASE UNCHANGED encipherVars
    BY <1>1, <2>2 DEF encipherVars, EncipherInv, EncipherTypes, KeyKept, CallKept, KeyOrder,
       CallOrder, Written
  <2> QED
    BY <1>1, <2>1, <2>2
<1> QED
  BY <1>1, EncipherInit, PTL DEF EncipherSpec

(* The types of the encipher service and its client, for any files and     *)
(* any number of crashes and losses.                                       *)
THEOREM EncipherTypeCorrect == EncipherSpec => []EncipherTypes
<1>1. EncipherInv => EncipherTypes
  BY DEF EncipherInv
<1> QED
  BY <1>1, EncipherInvariance, PTL

(* Every answer of the service to the caller's own text verifies or        *)
(* decrypts what it once made, however often it crashes while it creates   *)
(* its files (LoadConfig): the keystore is written at most once.           *)
THEOREM ResultsGoodForEver == EncipherSpec => []RoundTrips
<1>1. EncipherInv => RoundTrips
  BY DEF EncipherInv, CallKept, RoundTrips
<1> QED
  BY <1>1, EncipherInvariance, PTL

(* An answer that the client accepts and that is not to what it sent was   *)
(* overtaken by a handshake: the keys of a service only get younger.       *)
THEOREM AnswersMatch == EncipherSpec => []AnswerMatches
<1>1. EncipherInv => AnswerMatches
  BY DEF EncipherInv, CallOrder, AnswerMatches
<1> QED
  BY <1>1, EncipherInvariance, PTL
=============================================================================

--------------------------------- MODULE Amqp ---------------------------------
(***************************************************************************)
(* RabbitMQ publisher (amqp/publish.go) and receiver (amqp/pull.go) with   *)
(* the broker between them.  Callers publish to one queue through the      *)
(* manager's cached channel, which a watcher replaces when it closes; one  *)
(* receiver consumes the queue over a connection of its own.               *)
(*                                                                         *)
(* A message is a caller's *MsgData, whose Content is a JSON object at     *)
(* first.  PublishMsgData overwrites the Content by the encoded one, so    *)
(* the object is modelled by the number of encodings around it.  A copy is *)
(* one message sent, with the marks OnReceive looks at: its encodings, the *)
(* encryption and the signature.  The broker keeps the queue (durable) but *)
(* not its messages (no delivery mode is set, so they are transient) over  *)
(* a restart.                                                              *)
(***************************************************************************)
EXTENDS Integers, Sequences, FiniteSets

CONSTANTS
    Callers,    \* goroutines that call PublishMsgData or Queue
    Messages,   \* the objects they publish
    None,
    SigTyp,     \* Option.SigTyp on both sides: 0 signs only, 1 encrypts too
    MaxTries,   \* bound: calls of PublishMsgData that encode one object
    MaxForeign, \* bound: copies sent by others
    MaxCopies,  \* bound: copies sent, by these callers and by others
    MaxFaults   \* bound: faults of the network, the broker and the callback

Query == "query"        \* the argument of a caller of Queue

ASSUME AmqpAssumption ==
    /\ None \notin Nat \cup Callers \cup Messages \cup {Query}
    /\ SigTyp \in {0, 1}
    /\ MaxTries \in Nat /\ MaxForeign \in Nat /\ MaxCopies \in Nat /\ MaxFaults \in Nat

VARIABLES
    pconn,      \* PublishManager.conn is usable
    popen,      \* the open channels of that connection
    pgen,       \* channels opened so far; a channel is its number
    pub,        \* channels[chanKey]: None, or the channel of the PublishMQ
    watch,      \* its watcher: "none", "watch", "reopen" (in listen)
    mu0,        \* holder of the mutex mu0, or None
    pc, arg, chan,   \* of each caller: where it is, its object, its channel
    encoded,    \* of each message: the encodings its Content is wrapped in
    copies,     \* the copies sent, in order
    flight,     \* the copies between the publisher and the broker
    queue,      \* the copies ready in the queue
    unacked,    \* the copy delivered and not acknowledged, or 0
    rconn,      \* PullManager.conn is usable
    ropen,      \* the receiver's channel is open
    rpc,        \* the receiver: "getChannel", "declare", "consume", "select",
                \* "callback", "ack", "dead" (listen has returned)
    inbox,      \* the copy in msgs, or 0
    cur,        \* the copy being processed, or 0
    config,     \* Config.IsNack, and what ContentInter decodes into: an
                \* "object" (a map or a struct), or "any" (an interface{})
    settled,    \* history: the copies OnReceive has returned true for
    called,     \* history: the copies handed to the callback, each with the
                \* encodings left around the value
    faults

caller == <<mu0, pc, arg, chan, encoded>>
link == <<pconn, popen, pgen, pub, watch>>
broker == <<copies, flight, queue, unacked>>
receiver == <<rconn, ropen, rpc, inbox, cur, config, settled, called>>
vars == <<caller, link, broker, receiver, faults>>

Copies == 1..MaxCopies
Configs == [isNack : BOOLEAN, target : {"object", "any"}]

(* The publisher's manager is connected and has cached no channel.         *)
PublisherInit ==
    /\ pconn = TRUE /\ popen = {} /\ pgen = 0 /\ pub = None /\ watch = "none"
    /\ mu0 = None
    /\ pc = [t \in Callers |-> "idle"]
    /\ arg = [t \in Callers |-> None]
    /\ chan = [t \in Callers |-> None]
    /\ encoded = [m \in Messages |-> 0]

(* The receiver's manager is connected; AddPullReceiver has started listen *)
(* in a goroutine.                                                         *)
ReceiverInit ==
    /\ rconn = TRUE /\ ropen = FALSE /\ rpc = "getChannel"
    /\ inbox = 0 /\ cur = 0 /\ config \in Configs
    /\ settled = {} /\ called = {}

Init ==
    /\ PublisherInit
    /\ ReceiverInit
    /\ copies = <<>> /\ flight = {} /\ queue = <<>> /\ unacked = 0
    /\ faults = 0

Fault ==
    /\ faults < MaxFaults
    /\ faults' = faults + 1

-----------------------------------------------------------------------------
(* Publisher.                                                              *)

Goto(t, at) == pc' = [pc EXCEPT ![t] = at]

(* The call goes on at at; it has ended when that is "idle".               *)
Proceed(t, at) ==
    /\ Goto(t, at)
    /\ arg' = IF at = "idle" THEN [arg EXCEPT ![t] = None] ELSE arg

(* The caller passes its object: a new one, or one whose sending failed,   *)
(* for every object is published until it has been sent once.              *)
Busy(m) == \E t \in Callers : pc[t] # "idle" /\ arg[t] = m
Sent(m) == \E i \in DOMAIN copies : copies[i].msg = m

(* Where initQueue returns to: Queue ends there.                           *)
AfterInit(t) == IF arg[t] = Query THEN "idle" ELSE "send"

(* initQueue, up to the mutex: a cached PublishMQ is used as it is.        *)
Call(t, a) ==
    /\ pc[t] = "idle"
    /\ arg' = [arg EXCEPT ![t] = a]
    /\ Goto(t, IF pub = None THEN "lock" ELSE "send")
    /\ UNCHANGED <<mu0, chan, encoded, link, broker, receiver, faults>>

PublishMsgData(t, m) ==
    /\ Len(copies) < MaxCopies /\ encoded[m] < MaxTries
    /\ ~Busy(m) /\ ~Sent(m)
    /\ Call(t, m)

Queue(t) == pub = None /\ Call(t, Query)

(* Faulty: the map is not looked up again under the mutex.                 *)
InitQueueNoRecheck(t) ==
    /\ pc[t] = "lock"
    /\ mu0 = None
    /\ mu0' = t
    /\ Goto(t, "getChannel")
    /\ UNCHANGED <<arg, chan, encoded, link, broker, receiver, faults>>

(* initQueue takes mu0 and looks again.                                    *)
InitQueue(t) ==
    /\ pc[t] = "lock"
    /\ mu0 = None
    /\ \/ /\ pub = None
          /\ mu0' = t
          /\ Proceed(t, "getChannel")
       \/ /\ pub # None
          /\ Proceed(t, AfterInit(t))
          /\ UNCHANGED mu0
    /\ UNCHANGED <<chan, encoded, link, broker, receiver, faults>>

(* Faulty: the connection is not dialled again.                            *)
OpenChannelNoRedial(g) ==
    /\ pconn
    /\ pgen' = pgen + 1
    /\ popen' = popen \cup {pgen + 1}
    /\ g = pgen + 1
    /\ UNCHANGED <<pconn, faults>>

(* openChannel, under mu, from the loop of getChannel.  On a closed        *)
(* connection (504) it dials again and still returns the error, so that    *)
(* getChannel comes back after a pause; then g = None.                     *)
OpenChannel(g) ==
    \/ /\ pconn
       /\ pgen' = pgen + 1
       /\ popen' = popen \cup {pgen + 1}
       /\ g = pgen + 1
       /\ UNCHANGED <<pconn, faults>>
    \/ /\ ~pconn
       /\ pconn' = TRUE
       /\ g = None
       /\ UNCHANGED <<popen, pgen, faults>>
    \/ /\ Fault             \* Channel() or the dial fails
       /\ g = None
       /\ UNCHANGED <<pconn, popen, pgen>>

GetChannel(t) ==
    /\ pc[t] = "getChannel"
    /\ \E g \in {None, pgen + 1} :
        /\ OpenChannel(g)
        /\ chan' = [chan EXCEPT ![t] = g]
        /\ Goto(t, IF g = None THEN "getChannel" ELSE "prepare")
    /\ UNCHANGED <<mu0, arg, encoded, pub, watch, broker, receiver>>

(* prepareExchange and prepareQueue succeed: the PublishMQ is cached and   *)
(* its watcher started (listen).                                           *)
PrepareQueue(t) ==
    /\ pc[t] = "prepare"
    /\ chan[t] \in popen
    /\ pub' = chan[t]
    /\ watch' = "watch"
    /\ mu0' = None
    /\ Proceed(t, AfterInit(t))
    /\ chan' = [chan EXCEPT ![t] = None]
    /\ UNCHANGED <<encoded, pconn, popen, pgen, broker, receiver, faults>>

(* A declaration fails: on a closed channel, or because the broker refuses *)
(* it, and then closes the channel.  The caller gets the error.            *)
PrepareQueueFails(t) ==
    /\ pc[t] = "prepare"
    /\ \/ chan[t] \notin popen /\ UNCHANGED faults
       \/ chan[t] \in popen /\ Fault
    /\ popen' = popen \ {chan[t]}
    /\ mu0' = None
    /\ Proceed(t, "idle")
    /\ chan' = [chan EXCEPT ![t] = None]
    /\ UNCHANGED <<encoded, pconn, pgen, pub, watch, broker, receiver>>

(* PublishMsgData encodes the Content in place (JSON, Base64, and AES when *)
(* SigTyp is 1) whatever it holds, and signs it; sendMessage reads         *)
(* pub.channel, without pub.mu ...                                         *)
Encode(t) ==
    /\ pc[t] = "send"
    /\ encoded' = [encoded EXCEPT ![arg[t]] = @ + 1]
    /\ chan' = [chan EXCEPT ![t] = pub]
    /\ Goto(t, "publish")
    /\ UNCHANGED <<mu0, arg, link, broker, receiver, faults>>

(* The copy of an object as PublishMsgData has encoded and signed it.      *)
Sealed(m) == [msg |-> m, enc |-> encoded[m], aes |-> SigTyp = 1, signed |-> TRUE]

(* ... and publishes on it.  No confirmation is awaited: nil says that the *)
(* copy was written.  On a closed channel the caller gets the error.       *)
SendMessage(t) ==
    /\ pc[t] = "publish"
    /\ Proceed(t, "idle")
    /\ chan' = [chan EXCEPT ![t] = None]
    /\ IF chan[t] \in popen
       THEN /\ Len(copies) < MaxCopies
            /\ copies' = Append(copies, Sealed(arg[t]))
            /\ flight' = flight \cup {Len(copies) + 1}
       ELSE UNCHANGED <<copies, flight>>
    /\ UNCHANGED <<mu0, encoded, link, queue, unacked, receiver, faults>>

(* The watcher is told that the channel has closed (NotifyClose).          *)
NotifyClose ==
    /\ watch = "watch"
    /\ pub \notin popen
    /\ watch' = "reopen"
    /\ UNCHANGED <<caller, pconn, popen, pgen, pub, broker, receiver, faults>>

(* listen replaces the channel and declares nothing.                       *)
Reopen ==
    /\ watch = "reopen"
    /\ \E g \in {None, pgen + 1} :
        /\ OpenChannel(g)
        /\ pub' = IF g = None THEN pub ELSE g
        /\ watch' = IF g = None THEN "reopen" ELSE "watch"
    /\ UNCHANGED <<caller, broker, receiver>>

-----------------------------------------------------------------------------
(* Broker and network (external).                                          *)

BrokerTakes ==
    /\ \E c \in flight :
        /\ \A d \in flight : c <= d
        /\ flight' = flight \ {c}
        /\ queue' = Append(queue, c)
    /\ UNCHANGED <<caller, link, copies, unacked, receiver, faults>>

(* Somebody else's message: without a signature by the shared key, or      *)
(* published by this library under the other SigTyp, and then shorter than *)
(* an initial vector of AesDecrypt2, which refuses it.                     *)
Foreign ==
    {[msg |-> None, enc |-> 0, aes |-> FALSE, signed |-> FALSE],
     [msg |-> None, enc |-> 1, aes |-> SigTyp = 0, signed |-> TRUE]}

ForeignMessage ==
    /\ Len(copies) < MaxCopies
    /\ Cardinality({i \in DOMAIN copies : copies[i].msg = None}) < MaxForeign
    /\ \E e \in Foreign : copies' = Append(copies, e)
    /\ queue' = Append(queue, Len(copies) + 1)
    /\ UNCHANGED <<caller, link, flight, unacked, receiver, faults>>

(* The broker sends the consumer its next copy (prefetch 1).               *)
BrokerDelivers ==
    /\ ropen /\ rpc \in {"select", "callback", "ack"}
    /\ unacked = 0 /\ inbox = 0 /\ queue # <<>>
    /\ unacked' = Head(queue)
    /\ inbox' = Head(queue)
    /\ queue' = Tail(queue)
    /\ UNCHANGED <<caller, link, copies, flight, rconn, ropen, rpc, cur, config, settled, called, faults>>

(* The publisher's connection breaks; what was written may be lost.        *)
PublisherBreaks ==
    /\ Fault
    /\ pconn
    /\ pconn' = FALSE
    /\ popen' = {}
    /\ flight' \in SUBSET flight
    /\ UNCHANGED <<caller, pgen, pub, watch, copies, queue, unacked, receiver>>

Requeue == IF unacked = 0 THEN queue ELSE <<unacked>> \o queue

(* The receiver's channel closes, with its connection or alone.            *)
ReceiverBreaks(conn) ==
    /\ Fault
    /\ ropen
    /\ ropen' = FALSE
    /\ rconn' = ~conn
    /\ queue' = Requeue
    /\ unacked' = 0
    /\ UNCHANGED <<caller, link, copies, flight, rpc, inbox, cur, config, settled, called>>

BrokerRestarts ==
    /\ Fault
    /\ pconn' = FALSE /\ popen' = {} /\ rconn' = FALSE /\ ropen' = FALSE
    /\ flight' = {} /\ queue' = <<>> /\ unacked' = 0
    /\ UNCHANGED <<caller, pgen, pub, watch, copies, rpc, inbox, cur, config, settled, called>>

-----------------------------------------------------------------------------
(* Receiver.                                                               *)

(* listen starts with getChannel: as for the publisher.                    *)
ReceiverGetChannel ==
    /\ rpc = "getChannel"
    /\ \/ rconn /\ ropen' = TRUE /\ rpc' = "declare" /\ UNCHANGED <<rconn, faults>>
       \/ ~rconn /\ rconn' = TRUE /\ UNCHANGED <<ropen, rpc, faults>>
       \/ Fault /\ UNCHANGED <<rconn, ropen, rpc>>
    /\ UNCHANGED <<caller, link, broker, inbox, cur, config, settled, called>>

Declare ==
    /\ rpc = "declare"
    /\ ropen
    /\ rpc' = "consume"
    /\ UNCHANGED <<caller, link, broker, rconn, ropen, inbox, cur, config, settled, called, faults>>

(* A declaration fails: listen reports it and returns, and nobody calls it *)
(* again.                                                                  *)
DeclareFails ==
    /\ rpc = "declare"
    /\ IF ropen THEN Fault ELSE UNCHANGED faults
    /\ ropen' = FALSE
    /\ rpc' = "dead"
    /\ UNCHANGED <<caller, link, broker, rconn, inbox, cur, config, settled, called>>

(* Qos and Consume.  Their errors are only reported: the broker has closed *)
(* the channel, msgs is nil, and the loop goes on to the notice of that.   *)
Consume ==
    /\ rpc = "consume"
    /\ rpc' = "select"
    /\ inbox' = 0
    /\ \/ UNCHANGED <<ropen, faults>>
       \/ ropen /\ Fault /\ ropen' = FALSE
    /\ UNCHANGED <<caller, link, broker, rconn, cur, config, settled, called>>

(* OnReceive: the Signature is there and is the HMAC of the Content under  *)
(* the shared key.                                                         *)
Verified(c) == copies[c].signed

(* AesDecrypt2 when the receiver's SigTyp is 1, then Base64Decode, yield   *)
(* JSON: not from an unencrypted Content in the first case, nor from a     *)
(* cipher text in the second.                                              *)
Decrypted(c) == copies[c].aes <=> SigTyp = 1

(* JsonUnmarshal takes one encoding off.  None is left around the object   *)
(* that was published; a Content that an earlier call had encoded already  *)
(* comes out as a string.                                                  *)
Decoded(c) == copies[c].enc - 1

(* Faulty: the error of the conversion is logged, and no more.             *)
ConvertsLogged(c) == TRUE

(* The value goes into the map or struct if it is an object, and into an   *)
(* interface{} in any case.                                                *)
Converts(c) == Decoded(c) = 0 \/ config.target = "any"

(* OnReceive goes on to the callback; every other copy it discards.        *)
Acceptable(c) == Verified(c) /\ Decrypted(c) /\ Converts(c)

(* Faulty: the delivery is acknowledged before it is processed.            *)
ReceiveAckFirst ==
    /\ rpc = "select"
    /\ inbox # 0
    /\ cur' = inbox
    /\ inbox' = 0
    /\ rpc' = "callback"
    /\ unacked' = 0
    /\ UNCHANGED <<caller, link, copies, flight, queue, rconn, ropen, config, settled, called, faults>>

(* The select takes a delivery, which OnReceive may discard.               *)
Receive ==
    /\ rpc = "select"
    /\ inbox # 0
    /\ cur' = inbox
    /\ inbox' = 0
    /\ \/ /\ Acceptable(inbox)
          /\ rpc' = "callback"
          /\ UNCHANGED settled
       \/ /\ ~Acceptable(inbox)
          /\ rpc' = "ack"
          /\ settled' = settled \cup {inbox}
    /\ UNCHANGED <<caller, link, broker, rconn, ropen, config, called, faults>>

Handed(c) == [copy |-> c, value |-> Decoded(c)]

(* The callback, at the end of OnReceive.  When it fails and IsNack is set *)
(* the same copy is tried again after the delay, for as long as it takes.  *)
OnReceive(ok) ==
    /\ rpc = "callback"
    /\ IF ok THEN UNCHANGED faults ELSE Fault
    /\ called' = called \cup {Handed(cur)}
    /\ \/ /\ ok \/ ~config.isNack
          /\ rpc' = "ack"
          /\ settled' = settled \cup {cur}
       \/ /\ ~ok /\ config.isNack
          /\ UNCHANGED <<rpc, settled>>
    /\ UNCHANGED <<caller, link, broker, rconn, ropen, inbox, cur, config>>

(* Ack, whose error (the channel has closed) is only logged.               *)
Ack ==
    /\ rpc = "ack"
    /\ rpc' = "select"
    /\ cur' = 0
    /\ unacked' = IF ropen THEN 0 ELSE unacked
    /\ UNCHANGED <<caller, link, copies, flight, queue, rconn, ropen, inbox, config, settled, called, faults>>

(* The select takes the notice that the channel has closed.                *)
CloseNotice ==
    /\ rpc = "select"
    /\ ~ropen
    /\ rpc' = "getChannel"
    /\ inbox' = 0
    /\ UNCHANGED <<caller, link, broker, rconn, ropen, cur, config, settled, called, faults>>

-----------------------------------------------------------------------------
CallerStep(t) ==
    \/ InitQueue(t) \/ GetChannel(t)
    \/ PrepareQueue(t) \/ PrepareQueueFails(t)
    \/ Encode(t) \/ SendMessage(t)

ReceiverStep ==
    \/ ReceiverGetChannel \/ Declare \/ DeclareFails \/ Consume
    \/ Receive \/ OnReceive(TRUE) \/ OnReceive(FALSE) \/ Ack \/ CloseNotice

Next ==
    \/ \E t \in Callers : CallerStep(t) \/ Queue(t) \/ \E m \in Messages : PublishMsgData(t, m)
    \/ NotifyClose \/ Reopen
    \/ BrokerTakes \/ ForeignMessage \/ BrokerDelivers
    \/ PublisherBreaks \/ BrokerRestarts
    \/ ReceiverBreaks(TRUE) \/ ReceiverBreaks(FALSE)
    \/ ReceiverStep

(* Every goroutine and the broker go on; faults are bounded, so the loops  *)
(* that retry until the network works again end.                           *)
Fairness ==
    /\ \A t \in Callers : WF_vars(CallerStep(t))
    /\ WF_vars(NotifyClose \/ Reopen)
    /\ WF_vars(BrokerTakes) /\ WF_vars(BrokerDelivers)
    /\ WF_vars(ReceiverStep)

Spec == Init /\ [][Next]_vars /\ Fairness

-----------------------------------------------------------------------------
Elements(s) == {s[i] : i \in DOMAIN s}
Kept == Elements(queue) \cup ({unacked} \ {0})

Sendable == [msg : Messages \cup {None}, enc : Nat, aes : BOOLEAN, signed : BOOLEAN]

PublisherTypes ==
    /\ pconn \in BOOLEAN
    /\ pgen \in Nat
    /\ popen \subseteq 1 .. pgen
    /\ pub \in {None} \cup 1 .. pgen
    /\ watch \in {"none", "watch", "reopen"}
    /\ mu0 \in Callers \cup {None}
    /\ pc \in [Callers -> {"idle", "lock", "getChannel", "prepare", "send", "publish"}]
    /\ arg \in [Callers -> Messages \cup {None, Query}]
    /\ chan \in [Callers -> {None} \cup 1 .. pgen]
    /\ encoded \in [Messages -> Nat]

ReceiverTypes ==
    /\ copies \in Seq(Sendable) /\ Len(copies) <= MaxCopies
    /\ flight \subseteq DOMAIN copies
    /\ queue \in Seq(Nat) /\ Elements(queue) \subseteq DOMAIN copies
    /\ unacked \in DOMAIN copies \cup {0}
    /\ inbox \in DOMAIN copies \cup {0}
    /\ cur \in DOMAIN copies \cup {0}
    /\ rconn \in BOOLEAN /\ ropen \in BOOLEAN /\ config \in Configs
    /\ rpc \in {"getChannel", "declare", "consume", "select", "callback", "ack", "dead"}
    /\ settled \subseteq DOMAIN copies
    /\ called \subseteq [copy : DOMAIN copies, value : Nat]

TypeOK ==
    /\ PublisherTypes
    /\ ReceiverTypes
    /\ faults \in 0 .. MaxFaults

(* The broker's queue with the receiver implements Delivery: across every  *)
(* reconnect and redelivery, pull.go acknowledges a copy only once         *)
(* OnReceive has ended for it.                                             *)
D == INSTANCE Delivery WITH kept <- Kept, settled <- settled
AtLeastOnce == D!Spec

(* publish.go opens one channel per exchange, router and queue: whatever   *)
(* callers race in initQueue and whatever declarations fail, every open    *)
(* channel is the cached one or the one being prepared under mu0, so that  *)
(* none is leaked.                                                         *)
NoChannelLeak ==
    \A g \in popen : g = pub \/ \E t \in Callers : mu0 = t /\ chan[t] = g

(* What PublishMsgData publishes is what OnReceive hands to the callback,  *)
(* over every check in between.  No object that was encoded once is        *)
(* discarded: when its copy is settled the callback has had the original.  *)
(* And the callback has had nothing but originals, although a call that    *)
(* failed leaves its object encoded and the retry encodes it again, except *)
(* that a receiver that decodes into an interface{} gets such a Content as *)
(* a string.                                                               *)
CallbackSeesOriginal ==
    /\ \A c \in settled :
        copies[c].msg \in Messages /\ copies[c].enc = 1 => [copy |-> c, value |-> 0] \in called
    /\ \A h \in called :
        h.value = 0 \/ (config.target = "any" /\ copies[h.copy].enc > 1)

(* Once the faults end, a publisher whose channel closed works again       *)
(* (listen), and every copy in the queue is settled, unless the receiver   *)
(* gave up because a declaration failed on a reconnect (listen returns).   *)
EventuallyWorks ==
    /\ (pub # None /\ pub \notin popen) ~> (pub \in popen)
    /\ \A c \in Copies : (c \in Kept) ~> (c \in settled \/ c \notin Kept \/ rpc = "dead")

=============================================================================

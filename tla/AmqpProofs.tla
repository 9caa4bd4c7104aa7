------------------------------ MODULE AmqpProofs ------------------------------
(***************************************************************************)
(* Proofs about Amqp, for any callers, messages and bounds: the channels   *)
(* of the publisher, the copies the callback sees, and that the queue with *)
(* the receiver implements Delivery.                                       *)
(***************************************************************************)
EXTENDS Amqp, TLAPS, SequenceTheorems

(* The mutex mu0 is held from the lookup of the cached channel until the   *)
(* new one is cached, and a caller has a channel of its own only while it  *)
(* prepares one or publishes on one.                                       *)
MutexHeld ==
    \A t \in Callers :
        /\ pc[t] \in {"getChannel", "prepare"} <=> mu0 = t
        /\ mu0 = t => pub = None
        /\ pc[t] = "prepare" => chan[t] # None
        /\ pc[t] \notin {"prepare", "publish"} => chan[t] = None

(* The watcher runs as soon as a channel is cached, and reopens only a     *)
(* channel that has closed.                                                *)
Watched ==
    /\ watch = "none" <=> pub = None
    /\ watch = "reopen" => pub \notin popen

(* A caller has an argument until its call ends; one that sends has an     *)
(* object, which is encoded before it is sent.                             *)
HasObject ==
    \A t \in Callers :
        /\ pc[t] # "idle" => arg[t] # None
        /\ pc[t] \in {"send", "publish"} => arg[t] \in Messages
        /\ pc[t] = "publish" => encoded[arg[t]] # 0

PublisherInv == MutexHeld /\ Watched /\ HasObject /\ NoChannelLeak

(* A copy that is signed was encoded; the copies of the callers' objects   *)
(* are signed, and encrypted as the receiver expects.                      *)
CopiesSealed ==
    \A i \in DOMAIN copies :
        /\ copies[i].signed => copies[i].enc # 0
        /\ copies[i].msg \in Messages => Verified(i) /\ Decrypted(i)

(* A copy is at one place: on its way to the broker, once in the queue, or *)
(* delivered.                                                              *)
NoRepeat(s) == \A i, j \in DOMAIN s : s[i] = s[j] => i = j
Known == Kept \cup settled \cup {inbox, cur}
OnePlace ==
    /\ flight \cap Known = {}
    /\ NoRepeat(queue)
    /\ unacked \notin Elements(queue)

(* What is unacknowledged is what the receiver was last delivered on its   *)
(* open channel and has not acknowledged.                                  *)
DeliveredIsUnacked ==
    /\ ~ropen => unacked = 0
    /\ rpc \in {"getChannel", "dead"} => ~ropen
    /\ rpc \in {"declare", "consume"} => unacked = 0
    /\ rpc = "select" /\ ropen => inbox = unacked
    /\ rpc \in {"callback", "ack"} => cur # 0
    /\ rpc \in {"callback", "ack"} /\ ropen => unacked = cur /\ inbox = 0
    /\ rpc = "ack" => cur \in settled

(* The callback is for a copy that OnReceive accepted; it has had these    *)
(* and, once they are settled, all of these.                               *)
AcceptedCalled ==
    /\ rpc = "callback" => Acceptable(cur)
    /\ \A h \in called : Acceptable(h.copy) /\ h.value = Decoded(h.copy)
    /\ \A c \in settled : Acceptable(c) => Handed(c) \in called

ReceiverInv == CopiesSealed /\ OnePlace /\ DeliveredIsUnacked /\ AcceptedCalled

IInv == TypeOK /\ PublisherInv /\ ReceiverInv

-----------------------------------------------------------------------------
(* The publisher's side of the invariant.                                  *)

(* The publisher starts with nothing cached and nobody in a call.          *)
LEMMA InitPublisher == Init => PublisherTypes /\ PublisherInv
<1> SUFFICES ASSUME Init PROVE PublisherTypes /\ PublisherInv
  OBVIOUS
<1> USE AmqpAssumption DEF Init, PublisherInit
<1>1. PublisherTypes
  BY DEF PublisherTypes
<1>2. PublisherInv
  BY DEF PublisherInv, MutexHeld, Watched, HasObject, NoChannelLeak
<1> QED
  BY <1>1, <1>2

(* A step that leaves the callers and the link alone.                      *)
LEMMA PublisherUnchanged ==
    ASSUME PublisherTypes, PublisherInv, UNCHANGED <<caller, link>>
    PROVE  PublisherTypes' /\ PublisherInv'
<1>1. PublisherTypes'
  BY DEF caller, link, PublisherTypes
<1>2. PublisherInv'
  BY DEF caller, link, PublisherInv, MutexHeld, Watched, HasObject, NoChannelLeak
<1> QED
  BY <1>1, <1>2

(* The connection of the publisher breaks: it has no open channel.         *)
LEMMA PublisherDisconnected ==
    ASSUME PublisherTypes, PublisherInv, UNCHANGED <<caller, pgen, pub, watch>>,
           pconn' = FALSE, popen' = {}
    PROVE  PublisherTypes' /\ PublisherInv'
<1>1. PublisherTypes'
  BY DEF caller, PublisherTypes
<1>2. PublisherInv'
  BY DEF caller, PublisherInv, MutexHeld, Watched, HasObject, NoChannelLeak
<1> QED
  BY <1>1, <1>2

(* The step Call preserves the publisher's side.                           *)
LEMMA CallPublisher ==
    ASSUME PublisherTypes, PublisherInv, NEW t \in Callers, NEW a \in Messages \cup {Query},
           Call(t, a), a \in Messages \/ pub = None
    PROVE  PublisherTypes' /\ PublisherInv'
<1> USE AmqpAssumption
<1>1. PublisherTypes'
  BY DEF Call, Goto, link, PublisherTypes
<1>2. MutexHeld'
  BY DEF Call, Goto, link, PublisherTypes, PublisherInv, MutexHeld
<1>3. Watched'
  BY DEF Call, link, PublisherInv, Watched
<1>4. HasObject'
  BY DEF Call, Goto, link, PublisherTypes, PublisherInv, HasObject
<1>5. NoChannelLeak'
  BY DEF Call, link, PublisherInv, NoChannelLeak
<1> QED
  BY <1>1, <1>2, <1>3, <1>4, <1>5 DEF PublisherInv

(* The step InitQueue preserves the publisher's side.                      *)
LEMMA InitQueuePublisher ==
    ASSUME PublisherTypes, PublisherInv, NEW t \in Callers, InitQueue(t)
    PROVE  PublisherTypes' /\ PublisherInv'
<1> USE AmqpAssumption DEF InitQueue, Proceed, Goto, AfterInit
<1>1. PublisherTypes'
  BY DEF link, PublisherTypes
<1>2. MutexHeld'
  BY DEF link, PublisherTypes, PublisherInv, MutexHeld
<1>3. Watched'
  BY DEF link, PublisherInv, Watched
<1>4. HasObject'
  <2> SUFFICES ASSUME NEW u \in Callers
               PROVE  /\ pc'[u] # "idle" => arg'[u] # None
                      /\ pc'[u] \in {"send", "publish"} => arg'[u] \in Messages
                      /\ pc'[u] = "publish" => encoded'[arg'[u]] # 0
    BY DEF HasObject
  <2> QED
    BY DEF link, PublisherTypes, PublisherInv, HasObject
<1>5. NoChannelLeak'
  BY DEF link, PublisherTypes, PublisherInv, NoChannelLeak
<1> QED
  BY <1>1, <1>2, <1>3, <1>4, <1>5 DEF PublisherInv

(* openChannel either opens a new channel or changes none.                 *)
LEMMA OpenChannelResult ==
    ASSUME PublisherTypes, NEW g \in {None, pgen + 1}, OpenChannel(g)
    PROVE  /\ pconn' \in BOOLEAN
           /\ \/ /\ g = pgen + 1 /\ g # None /\ g \in 1 .. pgen'
                 /\ pgen' = pgen + 1 /\ popen' = popen \cup {g}
              \/ g = None /\ UNCHANGED <<pgen, popen>>
<1>1. pconn' \in BOOLEAN
  BY Zenon DEF PublisherTypes, OpenChannel
<1>2. CASE pconn /\ g = pgen + 1 /\ pgen' = pgen + 1 /\ popen' = popen \cup {pgen + 1}
  BY <1>1, <1>2, AmqpAssumption DEF PublisherTypes
<1>3. CASE g = None /\ UNCHANGED <<popen, pgen>>
  BY <1>1, <1>3
<1> QED
  BY <1>2, <1>3 DEF OpenChannel

(* The step GetChannel preserves the publisher's side.                     *)
LEMMA GetChannelPublisher ==
    ASSUME PublisherTypes, PublisherInv, NEW t \in Callers, GetChannel(t)
    PROVE  PublisherTypes' /\ PublisherInv'
<1> USE AmqpAssumption
<1>1. PICK g \in {None, pgen + 1} :
        /\ OpenChannel(g)
        /\ chan' = [chan EXCEPT ![t] = g]
        /\ pc' = [pc EXCEPT ![t] = IF g = None THEN "getChannel" ELSE "prepare"]
  BY DEF GetChannel, Goto
<1>2. pc[t] = "getChannel" /\ UNCHANGED <<mu0, arg, encoded, pub, watch>>
  BY DEF GetChannel
<1>3. mu0 = t /\ pub = None /\ chan[t] = None
  BY <1>2 DEF PublisherInv, MutexHeld
<1>4. popen = {}
  BY <1>3 DEF PublisherTypes, PublisherInv, NoChannelLeak
<1>5. PublisherTypes'
  <2>1. /\ pconn' \in BOOLEAN /\ pgen' \in Nat /\ pgen <= pgen' /\ popen' \subseteq 1 .. pgen'
        /\ g \in {None} \cup 1 .. pgen'
    BY <1>1, <1>4, OpenChannelResult DEF PublisherTypes
  <2>2. chan' \in [Callers -> {None} \cup 1 .. pgen']
    BY <1>1, <2>1 DEF PublisherTypes
  <2>3. pub' \in {None} \cup 1 .. pgen'
    BY <1>2, <1>3
  <2> QED
    BY <1>1, <1>2, <2>1, <2>2, <2>3 DEF PublisherTypes
<1>6. MutexHeld'
  BY <1>1, <1>2, <1>3, OpenChannelResult DEF PublisherTypes, PublisherInv, MutexHeld
<1>7. Watched'
  BY <1>2, <1>3 DEF PublisherTypes, PublisherInv, Watched
<1>8. HasObject'
  BY <1>1, <1>2 DEF PublisherTypes, PublisherInv, HasObject
<1>9. NoChannelLeak'
  BY <1>1, <1>2, <1>3, <1>4, OpenChannelResult DEF PublisherTypes, NoChannelLeak
<1> QED
  BY <1>5, <1>6, <1>7, <1>8, <1>9 DEF PublisherInv

(* The step PrepareQueue preserves the publisher's side.                   *)
LEMMA PrepareQueuePublisher ==
    ASSUME PublisherTypes, PublisherInv, NEW t \in Callers, PrepareQueue(t)
    PROVE  PublisherTypes' /\ PublisherInv'
<1> USE AmqpAssumption DEF PrepareQueue, Proceed, Goto, AfterInit
<1>1. mu0 = t /\ chan[t] # None /\ chan[t] \in 1 .. pgen
  BY DEF PublisherTypes, PublisherInv, MutexHeld
<1>2. PublisherTypes'
  BY <1>1 DEF PublisherTypes
<1>3. MutexHeld'
  BY <1>1 DEF PublisherTypes, PublisherInv, MutexHeld
<1>4. Watched'
  BY <1>1 DEF PublisherInv, Watched
<1>5. HasObject'
  <2> SUFFICES ASSUME NEW u \in Callers
               PROVE  /\ pc'[u] # "idle" => arg'[u] # None
                      /\ pc'[u] \in {"send", "publish"} => arg'[u] \in Messages
                      /\ pc'[u] = "publish" => encoded'[arg'[u]] # 0
    BY DEF HasObject
  <2>1. CASE u = t
    BY <2>1 DEF PublisherTypes, PublisherInv, HasObject
  <2>2. CASE u # t
    BY <2>2 DEF PublisherTypes, PublisherInv, HasObject
  <2> QED
    BY <2>1, <2>2
<1>6. NoChannelLeak'
  <2>1. pub = None /\ \A g \in popen : g = chan[t]
    BY <1>1 DEF PublisherTypes, PublisherInv, MutexHeld, NoChannelLeak
  <2> QED
    BY <2>1 DEF NoChannelLeak
<1> QED
  BY <1>2, <1>3, <1>4, <1>5, <1>6 DEF PublisherInv

(* The step PrepareQueueFails preserves the publisher's side.              *)
LEMMA PrepareQueueFailsPublisher ==
    ASSUME PublisherTypes, PublisherInv, NEW t \in Callers, PrepareQueueFails(t)
    PROVE  PublisherTypes' /\ PublisherInv'
<1> USE AmqpAssumption DEF PrepareQueueFails, Proceed, Goto
<1>1. mu0 = t /\ pub = None /\ popen' = {}
  <2>1. mu0 = t /\ pub = None
    BY DEF PublisherTypes, PublisherInv, MutexHeld
  <2>2. \A g \in popen : g = chan[t]
    BY <2>1 DEF PublisherTypes, PublisherInv, NoChannelLeak
  <2> QED
    BY <2>1, <2>2
<1>2. PublisherTypes'
  BY <1>1 DEF PublisherTypes
<1>3. MutexHeld'
  BY <1>1 DEF PublisherTypes, PublisherInv, MutexHeld
<1>4. Watched'
  BY <1>1 DEF PublisherInv, Watched
<1>5. HasObject'
  BY DEF PublisherTypes, PublisherInv, HasObject
<1>6. NoChannelLeak'
  BY <1>1 DEF NoChannelLeak
<1> QED
  BY <1>2, <1>3, <1>4, <1>5, <1>6 DEF PublisherInv

(* The step Encode preserves the publisher's side.                         *)
LEMMA EncodePublisher ==
    ASSUME PublisherTypes, PublisherInv, NEW t \in Callers, Encode(t)
    PROVE  PublisherTypes' /\ PublisherInv'
<1> USE AmqpAssumption DEF Encode, Goto, link
<1>1. arg[t] \in Messages /\ mu0 # t
  BY DEF PublisherTypes, PublisherInv, MutexHeld, HasObject
<1>2. PublisherTypes'
  <2>1. encoded' \in [Messages -> Nat]
    BY <1>1 DEF PublisherTypes
  <2> QED
    BY <2>1 DEF PublisherTypes
<1>3. MutexHeld'
  BY <1>1 DEF PublisherTypes, PublisherInv, MutexHeld
<1>4. Watched'
  BY DEF PublisherInv, Watched
<1>5. HasObject'
  <2> SUFFICES ASSUME NEW u \in Callers
               PROVE  /\ pc'[u] # "idle" => arg'[u] # None
                      /\ pc'[u] \in {"send", "publish"} => arg'[u] \in Messages
                      /\ pc'[u] = "publish" => encoded'[arg'[u]] # 0
    BY DEF HasObject
  <2>1. arg[u] \in Messages /\ encoded[arg[u]] # 0 => encoded'[arg[u]] # 0
    BY <1>1 DEF PublisherTypes
  <2>2. encoded'[arg[t]] # 0
    BY <1>1 DEF PublisherTypes
  <2> QED
    BY <1>1, <2>1, <2>2 DEF PublisherTypes, PublisherInv, HasObject
<1>6. NoChannelLeak'
  BY <1>1 DEF PublisherTypes, PublisherInv, NoChannelLeak
<1> QED
  BY <1>2, <1>3, <1>4, <1>5, <1>6 DEF PublisherInv

(* The step SendMessage preserves the publisher's side.                    *)
LEMMA SendMessagePublisher ==
    ASSUME PublisherTypes, PublisherInv, NEW t \in Callers, SendMessage(t)
    PROVE  PublisherTypes' /\ PublisherInv'
<1>1. /\ pc[t] = "publish" /\ mu0 # t
      /\ pc' = [pc EXCEPT ![t] = "idle"]
      /\ arg' = [arg EXCEPT ![t] = None]
      /\ chan' = [chan EXCEPT ![t] = None]
      /\ UNCHANGED <<mu0, encoded, link>>
  BY DEF SendMessage, Proceed, Goto, PublisherTypes, PublisherInv, MutexHeld
<1> USE AmqpAssumption DEF link
<1>2. PublisherTypes'
  BY <1>1 DEF PublisherTypes
<1>3. MutexHeld'
  BY <1>1 DEF PublisherTypes, PublisherInv, MutexHeld
<1>4. Watched'
  BY <1>1 DEF PublisherInv, Watched
<1>5. HasObject'
  BY <1>1 DEF PublisherTypes, PublisherInv, HasObject
<1>6. NoChannelLeak'
  BY <1>1 DEF PublisherTypes, PublisherInv, NoChannelLeak
<1> QED
  BY <1>2, <1>3, <1>4, <1>5, <1>6 DEF PublisherInv

(* The step NotifyClose preserves the publisher's side.                    *)
LEMMA NotifyClosePublisher ==
    ASSUME PublisherTypes, PublisherInv, NotifyClose
    PROVE  PublisherTypes' /\ PublisherInv'
<1> USE DEF NotifyClose, caller
<1>1. PublisherTypes'
  BY DEF PublisherTypes
<1>2. PublisherInv'
  BY DEF PublisherInv, MutexHeld, Watched, HasObject, NoChannelLeak
<1> QED
  BY <1>1, <1>2

(* The step Reopen preserves the publisher's side.                         *)
LEMMA ReopenPublisher ==
    ASSUME PublisherTypes, PublisherInv, Reopen
    PROVE  PublisherTypes' /\ PublisherInv'
<1> USE AmqpAssumption DEF caller
<1>1. PICK g \in {None, pgen + 1} :
        /\ OpenChannel(g)
        /\ pub' = IF g = None THEN pub ELSE g
        /\ watch' = IF g = None THEN "reopen" ELSE "watch"
  BY DEF Reopen
<1>2. watch = "reopen" /\ UNCHANGED caller
  BY DEF Reopen
<1>3. pub # None /\ \A t \in Callers : mu0 # t
  BY <1>2 DEF PublisherTypes, PublisherInv, MutexHeld, Watched
<1>4. popen = {}
  BY <1>2, <1>3 DEF PublisherTypes, PublisherInv, Watched, NoChannelLeak
<1>5. /\ pgen' \in Nat /\ pgen <= pgen' /\ popen' \subseteq 1 .. pgen'
      /\ pub' # None /\ pub' \in 1 .. pgen'
      /\ popen' = {} \/ (popen' = {pub'} /\ watch' = "watch")
  <2>1. CASE g = None /\ UNCHANGED <<pgen, popen>>
    <3>1. pub' = pub /\ pub \in 1 .. pgen
      BY <1>1, <1>3, <2>1 DEF PublisherTypes
    <3>2. pgen' = pgen /\ popen' = {} /\ pgen \in Nat
      BY <1>4, <2>1 DEF PublisherTypes
    <3> QED
      BY <1>3, <3>1, <3>2
  <2>2. CASE g # None /\ g \in 1 .. pgen' /\ pgen' = pgen + 1 /\ popen' = popen \cup {g}
    <3>1. pub' = g /\ watch' = "watch" /\ popen' = {g}
      BY <1>1, <1>4, <2>2
    <3> QED
      BY <1>1, <2>2, <3>1, OpenChannelResult DEF PublisherTypes
  <2> QED
    BY <1>1, <2>1, <2>2, OpenChannelResult
<1>6. PublisherTypes'
  <2>1. chan' \in [Callers -> {None} \cup 1 .. pgen']
    BY <1>2, <1>5 DEF PublisherTypes
  <2>2. pconn' \in BOOLEAN
    BY <1>1, OpenChannelResult
  <2> QED
    BY <1>1, <1>2, <1>5, <2>1, <2>2 DEF PublisherTypes
<1>7. MutexHeld'
  BY <1>2, <1>3 DEF PublisherInv, MutexHeld
<1>8. Watched'
  BY <1>1, <1>5 DEF Watched
<1>9. HasObject'
  BY <1>2 DEF PublisherInv, HasObject
<1>10. NoChannelLeak'
  BY <1>5 DEF NoChannelLeak
<1> QED
  BY <1>6, <1>7, <1>8, <1>9, <1>10 DEF PublisherInv

(* Every step preserves the publisher's side, whatever the receiver does.  *)
LEMMA PublisherStep ==
    ASSUME PublisherTypes, PublisherInv, [Next]_vars
    PROVE  PublisherTypes' /\ PublisherInv'
<1>1. CASE UNCHANGED <<caller, link>>
  BY <1>1, PublisherUnchanged
<1>2. ASSUME NEW t \in Callers, CallerStep(t)
      PROVE  PublisherTypes' /\ PublisherInv'
  BY <1>2, InitQueuePublisher, GetChannelPublisher, PrepareQueuePublisher,
     PrepareQueueFailsPublisher, EncodePublisher, SendMessagePublisher DEF CallerStep
<1>3. ASSUME NEW t \in Callers, Queue(t) \/ \E m \in Messages : PublishMsgData(t, m)
      PROVE  PublisherTypes' /\ PublisherInv'
  BY <1>3, CallPublisher DEF Queue, PublishMsgData
<1>4. CASE NotifyClose \/ Reopen
  BY <1>4, NotifyClosePublisher, ReopenPublisher
<1>5. CASE PublisherBreaks \/ BrokerRestarts
  BY <1>5, PublisherDisconnected DEF PublisherBreaks, BrokerRestarts
<1>6. CASE BrokerTakes \/ ForeignMessage \/ BrokerDelivers \/ ReceiverBreaks(TRUE) \/ ReceiverBreaks(FALSE)
  <2>1. UNCHANGED <<caller, link>>
    BY <1>6 DEF BrokerTakes, ForeignMessage, BrokerDelivers, ReceiverBreaks
  <2> QED
    BY <2>1, <1>1
<1>7. CASE ReceiverStep
  <2>1. UNCHANGED <<caller, link>>
    BY <1>7 DEF ReceiverStep, ReceiverGetChannel, Declare, DeclareFails, Consume, Receive,
       OnReceive, Ack, CloseNotice
  <2> QED
    BY <2>1, <1>1
<1>8. CASE UNCHANGED vars
  BY <1>1, <1>8 DEF vars
<1> QED
  BY <1>2, <1>3, <1>4, <1>5, <1>6, <1>7, <1>8 DEF Next

-----------------------------------------------------------------------------
(* The queue as a sequence.                                                *)

(* A copy that comes in at the end.                                        *)
LEMMA AppendElements ==
    ASSUME NEW s \in Seq(Nat), NEW c \in Nat, NoRepeat(s), c \notin Elements(s)
    PROVE  /\ Append(s, c) \in Seq(Nat)
           /\ Elements(Append(s, c)) = Elements(s) \cup {c}
           /\ NoRepeat(Append(s, c))
<1>1. /\ Append(s, c) \in Seq(Nat) /\ Len(s) \in Nat
      /\ DOMAIN s = 1 .. Len(s) /\ DOMAIN Append(s, c) = 1 .. Len(s) + 1
      /\ \A i \in 1 .. Len(s) : Append(s, c)[i] = s[i]
      /\ Append(s, c)[Len(s) + 1] = c
  OBVIOUS
<1>2. Elements(Append(s, c)) = Elements(s) \cup {c}
  BY <1>1 DEF Elements
<1>3. NoRepeat(Append(s, c))
  BY <1>1 DEF NoRepeat, Elements
<1> QED
  BY <1>1, <1>2, <1>3

(* The copy that leaves at the head.                                       *)
LEMMA TailElements ==
    ASSUME NEW s \in Seq(Nat), s # <<>>, NoRepeat(s)
    PROVE  /\ Tail(s) \in Seq(Nat) /\ Head(s) \in Nat
           /\ Elements(s) = Elements(Tail(s)) \cup {Head(s)}
           /\ Head(s) \notin Elements(Tail(s))
           /\ NoRepeat(Tail(s))
<1>1. /\ Tail(s) \in Seq(Nat) /\ Len(s) \in Nat /\ Len(s) >= 1
      /\ DOMAIN s = 1 .. Len(s) /\ DOMAIN Tail(s) = 1 .. Len(s) - 1
      /\ \A i \in 1 .. Len(s) - 1 : Tail(s)[i] = s[i + 1]
      /\ Head(s) = s[1] /\ s[1] \in Nat
  OBVIOUS
<1>2. Elements(s) = Elements(Tail(s)) \cup {Head(s)}
  <2>1. ASSUME NEW i \in 1 .. Len(s) PROVE s[i] \in Elements(Tail(s)) \cup {Head(s)}
    <3>1. CASE i = 1
      BY <1>1, <3>1
    <3>2. CASE i # 1
      <4>1. i - 1 \in 1 .. Len(s) - 1 /\ (i - 1) + 1 = i
        BY <1>1, <3>2
      <4> QED
        BY <1>1, <4>1 DEF Elements
    <3> QED
      BY <3>1, <3>2
  <2>2. ASSUME NEW i \in 1 .. Len(s) - 1 PROVE Tail(s)[i] \in Elements(s)
    BY <1>1 DEF Elements
  <2>3. Head(s) \in Elements(s)
    BY <1>1 DEF Elements
  <2>4. Elements(s) \subseteq Elements(Tail(s)) \cup {Head(s)}
    BY <1>1, <2>1 DEF Elements
  <2>5. Elements(Tail(s)) \subseteq Elements(s)
    BY <1>1, <2>2 DEF Elements
  <2> QED
    BY <2>3, <2>4, <2>5
<1>3. Head(s) \notin Elements(Tail(s))
  BY <1>1 DEF NoRepeat, Elements
<1>4. NoRepeat(Tail(s))
  <2> SUFFICES ASSUME NEW i \in 1 .. Len(s) - 1, NEW j \in 1 .. Len(s) - 1,
                      Tail(s)[i] = Tail(s)[j]
               PROVE  i = j
    BY <1>1 DEF NoRepeat
  <2>1. s[i + 1] = s[j + 1] /\ i + 1 \in 1 .. Len(s) /\ j + 1 \in 1 .. Len(s)
    BY <1>1
  <2>2. i + 1 = j + 1
    BY <1>1, <2>1 DEF NoRepeat
  <2> QED
    BY <1>1, <2>2
<1> QED
  BY <1>1, <1>2, <1>3, <1>4

(* A copy that comes back at the head.                                     *)
LEMMA RequeueElements ==
    ASSUME NEW s \in Seq(Nat), NEW c \in Nat, NoRepeat(s), c \notin Elements(s)
    PROVE  /\ <<c>> \o s \in Seq(Nat)
           /\ Elements(<<c>> \o s) = Elements(s) \cup {c}
           /\ NoRepeat(<<c>> \o s)
<1> DEFINE r == <<c>> \o s
<1>1. /\ r \in Seq(Nat) /\ Len(s) \in Nat
      /\ DOMAIN s = 1 .. Len(s) /\ DOMAIN r = 1 .. Len(s) + 1
      /\ r[1] = c
      /\ \A i \in 1 .. Len(s) + 1 : i # 1 => r[i] = s[i - 1] /\ i - 1 \in 1 .. Len(s)
  OBVIOUS
<1>2. \A i \in 1 .. Len(s) : i + 1 \in 1 .. Len(s) + 1 /\ i + 1 # 1 /\ (i + 1) - 1 = i
  BY <1>1
<1> HIDE DEF r
<1>3. Elements(r) = Elements(s) \cup {c}
  <2>1. ASSUME NEW i \in 1 .. Len(s) + 1 PROVE r[i] \in Elements(s) \cup {c}
    BY <1>1 DEF Elements
  <2>2. ASSUME NEW i \in 1 .. Len(s) PROVE s[i] \in Elements(r)
    <3>1. i + 1 \in DOMAIN r /\ r[i + 1] = s[i]
      BY <1>1, <1>2
    <3> QED
      BY <3>1 DEF Elements
  <2>3. c \in Elements(r)
    <3>1. 1 \in DOMAIN r
      BY <1>1
    <3> QED
      BY <1>1, <3>1 DEF Elements
  <2> QED
    BY <1>1, <2>1, <2>2, <2>3 DEF Elements
<1>4. NoRepeat(r)
  <2> SUFFICES ASSUME NEW i \in 1 .. Len(s) + 1, NEW j \in 1 .. Len(s) + 1, r[i] = r[j]
               PROVE  i = j
    BY <1>1 DEF NoRepeat
  <2>1. CASE i = 1 \/ j = 1
    BY <1>1, <2>1 DEF Elements
  <2>2. CASE i # 1 /\ j # 1
    <3>1. i - 1 = j - 1
      BY <1>1, <2>2 DEF NoRepeat
    <3> QED
      BY <3>1
  <2> QED
    BY <2>1, <2>2
<1> QED
  BY <1>1, <1>3, <1>4 DEF r

-----------------------------------------------------------------------------
(* The side of the broker and the receiver, and the refinement.            *)

(* What a step has to preserve, and the step of Delivery it has to be.     *)
Implements == D!Next \/ UNCHANGED D!vars
ReceiverGoal == ReceiverTypes' /\ ReceiverInv' /\ Implements

(* The receiver starts with an empty queue, as Delivery does.              *)
LEMMA InitReceiver == Init => ReceiverTypes /\ ReceiverInv /\ D!Init
<1> SUFFICES ASSUME Init PROVE ReceiverTypes /\ ReceiverInv /\ D!Init
  OBVIOUS
<1> USE AmqpAssumption DEF Init, ReceiverInit
<1>0. /\ DOMAIN copies = {} /\ DOMAIN queue = {} /\ Elements(queue) = {} /\ Kept = {}
      /\ copies \in Seq(Sendable) /\ queue \in Seq(Nat) /\ Len(copies) = 0
  BY DEF Elements, Kept
<1>1. ReceiverTypes
  <2>1. rconn \in BOOLEAN /\ ropen \in BOOLEAN /\ config \in Configs
    BY Zenon
  <2> QED
    BY <1>0, <2>1 DEF ReceiverTypes
<1>2. ReceiverInv
  BY <1>0 DEF ReceiverInv, CopiesSealed, OnePlace, NoRepeat, Known, DeliveredIsUnacked, AcceptedCalled,
     Acceptable, Verified, Decrypted, Converts, Decoded, Handed
<1>3. D!Init
  BY <1>0 DEF D!Init
<1> QED
  BY <1>1, <1>2, <1>3

(* A step of the publisher that sends nothing.                             *)
LEMMA ReceiverUnchanged ==
    ASSUME ReceiverTypes, ReceiverInv, UNCHANGED <<broker, receiver>>
    PROVE  ReceiverGoal
<1> USE DEF broker, receiver
<1>1. ReceiverTypes'
  BY DEF ReceiverTypes, Elements
<1>2. ReceiverInv'
  <2>1. CopiesSealed' /\ DeliveredIsUnacked' /\ AcceptedCalled'
    BY DEF ReceiverInv, CopiesSealed, DeliveredIsUnacked, AcceptedCalled,
       Acceptable, Verified, Decrypted, Converts, Decoded, Handed
  <2>2. UNCHANGED <<Known, Elements(queue)>>
    BY DEF Known, Kept, Elements
  <2>3. OnePlace'
    BY <2>2 DEF ReceiverInv, OnePlace, NoRepeat
  <2> QED
    BY <2>1, <2>3 DEF ReceiverInv
<1>3. UNCHANGED D!vars
  BY DEF D!vars, Kept, Elements
<1> QED
  BY <1>1, <1>2, <1>3 DEF ReceiverGoal, Implements

(* A new copy has a number that no other copy has.                         *)
LEMMA NewCopy ==
    ASSUME ReceiverTypes, NEW e \in Sendable, Len(copies) < MaxCopies,
           copies' = Append(copies, e)
    PROVE  /\ Len(copies) \in Nat
           /\ copies' \in Seq(Sendable) /\ Len(copies') <= MaxCopies
           /\ DOMAIN copies = 1 .. Len(copies)
           /\ DOMAIN copies' = 1 .. Len(copies) + 1
           /\ DOMAIN copies' = DOMAIN copies \cup {Len(copies) + 1}
           /\ Len(copies) + 1 \notin DOMAIN copies \cup {0}
           /\ \A i \in DOMAIN copies : copies'[i] = copies[i]
           /\ copies'[Len(copies) + 1] = e
           /\ Len(copies) + 1 \in Copies
  BY AmqpAssumption DEF ReceiverTypes, Copies

(* What CopiesSealed says of one copy.                                     *)
SealedSame(e) ==
    /\ e.signed => e.enc # 0
    /\ e.msg \in Messages => e.signed /\ (e.aes <=> SigTyp = 1)

(* PublishMsgData seals the copy of an object it has encoded.              *)
LEMMA SealedMarks ==
    ASSUME NEW m \in Messages, encoded[m] \in Nat, encoded[m] # 0
    PROVE  Sealed(m) \in Sendable /\ SealedSame(Sealed(m))
<1>1. (SigTyp = 1) \in BOOLEAN /\ TRUE \in BOOLEAN
  OBVIOUS
<1>2. Sealed(m) \in Sendable
  BY <1>1, Zenon DEF Sealed, Sendable
<1>3. SealedSame(Sealed(m))
  BY DEF Sealed, SealedSame
<1> QED
  BY <1>2, <1>3

(* Somebody else's copy is of no object of these callers.                  *)
LEMMA ForeignMarks ==
    ASSUME NEW e \in Foreign
    PROVE  e \in Sendable /\ SealedSame(e)
<1>1. None \notin Messages /\ 0 \in Nat /\ 1 \in Nat /\ 1 # 0
  BY AmqpAssumption
<1>2. (SigTyp = 0) \in BOOLEAN /\ TRUE \in BOOLEAN /\ FALSE \in BOOLEAN
  OBVIOUS
<1>3. CASE e = [msg |-> None, enc |-> 0, aes |-> FALSE, signed |-> FALSE]
  <2>1. e \in Sendable
    BY <1>1, <1>2, <1>3, Zenon DEF Sendable
  <2>2. SealedSame(e)
    BY <1>1, <1>3 DEF SealedSame
  <2> QED
    BY <2>1, <2>2
<1>4. CASE e = [msg |-> None, enc |-> 1, aes |-> SigTyp = 0, signed |-> TRUE]
  <2>1. e \in Sendable
    BY <1>1, <1>2, <1>4, Zenon DEF Sendable
  <2>2. SealedSame(e)
    BY <1>1, <1>4 DEF SealedSame
  <2> QED
    BY <2>1, <2>2
<1> QED
  BY <1>3, <1>4 DEF Foreign

(* A copy is wrapped in a number of encodings.                             *)
LEMMA CopyType ==
    ASSUME ReceiverTypes, NEW c \in DOMAIN copies
    PROVE  copies[c].enc \in Nat
<1>1. copies[c] \in Sendable
  BY DEF ReceiverTypes
<1> QED
  BY <1>1, Zenon DEF Sendable

(* A sealed copy is added to the others.                                   *)
LEMMA SealedGrows ==
    ASSUME CopiesSealed, NEW n, NEW e, SealedSame(e),
           DOMAIN copies' = DOMAIN copies \cup {n},
           \A i \in DOMAIN copies : copies'[i] = copies[i],
           copies'[n] = e
    PROVE  CopiesSealed'
  BY DEF CopiesSealed, SealedSame, Verified, Decrypted

(* The step SendMessage preserves the receiver's side.                     *)
LEMMA SendMessageReceiver ==
    ASSUME PublisherTypes, PublisherInv, ReceiverTypes, ReceiverInv,
           NEW t \in Callers, SendMessage(t)
    PROVE  ReceiverGoal
<1>1. CASE chan[t] \notin popen
  <2>1. UNCHANGED <<broker, receiver>>
    BY <1>1 DEF SendMessage, broker
  <2> QED
    BY <2>1, ReceiverUnchanged
<1>2. CASE chan[t] \in popen
  <2> DEFINE n == Len(copies) + 1
             e == Sealed(arg[t])
  <2>1. /\ Len(copies) < MaxCopies
        /\ copies' = Append(copies, e)
        /\ flight' = flight \cup {n}
        /\ UNCHANGED <<queue, unacked>> /\ UNCHANGED receiver
    BY <1>2 DEF SendMessage
  <2>2. e \in Sendable /\ SealedSame(e)
    <3>1. arg[t] \in Messages /\ encoded[arg[t]] \in Nat /\ encoded[arg[t]] # 0
      BY DEF SendMessage, PublisherTypes, PublisherInv, HasObject
    <3> QED
      BY <3>1, SealedMarks
  <2>3. /\ copies' \in Seq(Sendable) /\ Len(copies') <= MaxCopies
        /\ DOMAIN copies' = DOMAIN copies \cup {n}
        /\ n \notin DOMAIN copies \cup {0}
        /\ \A i \in DOMAIN copies : copies'[i] = copies[i]
        /\ copies'[n] = e
    BY <2>1, <2>2, NewCopy
  <2> HIDE DEF n, e
  <2>4. ReceiverTypes'
    BY <2>1, <2>3 DEF ReceiverTypes, Elements, receiver
  <2>5. CopiesSealed'
    BY <2>2, <2>3, SealedGrows DEF ReceiverInv
  <2>6. OnePlace'
    <3>1. Known \subseteq DOMAIN copies \cup {0}
      BY DEF ReceiverTypes, Known, Kept
    <3>2. UNCHANGED <<Known, queue, unacked, Elements(queue)>>
      BY <2>1 DEF receiver, Known, Kept, Elements
    <3> QED
      BY <2>1, <2>3, <3>1, <3>2 DEF ReceiverInv, OnePlace, NoRepeat
  <2>7. DeliveredIsUnacked'
    BY <2>1 DEF ReceiverInv, DeliveredIsUnacked, receiver
  <2>8. AcceptedCalled'
    BY <2>1, <2>3 DEF ReceiverTypes, ReceiverInv, DeliveredIsUnacked, AcceptedCalled,
       Acceptable, Verified, Decrypted, Converts, Decoded, Handed,
       receiver
  <2>9. UNCHANGED D!vars
    BY <2>1 DEF D!vars, Kept, Elements, receiver
  <2> QED
    BY <2>4, <2>5, <2>6, <2>7, <2>8, <2>9 DEF ReceiverGoal, ReceiverInv, Implements
<1> QED
  BY <1>1, <1>2

(* The step ForeignMessage preserves the receiver's side.                  *)
LEMMA ForeignMessageReceiver ==
    ASSUME ReceiverTypes, ReceiverInv, ForeignMessage
    PROVE  ReceiverGoal
<1> DEFINE n == Len(copies) + 1
<1>0. PICK e \in Foreign : copies' = Append(copies, e)
  BY DEF ForeignMessage
<1>1. /\ Len(copies) < MaxCopies
      /\ copies' = Append(copies, e)
      /\ queue' = Append(queue, n)
      /\ UNCHANGED <<flight, unacked>> /\ UNCHANGED receiver
  BY <1>0 DEF ForeignMessage
<1>2. e \in Sendable /\ SealedSame(e)
  BY ForeignMarks
<1>3. /\ copies' \in Seq(Sendable) /\ Len(copies') <= MaxCopies
      /\ DOMAIN copies' = DOMAIN copies \cup {n}
      /\ n \notin DOMAIN copies \cup {0}
      /\ \A i \in DOMAIN copies : copies'[i] = copies[i]
      /\ copies'[n] = e
      /\ n \in Copies /\ n \in Nat
  BY <1>1, <1>2, NewCopy
<1> HIDE DEF n
<1>4. /\ queue' \in Seq(Nat) /\ NoRepeat(queue')
      /\ Elements(queue') = Elements(queue) \cup {n}
  BY <1>1, <1>3, AppendElements DEF ReceiverTypes, ReceiverInv, OnePlace
<1>5. ReceiverTypes'
  BY <1>1, <1>3, <1>4 DEF ReceiverTypes, receiver
<1>6. CopiesSealed'
  BY <1>2, <1>3, SealedGrows DEF ReceiverInv
<1>7. Known \subseteq DOMAIN copies \cup {0}
  BY DEF ReceiverTypes, Known, Kept
<1>8. Kept' = Kept \cup {n} /\ settled' = settled
  BY <1>1, <1>4 DEF Kept, receiver
<1>9. OnePlace'
  <2>1. Known' = Known \cup {n}
    BY <1>1, <1>8 DEF Known, receiver
  <2> QED
    BY <1>1, <1>3, <1>4, <1>7, <2>1 DEF ReceiverTypes, ReceiverInv, OnePlace
<1>10. DeliveredIsUnacked'
  BY <1>1 DEF ReceiverInv, DeliveredIsUnacked, receiver
<1>11. AcceptedCalled'
  BY <1>1, <1>3 DEF ReceiverTypes, ReceiverInv, DeliveredIsUnacked, AcceptedCalled,
     Acceptable, Verified, Decrypted, Converts, Decoded, Handed,
     receiver
<1>12. D!Take(n)
  BY <1>3, <1>7, <1>8 DEF D!Take, Known
<1> QED
  BY <1>3, <1>5, <1>6, <1>9, <1>10, <1>11, <1>12 DEF ReceiverGoal, ReceiverInv, Implements, D!Next

(* The step BrokerTakes preserves the receiver's side.                     *)
LEMMA BrokerTakesReceiver ==
    ASSUME ReceiverTypes, ReceiverInv, BrokerTakes
    PROVE  ReceiverGoal
<1>1. PICK c \in flight : flight' = flight \ {c} /\ queue' = Append(queue, c)
  BY DEF BrokerTakes
<1>2. UNCHANGED <<copies, unacked>> /\ UNCHANGED receiver
  BY DEF BrokerTakes
<1>3. c \in Nat /\ c \in Copies /\ c # 0 /\ c \in DOMAIN copies
  BY AmqpAssumption DEF ReceiverTypes, Copies
<1>4. c \notin Known
  BY DEF ReceiverInv, OnePlace
<1>5. /\ queue' \in Seq(Nat) /\ NoRepeat(queue')
      /\ Elements(queue') = Elements(queue) \cup {c}
  BY <1>1, <1>3, <1>4, AppendElements DEF ReceiverTypes, ReceiverInv, OnePlace, Known, Kept
<1>6. ReceiverTypes'
  BY <1>1, <1>2, <1>3, <1>5 DEF ReceiverTypes, receiver
<1>7. Kept' = Kept \cup {c} /\ settled' = settled
  BY <1>2, <1>3, <1>5 DEF Kept, receiver
<1>8. OnePlace'
  <2>1. Known' = Known \cup {c}
    BY <1>2, <1>7 DEF Known, receiver
  <2>2. c # unacked
    BY <1>3, <1>4 DEF Known, Kept
  <2> QED
    BY <1>1, <1>2, <1>5, <2>1, <2>2 DEF ReceiverInv, OnePlace
<1>9. CopiesSealed' /\ DeliveredIsUnacked' /\ AcceptedCalled'
  BY <1>2 DEF ReceiverInv, CopiesSealed, DeliveredIsUnacked, AcceptedCalled,
     Acceptable, Verified, Decrypted, Converts, Decoded, Handed, receiver
<1>10. D!Take(c)
  BY <1>4, <1>7 DEF D!Take, Known
<1> QED
  BY <1>3, <1>6, <1>8, <1>9, <1>10 DEF ReceiverGoal, ReceiverInv, Implements, D!Next

(* The step BrokerDelivers preserves the receiver's side.                  *)
LEMMA BrokerDeliversReceiver ==
    ASSUME ReceiverTypes, ReceiverInv, BrokerDelivers
    PROVE  ReceiverGoal
<1> DEFINE c == Head(queue)
<1>1. /\ ropen /\ rpc \in {"select", "callback", "ack"}
      /\ unacked = 0 /\ inbox = 0 /\ queue # <<>>
      /\ unacked' = c /\ inbox' = c /\ queue' = Tail(queue)
      /\ UNCHANGED <<copies, flight, rconn, ropen, rpc, cur, config, settled, called>>
  BY DEF BrokerDelivers
<1>2. /\ queue' \in Seq(Nat) /\ c \in Nat
      /\ Elements(queue) = Elements(queue') \cup {c}
      /\ c \notin Elements(queue') /\ NoRepeat(queue')
  BY <1>1, TailElements DEF ReceiverTypes, ReceiverInv, OnePlace
<1>3. rpc = "select"
  BY <1>1 DEF ReceiverInv, DeliveredIsUnacked
<1> HIDE DEF c
<1>4. c \in DOMAIN copies /\ c # 0
  BY <1>1, <1>2 DEF ReceiverTypes, ReceiverInv, OnePlace
<1>5. ReceiverTypes'
  BY <1>1, <1>2, <1>4 DEF ReceiverTypes
<1>6. Kept' = Kept /\ settled' = settled
  BY <1>1, <1>2, <1>4 DEF Kept
<1>7. OnePlace'
  <2>1. Known' \subseteq Known
    BY <1>1, <1>2, <1>4, <1>6 DEF Known, Kept
  <2> QED
    BY <1>1, <1>2, <2>1 DEF ReceiverInv, OnePlace
<1>8. CopiesSealed' /\ DeliveredIsUnacked' /\ AcceptedCalled'
  BY <1>1, <1>3 DEF ReceiverInv, CopiesSealed, DeliveredIsUnacked, AcceptedCalled,
     Acceptable, Verified, Decrypted, Converts, Decoded, Handed
<1> QED
  BY <1>5, <1>6, <1>7, <1>8 DEF ReceiverGoal, ReceiverInv, Implements, D!vars

(* Some of what was on its way is lost.                                    *)
LEMMA PublisherBreaksReceiver ==
    ASSUME ReceiverTypes, ReceiverInv, PublisherBreaks
    PROVE  ReceiverGoal
<1>1. flight' \subseteq flight /\ UNCHANGED <<copies, queue, unacked>> /\ UNCHANGED receiver
  BY DEF PublisherBreaks
<1>2. UNCHANGED <<Known, Elements(queue), Kept>>
  BY <1>1 DEF Known, Kept, Elements, receiver
<1>3. ReceiverTypes'
  BY <1>1, <1>2 DEF ReceiverTypes, receiver
<1>4. OnePlace'
  BY <1>1, <1>2 DEF ReceiverInv, OnePlace, NoRepeat
<1>5. CopiesSealed' /\ DeliveredIsUnacked' /\ AcceptedCalled'
  BY <1>1 DEF ReceiverInv, CopiesSealed, DeliveredIsUnacked, AcceptedCalled,
     Acceptable, Verified, Decrypted, Converts, Decoded, Handed, receiver
<1>6. UNCHANGED D!vars
  BY <1>1, <1>2 DEF D!vars, receiver
<1> QED
  BY <1>3, <1>4, <1>5, <1>6 DEF ReceiverGoal, ReceiverInv, Implements

(* The step ReceiverBreaks preserves the receiver's side.                  *)
LEMMA ReceiverBreaksReceiver ==
    ASSUME ReceiverTypes, ReceiverInv, NEW b \in BOOLEAN, ReceiverBreaks(b)
    PROVE  ReceiverGoal
<1>1. /\ ropen' = FALSE /\ queue' = Requeue /\ unacked' = 0
      /\ UNCHANGED <<copies, flight, rpc, inbox, cur, config, settled, called>>
      /\ ropen
  BY DEF ReceiverBreaks
<1>2. rconn' \in BOOLEAN
  BY DEF ReceiverBreaks
<1>3. /\ queue' \in Seq(Nat) /\ NoRepeat(queue')
      /\ Elements(queue') = Kept
  <2>1. CASE unacked = 0
    BY <1>1, <2>1 DEF Requeue, Kept, ReceiverTypes, ReceiverInv, OnePlace
  <2>2. CASE unacked # 0
    <3>1. unacked \in Nat /\ unacked \notin Elements(queue) /\ NoRepeat(queue) /\ queue \in Seq(Nat)
      BY DEF ReceiverTypes, ReceiverInv, OnePlace
    <3>2. queue' = <<unacked>> \o queue /\ Kept = Elements(queue) \cup {unacked}
      BY <1>1, <2>2 DEF Requeue, Kept
    <3> QED
      BY <3>1, <3>2, RequeueElements
  <2> QED
    BY <2>1, <2>2
<1>4. Kept' = Kept
  BY <1>1, <1>3 DEF Kept
<1>5. ReceiverTypes'
  BY <1>1, <1>2, <1>3 DEF ReceiverTypes, Kept
<1>6. OnePlace'
  <2>1. Known' = Known
    BY <1>1, <1>4 DEF Known
  <2>2. 0 \notin Kept
    BY DEF ReceiverTypes, Kept
  <2> QED
    BY <1>1, <1>3, <2>1, <2>2 DEF ReceiverInv, OnePlace
<1>7. DeliveredIsUnacked'
  <2>1. rpc \notin {"getChannel", "dead"}
    BY <1>1 DEF ReceiverInv, DeliveredIsUnacked
  <2> QED
    BY <1>1, <2>1 DEF ReceiverInv, DeliveredIsUnacked
<1>8. CopiesSealed' /\ AcceptedCalled'
  BY <1>1 DEF ReceiverInv, CopiesSealed, AcceptedCalled,
     Acceptable, Verified, Decrypted, Converts, Decoded, Handed
<1> QED
  BY <1>1, <1>4, <1>5, <1>6, <1>7, <1>8 DEF ReceiverGoal, ReceiverInv, Implements, D!vars

(* The step BrokerRestarts preserves the receiver's side.                  *)
LEMMA BrokerRestartsReceiver ==
    ASSUME ReceiverTypes, ReceiverInv, BrokerRestarts
    PROVE  ReceiverGoal
<1>1. /\ rconn' = FALSE /\ ropen' = FALSE /\ flight' = {} /\ queue' = <<>> /\ unacked' = 0
      /\ UNCHANGED <<copies, rpc, inbox, cur, config, settled, called>>
  BY DEF BrokerRestarts
<1>2. queue' \in Seq(Nat) /\ Elements(queue') = {} /\ Kept' = {} /\ DOMAIN queue' = {}
  BY <1>1 DEF Kept, Elements
<1>3. ReceiverTypes'
  BY <1>1, <1>2 DEF ReceiverTypes
<1>4. OnePlace'
  BY <1>1, <1>2 DEF OnePlace, NoRepeat
<1>5. DeliveredIsUnacked'
  BY <1>1 DEF ReceiverInv, DeliveredIsUnacked
<1>6. CopiesSealed' /\ AcceptedCalled'
  BY <1>1 DEF ReceiverInv, CopiesSealed, AcceptedCalled,
     Acceptable, Verified, Decrypted, Converts, Decoded, Handed
<1>7. D!Restart
  BY <1>1, <1>2 DEF D!Restart
<1> QED
  BY <1>3, <1>4, <1>5, <1>6, <1>7 DEF ReceiverGoal, ReceiverInv, Implements, D!Next

(* The receiver connects and declares, or notices that its channel closed. *)
LEMMA ConnectReceiver ==
    ASSUME ReceiverTypes, ReceiverInv,
           ReceiverGetChannel \/ Declare \/ DeclareFails \/ Consume \/ CloseNotice
    PROVE  ReceiverGoal
<1>1. UNCHANGED <<copies, flight, queue, unacked, cur, config, settled, called>>
  BY DEF ReceiverGetChannel, Declare, DeclareFails, Consume, CloseNotice, broker
<1>2. inbox' \in {inbox, 0}
  BY DEF ReceiverGetChannel, Declare, DeclareFails, Consume, CloseNotice
<1>3. /\ rpc' \in {"getChannel", "declare", "consume", "select", "dead"}
      /\ rpc \notin {"callback", "ack"}
  BY DEF ReceiverGetChannel, Declare, DeclareFails, Consume, CloseNotice
<1>4. ropen' \in BOOLEAN /\ rconn' \in BOOLEAN
  BY Zenon DEF ReceiverGetChannel, Declare, DeclareFails, Consume, CloseNotice, ReceiverTypes
<1>5. UNCHANGED <<Elements(queue), Kept>>
  BY <1>1 DEF Kept, Elements
<1>6. ReceiverTypes'
  BY <1>1, <1>2, <1>3, <1>4, <1>5 DEF ReceiverTypes
<1>7. OnePlace'
  <2>1. \A c \in flight : c # 0
    BY DEF ReceiverTypes
  <2>2. Known' \subseteq Known \cup {0}
    BY <1>1, <1>2, <1>5 DEF Known
  <2> QED
    BY <1>1, <1>5, <2>1, <2>2 DEF ReceiverInv, OnePlace, NoRepeat
<1>8. CopiesSealed'
  BY <1>1 DEF ReceiverInv, CopiesSealed, Verified, Decrypted
<1>9. AcceptedCalled'
  BY <1>1, <1>3 DEF ReceiverInv, AcceptedCalled, Acceptable, Verified, Decrypted, Converts, Decoded,
     Handed
<1>10. DeliveredIsUnacked'
  <2>1. CASE ReceiverGetChannel
    BY <1>1, <2>1 DEF ReceiverInv, DeliveredIsUnacked, ReceiverGetChannel
  <2>2. CASE Declare
    BY <1>1, <2>2 DEF ReceiverInv, DeliveredIsUnacked, Declare
  <2>3. CASE DeclareFails
    BY <1>1, <2>3 DEF ReceiverInv, DeliveredIsUnacked, DeclareFails
  <2>4. CASE Consume
    BY <1>1, <2>4 DEF ReceiverInv, DeliveredIsUnacked, Consume
  <2>5. CASE CloseNotice
    BY <1>1, <2>5 DEF ReceiverInv, DeliveredIsUnacked, CloseNotice
  <2> QED
    BY <2>1, <2>2, <2>3, <2>4, <2>5
<1> QED
  BY <1>1, <1>5, <1>6, <1>7, <1>8, <1>9, <1>10 DEF ReceiverGoal, ReceiverInv, Implements, D!vars

(* The step Receive preserves the receiver's side.                         *)
LEMMA ReceiveReceiver ==
    ASSUME ReceiverTypes, ReceiverInv, Receive
    PROVE  ReceiverGoal
<1>1. /\ rpc = "select" /\ inbox # 0 /\ cur' = inbox /\ inbox' = 0
      /\ \/ Acceptable(inbox) /\ rpc' = "callback" /\ settled' = settled
         \/ ~Acceptable(inbox) /\ rpc' = "ack" /\ settled' = settled \cup {inbox}
      /\ UNCHANGED <<copies, flight, queue, unacked, rconn, ropen, config, called>>
  BY DEF Receive, broker
<1>2. inbox \in DOMAIN copies /\ inbox \in Copies
  BY <1>1, AmqpAssumption DEF ReceiverTypes, Copies
<1>3. UNCHANGED <<Elements(queue), Kept>>
  BY <1>1 DEF Kept, Elements
<1>4. ReceiverTypes'
  BY <1>1, <1>2, <1>3 DEF ReceiverTypes
<1>5. OnePlace'
  <2>1. \A c \in flight : c # 0
    BY DEF ReceiverTypes
  <2>2. Known' \subseteq Known \cup {0}
    BY <1>1, <1>3 DEF Known
  <2> QED
    BY <1>1, <1>3, <2>1, <2>2 DEF ReceiverInv, OnePlace, NoRepeat
<1>6. CopiesSealed'
  BY <1>1 DEF ReceiverInv, CopiesSealed, Verified, Decrypted
<1>7. DeliveredIsUnacked'
  BY <1>1 DEF ReceiverInv, DeliveredIsUnacked
<1>8. AcceptedCalled'
  <2>1. \A c : Acceptable(c)' = Acceptable(c) /\ Decoded(c)' = Decoded(c)
    BY <1>1 DEF Acceptable, Verified, Decrypted, Converts, Decoded
  <2>2. \A c : Handed(c)' = Handed(c)
    BY <2>1 DEF Handed
  <2> QED
    BY <1>1, <2>1, <2>2 DEF ReceiverInv, AcceptedCalled
<1>9. Implements
  <2>1. CASE settled' = settled
    BY <1>3, <2>1 DEF Implements, D!vars
  <2>2. CASE settled' = settled \cup {inbox}
    <3>1. D!Settle(inbox)
      BY <1>3, <2>2 DEF D!Settle
    <3> QED
      BY <1>2, <3>1 DEF Implements, D!Next
  <2> QED
    BY <1>1, <2>1, <2>2
<1> QED
  BY <1>4, <1>5, <1>6, <1>7, <1>8, <1>9 DEF ReceiverGoal, ReceiverInv

(* The step OnReceive preserves the receiver's side.                       *)
LEMMA OnReceiveReceiver ==
    ASSUME ReceiverTypes, ReceiverInv, NEW ok \in BOOLEAN, OnReceive(ok)
    PROVE  ReceiverGoal
<1>1. /\ rpc = "callback" /\ called' = called \cup {Handed(cur)}
      /\ \/ rpc' = "ack" /\ settled' = settled \cup {cur}
         \/ rpc' = rpc /\ settled' = settled
      /\ UNCHANGED <<copies, flight, queue, unacked, rconn, ropen, inbox, cur, config>>
  BY DEF OnReceive, broker
<1>2. cur \in DOMAIN copies /\ cur \in Copies /\ Acceptable(cur)
  BY <1>1, AmqpAssumption DEF ReceiverTypes, ReceiverInv, DeliveredIsUnacked, AcceptedCalled, Copies
<1>3. UNCHANGED <<Elements(queue), Kept>>
  BY <1>1 DEF Kept, Elements
<1>4. ReceiverTypes'
  <2>1. Decoded(cur) \in Nat
    <3>1. copies[cur].enc \in Nat /\ copies[cur].enc # 0
      BY <1>2, CopyType DEF ReceiverInv, CopiesSealed, Acceptable, Verified
    <3> QED
      BY <3>1 DEF Decoded
  <2>2. Handed(cur) \in [copy : DOMAIN copies, value : Nat]
    BY <1>2, <2>1, Zenon DEF Handed
  <2> QED
    BY <1>1, <1>2, <1>3, <2>2 DEF ReceiverTypes
<1>5. OnePlace'
  <2>1. Known' \subseteq Known
    BY <1>1, <1>3 DEF Known
  <2> QED
    BY <1>1, <1>3, <2>1 DEF ReceiverInv, OnePlace, NoRepeat
<1>6. CopiesSealed'
  BY <1>1 DEF ReceiverInv, CopiesSealed, Verified, Decrypted
<1>7. DeliveredIsUnacked'
  BY <1>1 DEF ReceiverInv, DeliveredIsUnacked
<1>8. AcceptedCalled'
  <2>1. \A c : Acceptable(c)' = Acceptable(c) /\ Decoded(c)' = Decoded(c)
    BY <1>1 DEF Acceptable, Verified, Decrypted, Converts, Decoded
  <2>2. \A c : Handed(c)' = Handed(c)
    BY <2>1 DEF Handed
  <2>3. Handed(cur).copy = cur /\ Handed(cur).value = Decoded(cur)
    BY DEF Handed
  <2> QED
    BY <1>1, <1>2, <2>1, <2>2, <2>3 DEF ReceiverInv, AcceptedCalled
<1>9. Implements
  <2>1. CASE settled' = settled
    BY <1>3, <2>1 DEF Implements, D!vars
  <2>2. CASE settled' = settled \cup {cur}
    <3>1. D!Settle(cur)
      BY <1>3, <2>2 DEF D!Settle
    <3> QED
      BY <1>2, <3>1 DEF Implements, D!Next
  <2> QED
    BY <1>1, <2>1, <2>2
<1> QED
  BY <1>4, <1>5, <1>6, <1>7, <1>8, <1>9 DEF ReceiverGoal, ReceiverInv

(* What Ack removes from the queue has been settled.                       *)
LEMMA AckReceiver ==
    ASSUME ReceiverTypes, ReceiverInv, Ack
    PROVE  ReceiverGoal
<1>1. /\ rpc = "ack" /\ rpc' = "select" /\ cur' = 0
      /\ unacked' = IF ropen THEN 0 ELSE unacked
      /\ UNCHANGED <<copies, flight, queue, rconn, ropen, inbox, config, settled, called>>
  BY DEF Ack
<1>2. /\ cur # 0 /\ cur \in settled /\ cur \in Copies
      /\ ropen => unacked = cur /\ inbox = 0
      /\ ~ropen => unacked = 0
  BY <1>1, AmqpAssumption DEF ReceiverTypes, ReceiverInv, DeliveredIsUnacked, Copies
<1>3. Elements(queue)' = Elements(queue) /\ unacked' = 0
  BY <1>1, <1>2 DEF Elements
<1>4. Kept' = Elements(queue)
  BY <1>3 DEF Kept
<1>5. ReceiverTypes'
  BY <1>1, <1>3 DEF ReceiverTypes
<1>6. OnePlace'
  <2>1. \A c \in flight : c # 0
    BY DEF ReceiverTypes
  <2>2. Known' \subseteq Known \cup {0}
    BY <1>1, <1>4 DEF Known, Kept
  <2>3. 0 \notin Elements(queue)
    BY DEF ReceiverTypes
  <2> QED
    BY <1>1, <1>3, <2>1, <2>2, <2>3 DEF ReceiverInv, OnePlace, NoRepeat
<1>7. CopiesSealed' /\ AcceptedCalled'
  BY <1>1 DEF ReceiverInv, CopiesSealed, AcceptedCalled,
     Acceptable, Verified, Decrypted, Converts, Decoded, Handed
<1>8. DeliveredIsUnacked'
  BY <1>1, <1>2, <1>3 DEF ReceiverInv, DeliveredIsUnacked
<1>9. Implements
  <2>1. CASE ropen
    <3>1. Kept = Elements(queue) \cup {cur} /\ cur \notin Elements(queue)
      BY <1>2, <2>1 DEF Kept, ReceiverInv, OnePlace
    <3>2. D!Drop(cur)
      BY <1>1, <1>2, <1>4, <3>1 DEF D!Drop
    <3> QED
      BY <1>2, <3>2 DEF Implements, D!Next
  <2>2. CASE ~ropen
    <3>1. Kept = Elements(queue)
      BY <1>2, <2>2 DEF Kept
    <3> QED
      BY <1>1, <1>4, <3>1 DEF Implements, D!vars
  <2> QED
    BY <2>1, <2>2
<1> QED
  BY <1>5, <1>6, <1>7, <1>8, <1>9 DEF ReceiverGoal, ReceiverInv

(* Every step preserves the receiver's side and implements Delivery.       *)
LEMMA ReceiverSideStep ==
    ASSUME PublisherTypes, PublisherInv, ReceiverTypes, ReceiverInv, [Next]_vars
    PROVE  ReceiverGoal
<1>1. CASE UNCHANGED <<broker, receiver>>
  BY <1>1, ReceiverUnchanged
<1>2. ASSUME NEW t \in Callers, CallerStep(t)
      PROVE  ReceiverGoal
  <2>1. CASE SendMessage(t)
    BY <2>1, SendMessageReceiver
  <2>2. CASE ~SendMessage(t)
    <3>1. UNCHANGED <<broker, receiver>>
      BY <1>2, <2>2 DEF CallerStep, InitQueue, GetChannel, PrepareQueue, PrepareQueueFails, Encode
    <3> QED
      BY <3>1, <1>1
  <2> QED
    BY <2>1, <2>2
<1>3. ASSUME NEW t \in Callers, Queue(t) \/ \E m \in Messages : PublishMsgData(t, m)
      PROVE  ReceiverGoal
  <2>1. UNCHANGED <<broker, receiver>>
    BY <1>3 DEF Queue, PublishMsgData, Call
  <2> QED
    BY <2>1, <1>1
<1>4. CASE NotifyClose \/ Reopen
  <2>1. UNCHANGED <<broker, receiver>>
    BY <1>4 DEF NotifyClose, Reopen
  <2> QED
    BY <2>1, <1>1
<1>5. CASE PublisherBreaks \/ BrokerRestarts
  BY <1>5, PublisherBreaksReceiver, BrokerRestartsReceiver
<1>6. CASE BrokerTakes \/ ForeignMessage \/ BrokerDelivers
  BY <1>6, BrokerTakesReceiver, ForeignMessageReceiver, BrokerDeliversReceiver
<1>7. CASE ReceiverBreaks(TRUE) \/ ReceiverBreaks(FALSE)
  BY <1>7, ReceiverBreaksReceiver
<1>8. CASE ReceiverStep
  BY <1>8, ConnectReceiver, ReceiveReceiver, OnReceiveReceiver, AckReceiver DEF ReceiverStep
<1>9. CASE UNCHANGED vars
  BY <1>1, <1>9 DEF vars
<1> QED
  BY <1>2, <1>3, <1>4, <1>5, <1>6, <1>7, <1>8, <1>9 DEF Next

-----------------------------------------------------------------------------
(* Faults are counted up to their bound.                                   *)
LEMMA FaultsBounded == ASSUME faults \in 0 .. MaxFaults, [Next]_vars PROVE faults' \in 0 .. MaxFaults
<1>1. faults' = faults \/ Fault
  BY DEF Next, CallerStep, ReceiverStep, Queue, PublishMsgData, Call, InitQueue, GetChannel,
     OpenChannel, PrepareQueue, PrepareQueueFails, Encode, SendMessage, NotifyClose, Reopen,
     BrokerTakes, ForeignMessage, BrokerDelivers, PublisherBreaks, BrokerRestarts, ReceiverBreaks,
     ReceiverGetChannel, Declare, DeclareFails, Consume, Receive, OnReceive, Ack, CloseNotice, vars
<1> QED
  BY <1>1, AmqpAssumption DEF Fault

(* The invariant holds at first and every step preserves it.               *)
LEMMA Inductive == Spec => []IInv
<1>1. Init => IInv
  <2> SUFFICES ASSUME Init PROVE IInv
    OBVIOUS
  <2>1. faults \in 0 .. MaxFaults
    BY AmqpAssumption DEF Init
  <2> QED
    BY <2>1, InitPublisher, InitReceiver DEF IInv, TypeOK
<1>2. IInv /\ [Next]_vars => IInv'
  BY PublisherStep, ReceiverSideStep, FaultsBounded DEF IInv, TypeOK, ReceiverGoal
<1> QED
  BY <1>1, <1>2, PTL DEF Spec

(* The variables of the publisher, the broker and the receiver keep their  *)
(* types: a channel number was handed out, a copy was sent, and the bounds *)
(* hold.                                                                   *)
THEOREM TypeCorrect == Spec => []TypeOK
<1>1. IInv => TypeOK
  BY DEF IInv
<1> QED
  BY <1>1, Inductive, PTL

(* publish.go leaks no channel: any number of callers may race for the     *)
(* mutex, fail to declare and be reconnected, and every open channel is    *)
(* the cached one or the one being prepared.                               *)
THEOREM ChannelsNotLeaked == Spec => []NoChannelLeak
<1>1. IInv => NoChannelLeak
  BY DEF IInv, PublisherInv
<1> QED
  BY <1>1, Inductive, PTL

(* For any callers, objects, retries and faults: OnReceive of pull.go      *)
(* discards no object that PublishMsgData encoded once, and hands over the *)
(* original and nothing else, but for the strings an interface{} admits.   *)
THEOREM CallbacksSeeOriginals == Spec => []CallbackSeesOriginal
<1>1. IInv => CallbackSeesOriginal
  <2> SUFFICES ASSUME IInv PROVE CallbackSeesOriginal
    OBVIOUS
  <2>0. ReceiverTypes /\ CopiesSealed /\ AcceptedCalled
    BY DEF IInv, TypeOK, ReceiverInv
  <2>1. ASSUME NEW c \in settled, copies[c].msg \in Messages, copies[c].enc = 1
        PROVE  [copy |-> c, value |-> 0] \in called
    <3>1. c \in DOMAIN copies
      BY <2>0 DEF ReceiverTypes
    <3>2. Verified(c) /\ Decrypted(c) /\ Decoded(c) = 0
      BY <2>0, <2>1, <3>1 DEF CopiesSealed, Decoded
    <3>3. Handed(c) \in called
      BY <2>0, <3>2 DEF AcceptedCalled, Acceptable, Converts
    <3> QED
      BY <3>2, <3>3 DEF Handed
  <2>2. ASSUME NEW h \in called
        PROVE  h.value = 0 \/ (config.target = "any" /\ copies[h.copy].enc > 1)
    <3>1. h.copy \in DOMAIN copies /\ h.value \in Nat
      BY <2>0 DEF ReceiverTypes
    <3>2. Acceptable(h.copy) /\ h.value = Decoded(h.copy)
      BY <2>0 DEF AcceptedCalled
    <3>3. copies[h.copy].enc \in Nat
      BY <2>0, <3>1, CopyType
    <3> QED
      BY <3>1, <3>2, <3>3 DEF Acceptable, Converts, Decoded
  <2> QED
    BY <2>1, <2>2 DEF CallbackSeesOriginal
<1> QED
  BY <1>1, Inductive, PTL

(* The queue with the receiver of pull.go implements Delivery: every step  *)
(* takes a copy, settles one, drops a settled one, loses everything in a   *)
(* restart of the broker, or changes neither the queue nor what is settled. *)
THEOREM ImplementsDelivery == Spec => AtLeastOnce
<1>1. Init => D!Init
  BY InitReceiver
<1>2. IInv /\ [Next]_vars => [D!Next]_D!vars
  BY ReceiverSideStep DEF IInv, TypeOK, ReceiverGoal, Implements
<1> QED
  BY <1>1, <1>2, Inductive, PTL DEF Spec, AtLeastOnce, D!Spec
=============================================================================

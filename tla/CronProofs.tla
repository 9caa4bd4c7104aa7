----------------------------- MODULE CronProofs -----------------------------
(***************************************************************************)
(* Proofs about Cron, for any schedules, tasks and chains of wrappers: a   *)
(* job is started only when Stop, Remove and its schedule allow it and     *)
(* once for each activation, delay and skip keep the invocations of a job  *)
(* apart, and the context of Stop is done only when its jobs are.  Then,   *)
(* about CronSpec, for any calendar and expressions: the walk of           *)
(* SpecSchedule.Next ends at the first time that is due.                   *)
(***************************************************************************)
EXTENDS Cron, CronSpec, FiniteSetTheorems, WellFoundedInduction, TLAPS

(* The ids of the entries are assigned, not removed, and different; the    *)
(* entry a caller is handing over is not in the list yet.                  *)
Ids ==
    /\ removed \subseteq 1 .. nextID
    /\ \A i \in DOMAIN entries : entries[i].id \in 1 .. nextID /\ entries[i].id \notin removed
    /\ \A i, j \in DOMAIN entries : i # j => entries[i].id # entries[j].id
    /\ req.op = "remove" => req.id \in 1 .. nextID
    /\ req.op = "add" =>
         /\ req.entry.id \in 1 .. nextID /\ req.entry.id \notin removed
         /\ req.entry.prev = Zero
         /\ \A i \in DOMAIN entries : entries[i].id # req.entry.id

(* The next activation of an entry is one of its schedule and later than   *)
(* the last one it was started for, which has passed.                      *)
InTime(e, t) == /\ e.prev <= t
                /\ e.next # Zero => e.next \in e.sched /\ e.next > e.prev

Times == /\ timerC <= clock /\ (running <=> sched # "off")
         /\ \A i \in DOMAIN entries : InTime(entries[i], clock)

(* Invocation `at' of entry id has been started: nobody will start it      *)
(* again.                                                                  *)
Behind(id, at) ==
    /\ id \in 1 .. nextID
    /\ req.op = "add" => req.entry.id # id
    /\ \A i \in DOMAIN entries : entries[i].id = id => at <= entries[i].prev

Activations ==
    /\ \A v \in invs : Behind(v.id, v.at)
    /\ \A i \in DOMAIN waits : \A o \in waits[i].owed : Behind(o.id, o.at)

(* jobWaiter counts the goroutines of startJob, one for each activation.   *)
Counted ==
    /\ IsFiniteSet(invs) /\ wg = Cardinality(invs)
    /\ \A v, w \in invs : v.id = w.id /\ v.at = w.at => v = w

(* A delay wrapper lets one invocation of a job past it, a skip wrapper    *)
(* one of all its jobs, and none while its channel is full.                *)
Layers ==
    /\ \A v \in invs : v.layer <= Len(chain) + 1
    /\ \A k \in DOMAIN chain, v, w \in invs :
         /\ chain[k] = "delay" /\ v.id = w.id /\ v.layer > k /\ w.layer > k => v = w
         /\ chain[k] = "skip" /\ v.layer > k /\ w.layer > k => v = w
         /\ chain[k] = "skip" /\ k \in tokens => v.layer <= k

CronInv == TypeOK /\ Ids /\ Times /\ Activations /\ Counted /\ Layers /\ ContextMeansFinished
-----------------------------------------------------------------------------
(* Schedules and lists of entries.                                         *)

(* A set of naturals has a least element.                                  *)
LEMMA EarliestExists ==
    ASSUME NEW S \in SUBSET Nat, S # {}
    PROVE  \E x \in S : \A y \in S : x <= y
<1> DEFINE R == OpToRel(<, Nat)
<1>1. \E x \in S : \A y \in S : ~(<<y, x>> \in R)
  BY NatLessThanWellFounded, WFMin
<1>2. \A x, y \in Nat : <<y, x>> \in R <=> y < x
  BY DEF OpToRel
<1> HIDE DEF R
<1>3. PICK x \in S : \A y \in S : ~(<<y, x>> \in R)
  BY <1>1
<1>4. ASSUME NEW y \in S PROVE x <= y
  <2>1. x \in Nat /\ y \in Nat /\ ~(<<y, x>> \in R)
    BY <1>3
  <2>2. ~(y < x)
    BY <1>2, <2>1
  <2> QED
    BY <2>1, <2>2
<1> QED
  BY <1>4

(* Schedule.Next is an activation of the schedule later than t, or zero.   *)
LEMMA NextTimeLater ==
    ASSUME NEW s \in Schedules, NEW t \in Nat
    PROVE  /\ NextTime(s, t) \in Nat
           /\ NextTime(s, t) # Zero => NextTime(s, t) \in s /\ NextTime(s, t) > t
<1> DEFINE later == {x \in s : x > t}
<1>1. later \in SUBSET Nat
  BY CronAssumption
<1>2. CASE later = {}
  BY <1>2 DEF NextTime, Zero
<1>3. CASE later # {}
  <2>1. \E x \in later : \A y \in later : x <= y
    BY <1>1, <1>3, EarliestExists
  <2>2. NextTime(s, t) = CHOOSE x \in later : \A y \in later : x <= y
    BY <1>3 DEF NextTime
  <2>3. NextTime(s, t) \in later
    BY <2>1, <2>2
  <2> QED
    BY <1>1, <2>3
<1> QED
  BY <1>2, <1>3

(* The list removeEntry leaves has other entries of the old one only, in   *)
(* different places.                                                       *)
LEMMA RemoveLeavesOthers ==
    ASSUME NEW s \in Seq(Entry), NEW id,
           \A i, j \in DOMAIN s : i # j => s[i].id # s[j].id
    PROVE  LET t == removeEntry(s, id)
           IN  /\ t \in Seq(Entry)
               /\ \A i \in DOMAIN t : t[i].id # id /\ \E j \in DOMAIN s : t[i] = s[j]
               /\ \A i, j \in DOMAIN t : i # j => t[i].id # t[j].id
<1> DEFINE before(i) == \A j \in 1 .. i : s[j].id # id
           left == IF before(Len(s)) THEN Len(s) ELSE Len(s) - 1
           from(i) == IF before(i) THEN i ELSE i + 1
           t == removeEntry(s, id)
<1>1. Len(s) \in Nat /\ DOMAIN s = 1 .. Len(s) /\ \A i \in 1 .. Len(s) : s[i] \in Entry
  OBVIOUS
<1>2. left \in Nat
  BY <1>1
<1>3. t = [i \in 1 .. left |-> IF before(i) THEN s[i] ELSE s[i + 1]]
  BY DEF removeEntry
<1>4. ASSUME NEW i \in 1 .. left
      PROVE  t[i] = s[from(i)] /\ from(i) \in 1 .. Len(s) /\ s[from(i)].id # id
  <2>1. CASE before(i)
    BY <1>1, <1>3, <2>1
  <2>2. CASE ~before(i)
    <3>1. PICK j \in 1 .. i : s[j].id = id
      BY <2>2
    <3>2. i \in 1 .. Len(s) - 1 /\ j \in DOMAIN s
      BY <1>1, <1>2, <3>1
    <3>3. i + 1 \in DOMAIN s /\ j # i + 1
      BY <1>1, <3>1, <3>2
    <3> QED
      BY <1>1, <1>3, <2>2, <3>1, <3>2, <3>3
  <2> QED
    BY <2>1, <2>2
<1>5. ASSUME NEW i \in 1 .. left, NEW j \in 1 .. left, i < j
      PROVE  from(i) # from(j)
  <2>1. before(j) => before(i)
    BY <1>2, <1>5
  <2> QED
    BY <1>2, <1>5, <2>1
<1> HIDE DEF left, from, t
<1>6. DOMAIN t = 1 .. left /\ t \in Seq(Entry)
  BY <1>1, <1>2, <1>3, <1>4
<1>7. \A i \in DOMAIN t : t[i].id # id /\ \E j \in DOMAIN s : t[i] = s[j]
  BY <1>1, <1>4, <1>6
<1>8. \A i, j \in DOMAIN t : i # j => t[i].id # t[j].id
  <2> SUFFICES ASSUME NEW i \in 1 .. left, NEW j \in 1 .. left, i # j
               PROVE  t[i].id # t[j].id
    BY <1>6
  <2>1. i < j \/ j < i
    BY <1>2
  <2>2. from(i) # from(j)
    BY <1>5, <2>1
  <2> QED
    BY <1>1, <1>4, <2>2
<1> QED
  BY <1>6, <1>7, <1>8 DEF t

(* Sorting puts the entries into other places.                             *)
LEMMA SortKeepsEntries ==
    ASSUME NEW s \in Seq(Entry), NEW t \in SortedByTime(s),
           \A i, j \in DOMAIN s : i # j => s[i].id # s[j].id
    PROVE  /\ t \in Seq(Entry)
           /\ \A i \in DOMAIN t : \E j \in DOMAIN s : t[i] = s[j]
           /\ \A i, j \in DOMAIN t : i # j => t[i].id # t[j].id
<1>1. Len(s) \in Nat /\ DOMAIN s = 1 .. Len(s) /\ \A i \in 1 .. Len(s) : s[i] \in Entry
  OBVIOUS
<1>2. /\ t \in [DOMAIN s -> {s[i] : i \in DOMAIN s}]
      /\ \A i, j \in DOMAIN s : i # j => t[i] # t[j]
  BY DEF SortedByTime
<1>3. DOMAIN t = 1 .. Len(s) /\ \A i \in DOMAIN t : \E j \in DOMAIN s : t[i] = s[j]
  BY <1>1, <1>2
<1>4. \A i \in 1 .. Len(s) : t[i] \in Entry
  BY <1>1, <1>3
<1>5. t = [i \in 1 .. Len(s) |-> t[i]]
  BY <1>1, <1>2
<1>6. t \in Seq(Entry)
  BY <1>1, <1>4, <1>5
<1>7. ASSUME NEW i \in DOMAIN t, NEW j \in DOMAIN t, i # j
      PROVE  t[i].id # t[j].id
  <2>1. PICK k \in DOMAIN s : t[i] = s[k]
    BY <1>3
  <2>2. PICK l \in DOMAIN s : t[j] = s[l]
    BY <1>3
  <2>3. t[i] # t[j]
    BY <1>1, <1>2, <1>3, <1>7
  <2> QED
    BY <2>1, <2>2, <2>3
<1> QED
  BY <1>3, <1>6, <1>7
-----------------------------------------------------------------------------
(* Steps that start and finish no job.                                     *)

(* What the elements of the lists and sets of the state are made of.       *)
LEMMA Typed ==
    ASSUME TypeOK
    PROVE  /\ clock \in Nat /\ nextID \in Nat /\ timerC \in Nat /\ Len(entries) \in Nat
           /\ DOMAIN entries = 1 .. Len(entries) /\ Len(chain) \in Nat
           /\ DOMAIN chain = 1 .. Len(chain)
           /\ \A i \in DOMAIN entries :
                /\ entries[i] \in Entry /\ entries[i].id \in Nat /\ entries[i].prev \in Nat
                /\ entries[i].next \in Nat /\ entries[i].sched \in Schedules
           /\ \A v \in invs : v \in Invocation /\ v.id \in Nat /\ v.at \in Nat /\ v.layer \in Nat \ {0}
           /\ Len(waits) \in Nat /\ DOMAIN waits = 1 .. Len(waits)
           /\ \A i \in DOMAIN waits :
                /\ waits[i] \in Wait /\ waits[i].owed \in SUBSET [id : Nat, at : Nat]
                /\ \A o \in waits[i].owed : o.id \in Nat /\ o.at \in Nat
<1>1. clock \in Nat /\ nextID \in Nat /\ timerC \in Nat
  BY CronAssumption DEF TypeOK
<1>2. Len(chain) \in Nat /\ DOMAIN chain = 1 .. Len(chain)
  BY CronAssumption DEF TypeOK
<1>3. /\ Len(entries) \in Nat /\ DOMAIN entries = 1 .. Len(entries)
      /\ \A i \in DOMAIN entries : entries[i] \in Entry
  BY DEF TypeOK
<1>4. \A e \in Entry : e.id \in Nat /\ e.prev \in Nat /\ e.next \in Nat /\ e.sched \in Schedules
  BY DEF Entry
<1>5. \A v \in invs : v \in Invocation
  BY DEF TypeOK
<1>6. \A v \in Invocation : v.id \in Nat /\ v.at \in Nat /\ v.layer \in Nat \ {0}
  BY DEF Invocation
<1>7. /\ Len(waits) \in Nat /\ DOMAIN waits = 1 .. Len(waits)
      /\ \A i \in DOMAIN waits : waits[i] \in Wait
  BY DEF TypeOK
<1>8. \A x \in Wait : x.owed \in SUBSET [id : Nat, at : Nat]
  BY DEF Wait
<1>9. \A o \in [id : Nat, at : Nat] : o.id \in Nat /\ o.at \in Nat
  OBVIOUS
<1> QED
  BY <1>1, <1>2, <1>3, <1>4, <1>5, <1>6, <1>7, <1>8, <1>9

(* What every such step owes to the invariant: whatever was started stays  *)
(* behind.                                                                 *)
LEMMA JobsFrame ==
    ASSUME CronInv, UNCHANGED <<chain, jobs, waits>>, TypeOK', Ids', Times',
           \A id, at \in Nat : Behind(id, at) => Behind(id, at)'
    PROVE  CronInv'
<1>1. /\ \A v \in invs : v.id \in Nat /\ v.at \in Nat
      /\ \A i \in DOMAIN waits : \A o \in waits[i].owed : o.id \in Nat /\ o.at \in Nat
  BY Typed DEF CronInv
<1>2. Activations'
  <2>1. ASSUME NEW v \in invs PROVE Behind(v.id, v.at)'
    BY <1>1 DEF CronInv, Activations
  <2>2. ASSUME NEW i \in DOMAIN waits, NEW o \in waits[i].owed PROVE Behind(o.id, o.at)'
    BY <1>1 DEF CronInv, Activations
  <2> QED
    BY <2>1, <2>2 DEF Activations, jobs
<1>3. Counted' /\ Layers' /\ ContextMeansFinished'
  BY DEF CronInv, Counted, Layers, ContextMeansFinished, jobs
<1> QED
  BY <1>2, <1>3 DEF CronInv

(* Such a step that takes the entries from the old list, with other next   *)
(* activations at most.                                                    *)
LEMMA KeptEntries ==
    ASSUME CronInv, TypeOK', UNCHANGED <<chain, jobs, waits, nextID>>,
           removed' \subseteq 1 .. nextID,
           \A i \in DOMAIN entries' :
              /\ entries'[i].id \notin removed' /\ InTime(entries'[i], clock')
              /\ \E j \in DOMAIN entries : entries'[i].id = entries[j].id /\ entries'[i].prev = entries[j].prev,
           \A i, j \in DOMAIN entries' : i # j => entries'[i].id # entries'[j].id,
           \/ UNCHANGED <<req, removed>>
           \/ req'.op # "add" /\ (req'.op = "remove" => req'.id \in 1 .. nextID),
           timerC' <= clock', running' <=> sched' # "off"
    PROVE  CronInv'
<1>1. Ids'
  <2>1. \A i \in DOMAIN entries' : entries'[i].id \in 1 .. nextID' /\ entries'[i].id \notin removed'
    BY DEF CronInv, Ids
  <2>2. CASE req'.op # "add" /\ (req'.op = "remove" => req'.id \in 1 .. nextID)
    BY <2>1, <2>2 DEF Ids
  <2>3. CASE UNCHANGED <<req, removed>>
    BY <2>1, <2>3 DEF CronInv, Ids
  <2> QED
    BY <2>2, <2>3
<1>2. Times'
  BY DEF Times
<1>3. ASSUME NEW id \in Nat, NEW at \in Nat, Behind(id, at)
      PROVE  Behind(id, at)'
  <2>1. \A i \in DOMAIN entries' : entries'[i].id = id => at <= entries'[i].prev
    BY <1>3 DEF Behind
  <2>2. req'.op = "add" => req'.entry.id # id
    BY <1>3 DEF Behind
  <2> QED
    BY <1>3, <2>1, <2>2 DEF Behind
<1> QED
  BY <1>1, <1>2, <1>3, JobsFrame

(* Such a step that leaves the list as it is.                              *)
LEMMA SameEntries ==
    ASSUME CronInv, TypeOK', UNCHANGED <<chain, jobs, waits, nextID, entries, removed>>,
           \/ UNCHANGED req
           \/ req'.op # "add" /\ (req'.op = "remove" => req'.id \in 1 .. nextID),
           clock' >= clock, timerC' <= clock', running' <=> sched' # "off"
    PROVE  CronInv'
<1>1. clock \in Nat /\ clock' \in Nat
  BY CronAssumption DEF CronInv, TypeOK
<1>2. \A i \in DOMAIN entries : entries[i] \in Entry /\ entries[i].prev \in Nat
  BY Typed DEF CronInv
<1>3. \A i \in DOMAIN entries : entries[i].id \notin removed /\ InTime(entries[i], clock')
  BY <1>1, <1>2 DEF CronInv, Ids, Times, InTime
<1>4. /\ removed \subseteq 1 .. nextID
      /\ \A i, j \in DOMAIN entries : i # j => entries[i].id # entries[j].id
  BY DEF CronInv, Ids
<1> QED
  BY <1>3, <1>4, KeptEntries

(* Such a step that adds an entry nobody has seen to the list.             *)
LEMMA AddedEntry ==
    ASSUME CronInv, TypeOK', UNCHANGED <<clock, chain, jobs, waits, removed>>,
           NEW e \in Entry, entries' = Append(entries, e),
           e.prev = Zero, e.next # Zero => e.next \in e.sched /\ e.next > Zero,
           nextID' >= nextID, e.id \in 1 .. nextID', e.id \notin removed,
           \A i \in DOMAIN entries : entries[i].id # e.id,
           \A id, at \in Nat : Behind(id, at) => id # e.id,
           req'.op = "none", timerC' <= clock, running' <=> sched' # "off"
    PROVE  CronInv'
<1>1. /\ entries \in Seq(Entry) /\ nextID \in Nat /\ nextID' \in Nat /\ Len(entries) \in Nat
      /\ clock \in Nat /\ DOMAIN entries = 1 .. Len(entries)
  BY DEF CronInv, TypeOK
<1>2. /\ DOMAIN entries' = 1 .. Len(entries) + 1
      /\ \A i \in 1 .. Len(entries) : entries'[i] = entries[i]
      /\ entries'[Len(entries) + 1] = e
  BY <1>1
<1>3. \A i \in DOMAIN entries' : i \in DOMAIN entries \/ i = Len(entries) + 1
  BY <1>1, <1>2
<1>4. Ids'
  <2>1. removed' \subseteq 1 .. nextID'
    BY <1>1 DEF CronInv, Ids
  <2>2. ASSUME NEW i \in DOMAIN entries'
        PROVE  entries'[i].id \in 1 .. nextID' /\ entries'[i].id \notin removed'
    <3>1. CASE i \in DOMAIN entries
      BY <1>1, <1>2, <3>1 DEF CronInv, Ids
    <3>2. CASE i = Len(entries) + 1
      BY <1>2, <3>2
    <3> QED
      BY <1>3, <3>1, <3>2
  <2>3. ASSUME NEW i \in DOMAIN entries', NEW j \in DOMAIN entries', i # j
        PROVE  entries'[i].id # entries'[j].id
    BY <1>1, <1>2, <1>3, <2>3 DEF CronInv, Ids
  <2> QED
    BY <2>1, <2>2, <2>3 DEF Ids
<1>5. Times'
  <2>1. InTime(e, clock)
    BY <1>1 DEF InTime, Zero
  <2>2. \A i \in DOMAIN entries' : InTime(entries'[i], clock')
    BY <1>1, <1>2, <1>3, <2>1 DEF CronInv, Times
  <2> QED
    BY <2>2 DEF Times
<1>6. ASSUME NEW id \in Nat, NEW at \in Nat, Behind(id, at)
      PROVE  Behind(id, at)'
  <2>1. id # e.id
    BY <1>6
  <2>2. id \in 1 .. nextID'
    BY <1>1, <1>6 DEF Behind
  <2>3. \A i \in DOMAIN entries' : entries'[i].id = id => at <= entries'[i].prev
    BY <1>1, <1>2, <1>3, <1>6, <2>1 DEF Behind
  <2> QED
    BY <2>2, <2>3 DEF Behind
<1> QED
  BY <1>4, <1>5, <1>6, JobsFrame
(* Requests, and the entry of one that adds it.                            *)
LEMMA RequestTypes ==
    /\ NoReq \in Requests /\ NoReq.op = "none"
    /\ \A op \in {"snapshot", "stop"} : [op |-> op] \in Requests
    /\ \A id \in Nat : [op |-> "remove", id |-> id] \in Requests
    /\ \A e \in Entry : [op |-> "add", entry |-> e] \in Requests
    /\ \A r \in Requests : r.op = "add" => r.entry \in Entry
    /\ \A r \in Requests : r.op = "remove" => r.id \in Nat
  BY DEF NoReq, Requests

(* A new entry.                                                            *)
LEMMA NewEntryType ==
    ASSUME NEW id \in Nat, NEW s \in Schedules
    PROVE  /\ NewEntry(id, s) \in Entry /\ NewEntry(id, s).id = id
           /\ NewEntry(id, s).next = Zero /\ NewEntry(id, s).prev = Zero
  BY DEF NewEntry, Entry, Zero

(* An entry whose next activation is computed anew.                        *)
LEMMA Rescheduled ==
    ASSUME NEW e \in Entry, NEW t \in Nat
    PROVE  LET f == [e EXCEPT !.next = NextTime(e.sched, t)]
           IN  /\ f \in Entry /\ f.id = e.id /\ f.prev = e.prev /\ f.sched = e.sched
               /\ f.next # Zero => f.next \in f.sched /\ f.next > t
<1>1. e.sched \in Schedules
  BY DEF Entry
<1> DEFINE n == NextTime(e.sched, t)
           f == [e EXCEPT !.next = n]
<1>2. n \in Nat /\ (n # Zero => n \in e.sched /\ n > t)
  BY <1>1, NextTimeLater
<1> HIDE DEF n
<1>3. f \in Entry /\ f.id = e.id /\ f.prev = e.prev /\ f.sched = e.sched /\ f.next = n
  BY <1>2 DEF Entry
<1> QED
  BY <1>2, <1>3 DEF n

(* A caller that gets runningMu finds no request under way.                *)
LEMMA LockedType ==
    ASSUME TypeOK, Locked
    PROVE  req.op = "none" /\ calls' \in 0 .. MaxCalls
<1>1. req = NoReq /\ calls < MaxCalls /\ calls' = calls + 1
  BY DEF Locked
<1> QED
  BY <1>1, CronAssumption DEF TypeOK, NoReq

(* The clock, and the calls of the API.                                    *)
LEMMA CallsPreserve ==
    ASSUME CronInv,
           Tick \/ (\E s \in Schedules : Schedule(s)) \/ (\E id \in 1 .. nextID : Remove(id))
           \/ Start \/ Entries
    PROVE  CronInv'
<1> USE DEF run, jobs, caller
<1>0. TypeOK /\ timerC <= clock /\ (running <=> sched # "off")
  BY DEF CronInv, Times
<1>1. CASE Tick
  <2>1. /\ clock < MaxClock /\ clock' = clock + 1
        /\ UNCHANGED <<chain, running, nextID, entries, sched, now, fireAt, timerC, req, calls,
                       invs, tokens, wg, waits, removed>>
    BY <1>1 DEF Tick
  <2>2. clock' \in 1 .. MaxClock /\ clock' >= clock /\ timerC' <= clock'
    BY <1>0, <2>1, CronAssumption DEF TypeOK
  <2>3. TypeOK'
    BY <1>0, <2>1, <2>2 DEF TypeOK
  <2> QED
    BY <1>0, <2>1, <2>2, <2>3, SameEntries
<1>2. ASSUME NEW s \in Schedules, Schedule(s)
      PROVE  CronInv'
  <2> DEFINE e == NewEntry(nextID + 1, s)
  <2>1. /\ nextID' = nextID + 1 /\ Locked
        /\ UNCHANGED <<clock, chain, running, sched, now, fireAt, timerC, invs, tokens, wg, waits, removed>>
    BY <1>2 DEF Schedule
  <2>2. nextID \in Nat /\ nextID + 1 \in Nat /\ clock >= clock
    BY <1>0, Typed
  <2>3. e \in Entry /\ e.id = nextID + 1 /\ e.next = Zero /\ e.prev = Zero
    BY <2>2, NewEntryType
  <2>4. req.op = "none" /\ calls' \in 0 .. MaxCalls
    BY <1>0, <2>1, LockedType
  <2>5. \/ UNCHANGED req /\ entries' = Append(entries, e)
        \/ req' = [op |-> "add", entry |-> e] /\ UNCHANGED entries
    BY <1>2 DEF Schedule, Direct, Send
  <2> HIDE DEF e
  <2>6. /\ e.id \in 1 .. nextID' /\ e.id \notin removed
        /\ \A i \in DOMAIN entries : entries[i].id # e.id
    BY <2>1, <2>2, <2>3 DEF CronInv, Ids
  <2>7. \A id, at \in Nat : Behind(id, at) => id # e.id
    BY <2>2, <2>3 DEF Behind
  <2>8. CASE UNCHANGED req /\ entries' = Append(entries, e)
    <3>1. entries' \in Seq(Entry)
      BY <1>0, <2>3, <2>8 DEF TypeOK
    <3>2. TypeOK'
      BY <1>0, <2>1, <2>2, <2>4, <2>8, <3>1 DEF TypeOK
    <3> QED
      BY <1>0, <2>1, <2>2, <2>3, <2>4, <2>6, <2>7, <2>8, <3>2, AddedEntry
  <2>9. CASE req' = [op |-> "add", entry |-> e] /\ UNCHANGED entries
    <3>1. req' \in Requests /\ req'.op = "add" /\ req'.entry = e
      BY <2>3, <2>9, RequestTypes
    <3>2. TypeOK'
      BY <1>0, <2>1, <2>2, <2>4, <2>9, <3>1 DEF TypeOK
    <3>3. Ids'
      <4>1. /\ removed \subseteq 1 .. nextID'
            /\ \A i \in DOMAIN entries : entries[i].id \in 1 .. nextID' /\ entries[i].id \notin removed
            /\ \A i, j \in DOMAIN entries : i # j => entries[i].id # entries[j].id
        BY <2>1, <2>2 DEF CronInv, Ids
      <4> QED
        BY <2>1, <2>3, <2>6, <2>9, <3>1, <4>1 DEF Ids
    <3>4. Times'
      BY <2>1, <2>9 DEF CronInv, Times
    <3>5. ASSUME NEW id \in Nat, NEW at \in Nat, Behind(id, at)
          PROVE  Behind(id, at)'
      <4>1. id # e.id
        BY <2>7, <3>5
      <4> QED
        BY <2>1, <2>2, <2>9, <3>1, <3>5, <4>1 DEF Behind
    <3> QED
      BY <2>1, <2>9, <3>2, <3>3, <3>4, <3>5, JobsFrame
  <2> QED
    BY <2>5, <2>8, <2>9
<1>3. ASSUME NEW id \in 1 .. nextID, Remove(id)
      PROVE  CronInv'
  <2>1. /\ Locked
        /\ UNCHANGED <<clock, chain, running, nextID, sched, now, fireAt, timerC, invs, tokens, wg, waits>>
    BY <1>3 DEF Remove
  <2>2. req.op = "none" /\ calls' \in 0 .. MaxCalls /\ id \in Nat /\ clock >= clock
    BY <1>0, <2>1, LockedType, Typed
  <2>3. CASE UNCHANGED req /\ entries' = removeEntry(entries, id) /\ removed' = removed \cup {id}
    <3>1. /\ entries \in Seq(Entry) /\ \A i, j \in DOMAIN entries : i # j => entries[i].id # entries[j].id
          /\ removed \subseteq 1 .. nextID
      BY DEF CronInv, TypeOK, Ids
    <3>2. /\ entries' \in Seq(Entry)
          /\ \A i \in DOMAIN entries' : entries'[i].id # id /\ \E j \in DOMAIN entries : entries'[i] = entries[j]
          /\ \A i, j \in DOMAIN entries' : i # j => entries'[i].id # entries'[j].id
      BY <2>3, <3>1, RemoveLeavesOthers
    <3>3. TypeOK'
      BY <1>0, <2>1, <2>2, <2>3, <3>2 DEF TypeOK
    <3>4. \A i \in DOMAIN entries' : entries'[i].id \notin removed' /\ InTime(entries'[i], clock')
      BY <2>1, <2>3, <3>2 DEF CronInv, Ids, Times
    <3>5. removed' \subseteq 1 .. nextID
      BY <2>3, <3>1
    <3> QED
      BY <1>0, <2>1, <2>2, <2>3, <3>2, <3>3, <3>4, <3>5, KeptEntries
  <2>4. CASE req' = [op |-> "remove", id |-> id] /\ UNCHANGED <<entries, removed>>
    <3>1. req' \in Requests /\ req'.op = "remove" /\ req'.id = id
      BY <2>2, <2>4, RequestTypes
    <3>2. TypeOK'
      BY <1>0, <2>1, <2>2, <2>4, <3>1 DEF TypeOK
    <3> QED
      BY <1>0, <2>1, <2>2, <2>4, <3>1, <3>2, SameEntries
  <2> QED
    BY <1>3, <2>3, <2>4 DEF Remove, Direct, Send
<1>4. CASE Start
  <2>1. /\ Locked /\ running' = TRUE /\ sched' = IF running THEN sched ELSE "init"
        /\ UNCHANGED <<clock, chain, nextID, entries, now, fireAt, timerC, req, invs, tokens, wg, waits, removed>>
    BY <1>4 DEF Start
  <2>2. calls' \in 0 .. MaxCalls /\ clock >= clock
    BY <1>0, <2>1, LockedType, Typed
  <2>3. sched' \in SchedSteps /\ sched' # "off"
    BY <1>0, <2>1 DEF TypeOK, SchedSteps
  <2>4. TypeOK'
    BY <1>0, <2>1, <2>2, <2>3 DEF TypeOK
  <2> QED
    BY <1>0, <2>1, <2>2, <2>3, <2>4, SameEntries
<1>5. CASE Entries
  <2>1. /\ Locked
        /\ UNCHANGED <<clock, chain, running, nextID, entries, sched, now, fireAt, timerC, invs, tokens, wg,
                       waits, removed>>
    BY <1>5 DEF Entries
  <2>2. calls' \in 0 .. MaxCalls /\ req.op = "none" /\ clock >= clock
    BY <1>0, <2>1, LockedType, Typed
  <2>3. req' = req \/ req' = [op |-> "snapshot"]
    BY <1>5 DEF Entries, Direct, Send
  <2>4. req' \in Requests /\ req'.op \in {"none", "snapshot"}
    BY <1>0, <2>2, <2>3, RequestTypes DEF TypeOK
  <2>5. TypeOK'
    BY <1>0, <2>1, <2>2, <2>4 DEF TypeOK
  <2> QED
    BY <1>0, <2>1, <2>2, <2>4, <2>5, SameEntries
<1> QED
  BY <1>1, <1>2, <1>3, <1>4, <1>5
(* The steps of run() that start no job and answer no Stop.                *)
LEMMA RunPreserves ==
    ASSUME CronInv, RunInit \/ RunLoop \/ TimerFires \/ RunAdd \/ RunSnapshot \/ RunRemove
    PROVE  CronInv'
<1> USE DEF run, jobs, caller
<1>0. /\ TypeOK /\ timerC <= clock /\ (running <=> sched # "off")
      /\ clock \in Nat /\ clock >= clock /\ entries \in Seq(Entry) /\ removed \subseteq 1 .. nextID
      /\ \A i, j \in DOMAIN entries : i # j => entries[i].id # entries[j].id
      /\ \A i \in DOMAIN entries : entries[i].id \notin removed /\ InTime(entries[i], clock)
  BY Typed DEF CronInv, Times, Ids, TypeOK
<1>1. /\ Never \in Nat /\ Zero \in Nat /\ Zero <= clock
      /\ {"off", "init", "loop", "select"} \subseteq SchedSteps
  BY <1>0, CronAssumption DEF Never, Zero, SchedSteps
<1>2. CASE RunInit
  <2>1. /\ sched = "init" /\ now' = clock /\ sched' = "loop"
        /\ entries' = [i \in DOMAIN entries |->
                         [entries[i] EXCEPT !.next = NextTime(entries[i].sched, clock)]]
        /\ UNCHANGED <<clock, chain, running, nextID, fireAt, timerC, req, calls, invs, tokens, wg, waits, removed>>
    BY <1>2 DEF RunInit
  <2>2. ASSUME NEW i \in DOMAIN entries
        PROVE  /\ entries'[i] \in Entry /\ entries'[i].id = entries[i].id
               /\ entries'[i].prev = entries[i].prev /\ InTime(entries'[i], clock)
    <3>1. entries[i] \in Entry /\ entries[i].prev \in Nat /\ entries[i].prev <= clock
      BY <1>0, Typed DEF InTime
    <3>2. LET f == entries'[i] IN
            /\ f \in Entry /\ f.id = entries[i].id /\ f.prev = entries[i].prev
            /\ f.next # Zero => f.next \in f.sched /\ f.next > clock
      BY <1>0, <2>1, <3>1, Rescheduled
    <3>3. entries'[i].next \in Nat
      BY <3>2 DEF Entry
    <3> QED
      BY <1>0, <3>1, <3>2, <3>3 DEF InTime
  <2>3. DOMAIN entries' = DOMAIN entries /\ entries' \in Seq(Entry)
    <3>1. DOMAIN entries = 1 .. Len(entries) /\ Len(entries) \in Nat
      BY <1>0
    <3>2. entries' = [i \in 1 .. Len(entries) |-> entries'[i]]
      BY <2>1, <3>1
    <3> QED
      BY <2>2, <3>1, <3>2
  <2>4. TypeOK'
    BY <1>0, <1>1, <2>1, <2>3 DEF TypeOK
  <2>5. \A i \in DOMAIN entries' :
          /\ entries'[i].id \notin removed' /\ InTime(entries'[i], clock')
          /\ \E j \in DOMAIN entries : entries'[i].id = entries[j].id /\ entries'[i].prev = entries[j].prev
    <3> HIDE DEF run, jobs, caller
    <3> QED
      BY <1>0, <2>1, <2>2, <2>3
  <2>6. \A i, j \in DOMAIN entries' : i # j => entries'[i].id # entries'[j].id
    BY <1>0, <2>2, <2>3
  <2>7. timerC' <= clock' /\ (running' <=> sched' # "off")
    BY <1>0, <2>1
  <2> QED
    BY <1>0, <2>1, <2>4, <2>5, <2>6, <2>7, KeptEntries
<1>3. CASE RunLoop
  <2>1. /\ sched = "loop" /\ sched' = "select" /\ entries' \in SortedByTime(entries)
        /\ UNCHANGED <<clock, chain, running, nextID, now, timerC, req, calls, invs, tokens, wg, waits, removed>>
    BY <1>3 DEF RunLoop
  <2>2. /\ entries' \in Seq(Entry)
        /\ \A i \in DOMAIN entries' : \E j \in DOMAIN entries : entries'[i] = entries[j]
        /\ \A i, j \in DOMAIN entries' : i # j => entries'[i].id # entries'[j].id
    BY <1>0, <2>1, SortKeepsEntries
  <2>3. fireAt' \in Nat
    <3>1. fireAt' = IF entries' = <<>> \/ entries'[1].next = Zero THEN Never
                    ELSE IF entries'[1].next <= now THEN clock
                    ELSE clock + (entries'[1].next - now)
      BY <1>3 DEF RunLoop
    <3>2. CASE entries' = <<>> \/ entries'[1].next = Zero
      BY <1>1, <3>1, <3>2
    <3>3. CASE ~(entries' = <<>> \/ entries'[1].next = Zero)
      <4>1. entries'[1] \in Entry
        BY <2>2, <3>3
      <4>2. entries'[1].next \in Nat /\ now \in Nat
        BY <1>0, <4>1 DEF Entry, TypeOK
      <4> QED
        BY <1>0, <3>1, <3>3, <4>2
    <3> QED
      BY <3>2, <3>3
  <2>4. TypeOK'
    BY <1>0, <1>1, <2>1, <2>2, <2>3 DEF TypeOK
  <2>5. \A i \in DOMAIN entries' : entries'[i].id \notin removed' /\ InTime(entries'[i], clock')
    BY <1>0, <2>1, <2>2
  <2> QED
    BY <1>0, <2>1, <2>2, <2>4, <2>5, KeptEntries
<1>4. CASE TimerFires
  <2>1. /\ timerC' = clock
        /\ UNCHANGED <<clock, chain, running, nextID, entries, sched, now, fireAt, req, calls,
                       invs, tokens, wg, waits, removed>>
    BY <1>4 DEF TimerFires
  <2>2. TypeOK'
    BY <1>0, <2>1 DEF TypeOK
  <2> QED
    BY <1>0, <2>1, <2>2, SameEntries
<1>5. CASE RunAdd
  <2> DEFINE e == [req.entry EXCEPT !.next = NextTime(req.entry.sched, clock)]
  <2>1. /\ sched = "select" /\ req.op = "add" /\ req' = NoReq /\ entries' = Append(entries, e)
        /\ sched' = "loop" /\ now' = clock /\ fireAt' = Never /\ timerC' = Zero
        /\ UNCHANGED <<clock, chain, nextID, calls, invs, tokens, wg, running, waits, removed>>
    BY <1>5 DEF RunAdd, Receive, NextRound
  <2>2. req.entry \in Entry
    BY <1>0, <2>1, RequestTypes DEF TypeOK
  <2>3. /\ e \in Entry /\ e.id = req.entry.id /\ e.prev = req.entry.prev
        /\ e.next # Zero => e.next \in e.sched /\ e.next > clock
    BY <1>0, <2>2, Rescheduled
  <2> HIDE DEF e
  <2>4. /\ req.entry.prev = Zero /\ req.entry.id \in 1 .. nextID /\ req.entry.id \notin removed
        /\ \A i \in DOMAIN entries : entries[i].id # req.entry.id
    BY <2>1 DEF CronInv, Ids
  <2>5. e.next # Zero => e.next \in e.sched /\ e.next > Zero
    BY <1>0, <2>3 DEF Zero, Entry
  <2>6. \A id, at \in Nat : Behind(id, at) => id # e.id
    BY <2>1, <2>3 DEF Behind
  <2>7. req' \in Requests /\ req'.op = "none"
    BY <2>1, RequestTypes
  <2>8. entries' \in Seq(Entry)
    BY <1>0, <2>1, <2>3
  <2>9. TypeOK' /\ nextID' >= nextID
    BY <1>0, <1>1, <2>1, <2>7, <2>8 DEF TypeOK
  <2>10. timerC' <= clock /\ (running' <=> sched' # "off")
    BY <1>0, <1>1, <2>1
  <2> QED
    BY <2>1, <2>3, <2>4, <2>5, <2>6, <2>7, <2>9, <2>10, AddedEntry
<1>6. CASE RunSnapshot
  <2>1. /\ req' = NoReq
        /\ UNCHANGED <<clock, chain, nextID, calls, invs, tokens, wg, entries, sched, now, fireAt, timerC,
                       running, waits, removed>>
    BY <1>6 DEF RunSnapshot, Receive
  <2>2. req' \in Requests /\ req'.op = "none"
    BY <2>1, RequestTypes
  <2>3. TypeOK'
    BY <1>0, <2>1, <2>2 DEF TypeOK
  <2> QED
    BY <1>0, <2>1, <2>2, <2>3, SameEntries
<1>7. CASE RunRemove
  <2>1. /\ sched = "select" /\ req.op = "remove" /\ req' = NoReq
        /\ entries' = removeEntry(entries, req.id) /\ removed' = removed \cup {req.id}
        /\ sched' = "loop" /\ now' = clock /\ fireAt' = Never /\ timerC' = Zero
        /\ UNCHANGED <<clock, chain, nextID, calls, invs, tokens, wg, running, waits>>
    BY <1>7 DEF RunRemove, Receive, NextRound
  <2>2. req' \in Requests /\ req'.op = "none" /\ req.id \in Nat
    BY <1>0, <2>1, RequestTypes DEF TypeOK
  <2>3. /\ entries' \in Seq(Entry)
        /\ \A i \in DOMAIN entries' : entries'[i].id # req.id /\ \E j \in DOMAIN entries : entries'[i] = entries[j]
        /\ \A i, j \in DOMAIN entries' : i # j => entries'[i].id # entries'[j].id
    BY <1>0, <2>1, RemoveLeavesOthers
  <2>4. removed' \subseteq Nat /\ removed' \subseteq 1 .. nextID
    BY <1>0, <2>1, <2>2 DEF CronInv, Ids, TypeOK
  <2>5. TypeOK'
    BY <1>0, <1>1, <2>1, <2>2, <2>3, <2>4 DEF TypeOK
  <2>6. \A i \in DOMAIN entries' : entries'[i].id \notin removed' /\ InTime(entries'[i], clock')
    BY <1>0, <2>1, <2>3
  <2> QED
    BY <1>0, <1>1, <2>1, <2>2, <2>3, <2>4, <2>5, <2>6, KeptEntries
<1> QED
  BY <1>2, <1>3, <1>4, <1>5, <1>6, <1>7
-----------------------------------------------------------------------------
(* Steps that start, run and finish jobs, and wait for them.               *)

(* What Stop leaves behind is owed what is running now.                    *)
LEMMA AddedWait ==
    ASSUME CronInv, TypeOK', Ids', Times', UNCHANGED <<chain, jobs, entries, nextID>>,
           req'.op # "add", waits' = Append(waits, NewWait)
    PROVE  CronInv'
<1>1. /\ waits \in Seq(Wait) /\ Len(waits) \in Nat /\ DOMAIN waits = 1 .. Len(waits)
  BY DEF CronInv, TypeOK
<1>2. /\ DOMAIN waits' = 1 .. Len(waits) + 1 /\ waits'[Len(waits) + 1] = NewWait
      /\ \A i \in 1 .. Len(waits) : waits'[i] = waits[i]
  BY <1>1
<1>3. \A i \in DOMAIN waits' : i \in DOMAIN waits \/ i = Len(waits) + 1
  BY <1>1, <1>2
<1>4. NewWait.state = "new" /\ NewWait.owed = {[id |-> v.id, at |-> v.at] : v \in invs}
  BY DEF NewWait
<1>5. ASSUME NEW id, NEW at, Behind(id, at) PROVE Behind(id, at)'
  BY <1>5 DEF Behind
<1>6. Activations'
  <2>1. ASSUME NEW v \in invs' PROVE Behind(v.id, v.at)'
    BY <1>5 DEF CronInv, Activations, jobs
  <2>2. ASSUME NEW i \in DOMAIN waits', NEW o \in waits'[i].owed
        PROVE  Behind(o.id, o.at)'
    <3>1. CASE i \in DOMAIN waits
      BY <1>1, <1>2, <1>5, <2>2, <3>1 DEF CronInv, Activations
    <3>2. CASE i = Len(waits) + 1
      <4>1. PICK v \in invs : o = [id |-> v.id, at |-> v.at]
        BY <1>2, <1>4, <3>2
      <4> QED
        BY <1>5, <4>1 DEF CronInv, Activations
    <3> QED
      BY <1>3, <3>1, <3>2
  <2> QED
    BY <2>1, <2>2 DEF Activations
<1>7. ContextMeansFinished'
  BY <1>1, <1>2, <1>3, <1>4 DEF CronInv, ContextMeansFinished, jobs
<1>8. Counted' /\ Layers'
  BY DEF CronInv, Counted, Layers, jobs
<1> QED
  BY <1>6, <1>7, <1>8 DEF CronInv

(* Stop, with and without a scheduler that runs.                           *)
LEMMA StopPreserves ==
    ASSUME CronInv, Stop \/ RunStop
    PROVE  CronInv'
<1> USE DEF run, jobs, caller
<1>0. /\ TypeOK /\ timerC <= clock /\ (running <=> sched # "off")
      /\ clock \in Nat /\ clock >= clock
  BY Typed DEF CronInv, Times
<1>1. NewWait \in Wait
  <2>1. \A v \in invs : v.id \in Nat /\ v.at \in Nat
    BY <1>0, Typed
  <2>2. {[id |-> v.id, at |-> v.at] : v \in invs} \in SUBSET [id : Nat, at : Nat]
    BY <2>1
  <2>3. "new" \in WaitStates
    BY DEF WaitStates
  <2> QED
    BY <2>2, <2>3 DEF NewWait, Wait
<1>2. Append(waits, NewWait) \in Seq(Wait)
  BY <1>0, <1>1 DEF TypeOK
<1>3. CASE Stop
  <2>1. Locked /\ UNCHANGED <<clock, chain, running, nextID, entries, sched, now, fireAt, timerC,
                              invs, tokens, wg, removed>>
    BY <1>3 DEF Stop
  <2>2. req.op = "none" /\ calls' \in 0 .. MaxCalls
    BY <1>0, <2>1, LockedType
  <2>3. CASE UNCHANGED req /\ waits' = Append(waits, NewWait)
    <3>1. TypeOK'
      BY <1>0, <1>2, <2>1, <2>2, <2>3 DEF TypeOK
    <3>2. Ids' /\ Times'
      BY <2>1, <2>3 DEF CronInv, Ids, Times
    <3> QED
      BY <2>1, <2>2, <2>3, <3>1, <3>2, AddedWait
  <2>4. CASE req' = [op |-> "stop"] /\ UNCHANGED waits
    <3>1. req' \in Requests /\ req'.op = "stop"
      BY <2>4, RequestTypes
    <3>2. TypeOK'
      BY <1>0, <2>1, <2>2, <2>4, <3>1 DEF TypeOK
    <3> QED
      BY <1>0, <2>1, <2>4, <3>1, <3>2, SameEntries
  <2> QED
    BY <1>3, <2>3, <2>4 DEF Stop, Direct, Send
<1>4. CASE RunStop
  <2>1. /\ req' = NoReq /\ sched' = "off" /\ now' = Zero /\ fireAt' = Never /\ timerC' = Zero
        /\ running' = FALSE /\ waits' = Append(waits, NewWait)
        /\ UNCHANGED <<clock, chain, nextID, calls, invs, tokens, wg, entries, removed>>
    BY <1>4 DEF RunStop, Receive
  <2>2. req' \in Requests /\ req'.op = "none"
    BY <2>1, RequestTypes
  <2>3. "off" \in SchedSteps /\ Never \in Nat /\ Zero \in Nat /\ Zero <= clock
    BY <1>0, CronAssumption DEF SchedSteps, Never, Zero
  <2>4. TypeOK'
    BY <1>0, <1>2, <2>1, <2>2, <2>3 DEF TypeOK
  <2>5. Ids'
    BY <2>1, <2>2 DEF CronInv, Ids
  <2>6. Times'
    BY <2>1, <2>3 DEF CronInv, Times
  <2> QED
    BY <2>1, <2>2, <2>4, <2>5, <2>6, AddedWait
<1> QED
  BY <1>3, <1>4

(* jobWaiter.Wait returns at once only if no job is running.               *)
LEMMA WaitPreserves ==
    ASSUME CronInv, NEW i \in DOMAIN waits, WaitJobs(i)
    PROVE  CronInv'
<1> USE DEF run, jobs, caller
<1> DEFINE st == IF wg = 0 THEN "done" ELSE "blocked"
           x == [waits[i] EXCEPT !.state = st]
<1>1. /\ waits' = [waits EXCEPT ![i] = x]
      /\ UNCHANGED <<clock, chain, running, nextID, entries, sched, now, fireAt, timerC, req, calls,
                     invs, tokens, wg, removed>>
  BY DEF WaitJobs
<1>2. TypeOK /\ waits[i] \in Wait /\ DOMAIN waits = 1 .. Len(waits) /\ Len(waits) \in Nat
  BY Typed DEF CronInv
<1>3. st \in WaitStates /\ (st = "done" => wg = 0)
  BY DEF WaitStates
<1> HIDE DEF st
<1>4. x \in Wait /\ x.state = st /\ x.owed = waits[i].owed
  BY <1>2, <1>3 DEF Wait
<1> HIDE DEF x
<1>5. /\ DOMAIN waits' = DOMAIN waits /\ waits' \in Seq(Wait)
      /\ \A j \in DOMAIN waits : waits'[j].owed = waits[j].owed
      /\ \A j \in DOMAIN waits : j # i => waits'[j] = waits[j]
      /\ waits'[i] = x
  <2>1. \A j \in 1 .. Len(waits) : waits[j] \in Wait
    BY <1>2, Typed
  <2>2. /\ DOMAIN waits' = DOMAIN waits /\ waits'[i] = x
        /\ \A j \in DOMAIN waits : j # i => waits'[j] = waits[j]
    BY <1>1
  <2>3. waits' = [j \in 1 .. Len(waits) |-> waits'[j]]
    BY <1>1, <1>2
  <2>4. \A j \in 1 .. Len(waits) : waits'[j] \in Wait
    BY <1>2, <1>4, <2>1, <2>2
  <2>5. waits' \in Seq(Wait)
    BY <1>2, <2>3, <2>4
  <2> QED
    BY <1>4, <2>2, <2>5
<1>6. TypeOK'
  BY <1>1, <1>2, <1>5 DEF TypeOK
<1>7. Ids' /\ Times' /\ Counted' /\ Layers'
  BY <1>1 DEF CronInv, Ids, Times, Counted, Layers
<1>8. ASSUME NEW id, NEW at, Behind(id, at) PROVE Behind(id, at)'
  BY <1>1, <1>8 DEF Behind
<1>9. Activations'
  <2>1. ASSUME NEW v \in invs' PROVE Behind(v.id, v.at)'
    BY <1>1, <1>8 DEF CronInv, Activations
  <2>2. ASSUME NEW j \in DOMAIN waits', NEW o \in waits'[j].owed PROVE Behind(o.id, o.at)'
    <3>1. j \in DOMAIN waits /\ o \in waits[j].owed
      BY <1>5
    <3> QED
      BY <1>8, <3>1 DEF CronInv, Activations
  <2> QED
    BY <2>1, <2>2 DEF Activations
<1>10. ContextMeansFinished'
  <2>1. wg = 0 => invs = {}
    BY FS_EmptySet DEF CronInv, Counted
  <2> QED
    BY <1>1, <1>3, <1>4, <1>5, <2>1 DEF CronInv, ContextMeansFinished
<1> QED
  BY <1>6, <1>7, <1>9, <1>10 DEF CronInv
(* A due entry: its activation is one of its schedule, has come, and is    *)
(* later than all it was started for.                                      *)
LEMMA DueIsJustified ==
    ASSUME CronInv, NEW i \in DuePrefix(entries, timerC)
    PROVE  /\ i \in DOMAIN entries /\ entries[i].next # Zero /\ entries[i].next <= timerC
           /\ entries[i].next <= clock /\ entries[i].next \in entries[i].sched
           /\ entries[i].next > entries[i].prev
<1>1. i \in DOMAIN entries /\ DOMAIN entries = 1 .. Len(entries) /\ Len(entries) \in Nat
  BY Typed DEF DuePrefix, CronInv
<1>2. Due(entries[i], timerC)
  BY <1>1 DEF DuePrefix
<1>3. entries[i].next \in Nat /\ timerC \in Nat /\ clock \in Nat
  BY <1>1, Typed DEF CronInv
<1>4. timerC <= clock /\ InTime(entries[i], clock)
  BY <1>1 DEF CronInv, Times
<1> QED
  BY <1>1, <1>2, <1>3, <1>4 DEF Due, InTime

(* The timer: what is due is started and counted, with the next activation *)
(* of its entry later than this one.                                       *)
LEMMA WakePreserves ==
    ASSUME CronInv, Wake
    PROVE  CronInv'
<1> USE DEF run, jobs, caller
<1> DEFINE due == DuePrefix(entries, timerC)
           inv(i) == [id |-> entries[i].id, at |-> entries[i].next, layer |-> 1]
           started == {inv(i) : i \in due}
           moved(i) == [entries[i] EXCEPT !.prev = entries[i].next,
                                          !.next = NextTime(entries[i].sched, timerC)]
<1>1. /\ sched = "select" /\ timerC # Zero /\ invs' = invs \cup started
      /\ wg' = wg + Cardinality(started)
      /\ entries' = [i \in DOMAIN entries |-> IF i \in due THEN moved(i) ELSE entries[i]]
      /\ sched' = "loop" /\ now' = timerC /\ fireAt' = Never /\ timerC' = Zero
      /\ UNCHANGED <<tokens, clock, chain, running, nextID, req, calls, waits, removed>>
  BY DEF Wake, startJob, NextRound
<1>2. /\ TypeOK /\ timerC <= clock /\ (running <=> sched # "off") /\ clock \in Nat /\ timerC \in Nat
      /\ DOMAIN entries = 1 .. Len(entries) /\ Len(entries) \in Nat /\ Len(chain) \in Nat
      /\ \A i \in DOMAIN entries : InTime(entries[i], clock)
  BY Typed DEF CronInv, Times
<1>3. ASSUME NEW i \in due
      PROVE  /\ i \in DOMAIN entries /\ entries[i].next <= timerC /\ entries[i].next # Zero
             /\ entries[i].next > entries[i].prev /\ entries[i].next \in Nat
             /\ entries[i].prev \in Nat
  BY DueIsJustified, Typed DEF CronInv
<1>4. ASSUME NEW i \in due
      PROVE  /\ inv(i) \in Invocation /\ inv(i).id = entries[i].id
             /\ inv(i).at = entries[i].next /\ inv(i).layer = 1
  <2>1. entries[i].id \in Nat /\ entries[i].next \in Nat
    BY <1>3, Typed DEF CronInv
  <2> QED
    BY <2>1 DEF Invocation
<1>5. ASSUME NEW i \in due
      PROVE  /\ moved(i) \in Entry /\ moved(i).id = entries[i].id
             /\ moved(i).prev = entries[i].next /\ InTime(moved(i), clock)
  <2> DEFINE n == NextTime(entries[i].sched, timerC)
             m == [entries[i] EXCEPT !.prev = entries[i].next, !.next = n]
  <2>1. entries[i] \in Entry /\ entries[i].sched \in Schedules
    BY <1>3, Typed DEF CronInv
  <2>2. n \in Nat /\ (n # Zero => n \in entries[i].sched /\ n > timerC)
    BY <1>2, <2>1, NextTimeLater
  <2> HIDE DEF n
  <2>3. /\ m \in Entry /\ m.id = entries[i].id /\ m.prev = entries[i].next /\ m.next = n
        /\ m.sched = entries[i].sched
    BY <1>3, <2>1, <2>2 DEF Entry
  <2> HIDE DEF m
  <2>4. InTime(m, clock)
    BY <1>2, <1>3, <2>2, <2>3 DEF InTime
  <2> QED
    BY <2>3, <2>4 DEF m, n
<1> HIDE DEF due, moved
<1>6. ASSUME NEW i \in DOMAIN entries
      PROVE  /\ entries'[i] \in Entry /\ entries'[i].id = entries[i].id
             /\ InTime(entries'[i], clock) /\ entries'[i].prev >= entries[i].prev
             /\ i \in due => entries'[i].prev = entries[i].next
  <2>1. entries[i] \in Entry /\ entries[i].prev \in Nat
    BY Typed DEF CronInv
  <2>2. CASE i \in due
    <3>1. entries'[i] = moved(i)
      BY <1>1, <2>2
    <3> QED
      BY <1>3, <1>5, <2>2, <3>1
  <2>3. CASE i \notin due
    <3>1. entries'[i] = entries[i]
      BY <1>1, <2>3
    <3> QED
      BY <1>2, <2>1, <2>3, <3>1
  <2> QED
    BY <2>2, <2>3
<1>7. DOMAIN entries' = DOMAIN entries /\ entries' \in Seq(Entry)
  <2>1. DOMAIN entries' = 1 .. Len(entries) /\ entries' = [i \in 1 .. Len(entries) |-> entries'[i]]
    BY <1>1, <1>2
  <2> QED
    BY <1>2, <1>6, <2>1
<1>8. \A v \in started : \E i \in due : v = inv(i)
  OBVIOUS
<1>9. IsFiniteSet(started)
  <2>1. \A n \in Nat : IsFiniteSet(1 .. n)
    BY FS_Interval
  <2>2. due \subseteq 1 .. Len(entries)
    BY <1>2, <1>3
  <2>3. IsFiniteSet(due)
    BY <1>2, <2>1, <2>2, FS_Subset
  <2> DEFINE f == [i \in due |-> inv(i)]
  <2>4. f \in Surjection(due, started)
    BY DEF Surjection
  <2> HIDE DEF f, started
  <2> QED
    BY <2>3, <2>4, FS_Surjection
<1> HIDE DEF inv, started
<1>10. ASSUME NEW id \in Nat, NEW at \in Nat, Behind(id, at), NEW v \in started
       PROVE  ~(v.id = id /\ v.at = at)
  <2>1. PICK i \in due : v = inv(i)
    BY <1>8
  <2>2. entries[i].id = id => at <= entries[i].prev
    BY <1>3, <1>10 DEF Behind
  <2> QED
    BY <1>3, <1>4, <2>1, <2>2
<1>11. ASSUME NEW id \in Nat, NEW at \in Nat, Behind(id, at)
       PROVE  Behind(id, at)'
  <2>1. ASSUME NEW i \in DOMAIN entries, entries[i].id = id PROVE at <= entries'[i].prev
    <3>1. at <= entries[i].prev /\ entries[i].prev \in Nat /\ entries'[i].prev >= entries[i].prev
      BY <1>6, <1>11, <2>1, Typed DEF Behind, CronInv
    <3>2. entries'[i].prev \in Nat
      BY <1>6 DEF Entry
    <3> QED
      BY <3>1, <3>2
  <2> QED
    BY <1>1, <1>6, <1>7, <1>11, <2>1 DEF Behind
<1>12. ASSUME NEW v \in started PROVE Behind(v.id, v.at)'
  <2>1. PICK i \in due : v = inv(i)
    BY <1>8
  <2>2. v.id = entries[i].id /\ v.at = entries[i].next /\ i \in DOMAIN entries
    BY <1>3, <1>4, <2>1
  <2>3. /\ entries[i].id \in 1 .. nextID
        /\ req.op = "add" => req.entry.id # entries[i].id
        /\ \A j \in DOMAIN entries : entries[j].id = entries[i].id => j = i
    BY <2>2 DEF CronInv, Ids
  <2>4. entries'[i].prev = entries[i].next /\ entries[i].next \in Nat
    BY <1>3, <1>6, <2>2
  <2> QED
    BY <1>1, <1>6, <1>7, <2>2, <2>3, <2>4 DEF Behind
<1>13. \A v \in started : v \in Invocation /\ v.layer = 1
  BY <1>4, <1>8
<1>14. invs \cap started = {}
  <2> SUFFICES ASSUME NEW v \in invs, v \in started PROVE FALSE
    OBVIOUS
  <2>1. v.id \in Nat /\ v.at \in Nat /\ Behind(v.id, v.at)
    BY Typed DEF CronInv, Activations
  <2> QED
    BY <1>10, <2>1
<1>15. Counted'
  <2>1. IsFiniteSet(invs) /\ wg = Cardinality(invs)
    BY DEF CronInv, Counted
  <2>2. Cardinality({}) = 0
    BY FS_EmptySet
  <2>3. Cardinality(invs) \in Nat /\ Cardinality(started) \in Nat
    BY <1>9, <2>1, FS_CardinalityType
  <2>4. /\ IsFiniteSet(invs \cup started)
        /\ Cardinality(invs \cup started) = Cardinality(invs) + Cardinality(started) - Cardinality({})
    BY <1>9, <1>14, <2>1, FS_Union
  <2>5. IsFiniteSet(invs') /\ wg' = Cardinality(invs')
    BY <1>1, <2>1, <2>2, <2>3, <2>4
  <2>6. ASSUME NEW v \in invs', NEW w \in invs', v.id = w.id, v.at = w.at
        PROVE  v = w
    <3>1. ASSUME NEW x \in invs, NEW y \in started PROVE ~(x.id = y.id /\ x.at = y.at)
      <4>1. x.id \in Nat /\ x.at \in Nat /\ Behind(x.id, x.at)
        BY Typed DEF CronInv, Activations
      <4> QED
        BY <1>10, <4>1
    <3>2. CASE v \in started /\ w \in started
      <4>1. PICK i \in due : v = inv(i)
        BY <1>8, <3>2
      <4>2. PICK j \in due : w = inv(j)
        BY <1>8, <3>2
      <4>3. entries[i].id = entries[j].id /\ i \in DOMAIN entries /\ j \in DOMAIN entries
        BY <1>3, <1>4, <2>6, <4>1, <4>2
      <4>4. i = j
        BY <4>3 DEF CronInv, Ids
      <4> QED
        BY <4>1, <4>2, <4>4
    <3>3. CASE v \in invs /\ w \in invs
      BY <2>6, <3>3 DEF CronInv, Counted
    <3> QED
      BY <1>1, <2>6, <3>1, <3>2, <3>3
  <2> QED
    BY <2>5, <2>6 DEF Counted
<1>16. TypeOK'
  <2>1. wg' \in Nat
    <3>1. IsFiniteSet(invs') /\ wg' = Cardinality(invs')
      BY <1>15 DEF Counted
    <3> QED
      BY <3>1, FS_CardinalityType
  <2>2. invs' \subseteq Invocation
    BY <1>1, <1>2, <1>13 DEF TypeOK
  <2>3. "loop" \in SchedSteps /\ Never \in Nat /\ Zero \in Nat
    BY CronAssumption DEF SchedSteps, Never, Zero
  <2> QED
    BY <1>1, <1>2, <1>7, <2>1, <2>2, <2>3 DEF TypeOK
<1>17. Ids'
  <2>1. \A i \in DOMAIN entries' : i \in DOMAIN entries /\ entries'[i].id = entries[i].id
    BY <1>6, <1>7
  <2> QED
    BY <1>1, <1>7, <2>1 DEF CronInv, Ids
<1>18. Times'
  <2>1. Zero <= clock
    BY <1>2 DEF Zero
  <2> QED
    BY <1>1, <1>2, <1>6, <1>7, <2>1 DEF Times
<1>19. Activations'
  <2>1. ASSUME NEW v \in invs' PROVE Behind(v.id, v.at)'
    <3>1. CASE v \in invs
      <4>1. v.id \in Nat /\ v.at \in Nat /\ Behind(v.id, v.at)
        BY <3>1, Typed DEF CronInv, Activations
      <4> QED
        BY <1>11, <4>1
    <3> QED
      BY <1>1, <1>12, <3>1
  <2>2. ASSUME NEW j \in DOMAIN waits', NEW o \in waits'[j].owed PROVE Behind(o.id, o.at)'
    <3>1. j \in DOMAIN waits /\ o \in waits[j].owed
      BY <1>1
    <3>2. o.id \in Nat /\ o.at \in Nat /\ Behind(o.id, o.at)
      BY <3>1, Typed DEF CronInv, Activations
    <3> QED
      BY <1>11, <3>2
  <2> QED
    BY <2>1, <2>2 DEF Activations
<1>20. Layers'
  <2>1. \A k \in DOMAIN chain : k \in Nat /\ k >= 1
    BY Typed DEF CronInv
  <2>2. \A v \in started, k \in DOMAIN chain : v.layer <= Len(chain) + 1 /\ ~(v.layer > k) /\ v.layer <= k
    BY <1>2, <1>13, <2>1
  <2> QED
    BY <1>1, <2>2, <1>13, <1>2 DEF CronInv, Layers
<1>21. ContextMeansFinished'
  <2> SUFFICES ASSUME NEW j \in DOMAIN waits', waits'[j].state = "done", NEW v \in invs',
                      [id |-> v.id, at |-> v.at] \in waits'[j].owed
               PROVE  FALSE
    BY DEF ContextMeansFinished
  <2> DEFINE o == [id |-> v.id, at |-> v.at]
  <2>1. j \in DOMAIN waits /\ waits[j].state = "done" /\ o \in waits[j].owed
    BY <1>1
  <2>2. o.id = v.id /\ o.at = v.at
    OBVIOUS
  <2> HIDE DEF o
  <2>3. v \notin invs
    BY <2>1 DEF CronInv, ContextMeansFinished, o
  <2>4. v \in started
    BY <1>1, <2>3
  <2>5. o.id \in Nat /\ o.at \in Nat /\ Behind(o.id, o.at)
    BY <2>1, Typed DEF CronInv, Activations
  <2> QED
    BY <1>10, <2>2, <2>4, <2>5
<1> QED
  BY <1>15, <1>16, <1>17, <1>18, <1>19, <1>20, <1>21 DEF CronInv
(* One wrapper further in: nobody overtakes in a delay or a skip wrapper.  *)
LEMMA EnterPreserves ==
    ASSUME CronInv, NEW v \in invs, EnterWrapper(v)
    PROVE  CronInv'
<1> USE DEF run, jobs, caller
<1> DEFINE u == [v EXCEPT !.layer = v.layer + 1]
<1>1. /\ v.layer # Len(chain) + 1 /\ invs' = (invs \ {v}) \cup {u}
      /\ \/ chain[v.layer] = "recover" /\ UNCHANGED tokens
         \/ chain[v.layer] = "delay" /\ MutexFree(v) /\ UNCHANGED tokens
         \/ chain[v.layer] = "skip" /\ v.layer \in tokens /\ tokens' = tokens \ {v.layer}
      /\ UNCHANGED <<clock, chain, running, nextID, entries, sched, now, fireAt, timerC, req, calls,
                     wg, waits, removed>>
  BY DEF EnterWrapper, InJob, Deeper
<1>2. /\ TypeOK /\ v \in Invocation /\ v.layer \in Nat \ {0} /\ Len(chain) \in Nat
      /\ DOMAIN chain = 1 .. Len(chain) /\ v.layer <= Len(chain) + 1
      /\ \A w \in invs : w.layer \in Nat \ {0}
  BY Typed DEF CronInv, Layers
<1>3. u \in Invocation /\ u.id = v.id /\ u.at = v.at /\ u.layer = v.layer + 1
  <2>1. v.layer + 1 \in Nat \ {0}
    BY <1>2
  <2> QED
    BY <1>2, <2>1 DEF Invocation
<1> HIDE DEF u
<1>4. u \notin invs /\ u # v
  <2>1. u # v
    BY <1>2, <1>3
  <2>2. u \in invs => u = v
    BY <1>3 DEF CronInv, Counted
  <2> QED
    BY <2>1, <2>2
<1>5. TypeOK'
  BY <1>1, <1>2, <1>3 DEF TypeOK
<1>6. Ids' /\ Times'
  BY <1>1 DEF CronInv, Ids, Times
<1>7. Activations'
  <2>1. ASSUME NEW id, NEW at, Behind(id, at) PROVE Behind(id, at)'
    BY <1>1, <2>1 DEF Behind
  <2>2. ASSUME NEW w \in invs' PROVE Behind(w.id, w.at)'
    <3>1. PICK x \in invs : w.id = x.id /\ w.at = x.at
      BY <1>1, <1>3
    <3> QED
      BY <2>1, <3>1 DEF CronInv, Activations
  <2>3. ASSUME NEW j \in DOMAIN waits', NEW o \in waits'[j].owed PROVE Behind(o.id, o.at)'
    BY <1>1, <2>1 DEF CronInv, Activations
  <2> QED
    BY <2>2, <2>3 DEF Activations
<1>8. Counted'
  <2>1. IsFiniteSet(invs) /\ wg = Cardinality(invs)
    BY DEF CronInv, Counted
  <2>2. IsFiniteSet(invs \ {v}) /\ Cardinality(invs \ {v}) = Cardinality(invs) - 1
    BY <2>1, FS_RemoveElement
  <2>3. u \notin invs \ {v}
    BY <1>4
  <2>4. IsFiniteSet(invs') /\ Cardinality(invs') = Cardinality(invs \ {v}) + 1
    BY <1>1, <2>2, <2>3, FS_AddElement
  <2>5. Cardinality(invs) \in Nat
    BY <2>1, FS_CardinalityType
  <2>6. IsFiniteSet(invs') /\ wg' = Cardinality(invs')
    BY <1>1, <2>1, <2>2, <2>4, <2>5
  <2>7. \A x, y \in invs' : x.id = y.id /\ x.at = y.at => x = y
    BY <1>1, <1>3 DEF CronInv, Counted
  <2> QED
    BY <2>6, <2>7 DEF Counted
<1>9. Layers'
  <2>1. \A w \in invs' : w.layer <= Len(chain') + 1
    BY <1>1, <1>2, <1>3 DEF CronInv, Layers
  <2> SUFFICES ASSUME NEW k \in DOMAIN chain, NEW x \in invs', NEW y \in invs'
               PROVE  /\ chain[k] = "delay" /\ x.id = y.id /\ x.layer > k /\ y.layer > k => x = y
                      /\ chain[k] = "skip" /\ x.layer > k /\ y.layer > k => x = y
                      /\ chain[k] = "skip" /\ k \in tokens' => x.layer <= k
    BY <1>1, <2>1 DEF Layers
  <2>2. k \in Nat
    BY <1>2
  <2>3. ASSUME NEW w \in invs, w # v
        PROVE  /\ chain[k] = "delay" /\ w.id = v.id => ~(w.layer > k /\ u.layer > k)
               /\ chain[k] = "skip" => ~(w.layer > k /\ u.layer > k)
    <3>1. CASE v.layer > k
      BY <2>3, <3>1 DEF CronInv, Layers
    <3>2. CASE v.layer = k
      <4>1. chain[k] = "delay" /\ w.id = v.id => w.layer <= k
        BY <1>1, <3>2 DEF MutexFree
      <4>2. chain[k] = "skip" => w.layer <= k
        BY <1>1, <3>2 DEF CronInv, Layers
      <4> QED
        BY <1>2, <2>2, <4>1, <4>2
    <3>3. CASE v.layer < k
      BY <1>2, <1>3, <2>2, <3>3
    <3> QED
      BY <1>2, <2>2, <3>1, <3>2, <3>3
  <2>4. ASSUME NEW w \in invs', chain[k] = "skip", k \in tokens'
        PROVE  w.layer <= k
    <3>1. k \in tokens /\ k # v.layer
      BY <1>1, <2>4
    <3>2. \A z \in invs : z.layer <= k
      BY <2>4, <3>1 DEF CronInv, Layers
    <3>3. v.layer < k
      BY <1>2, <2>2, <3>1, <3>2
    <3> QED
      BY <1>1, <1>2, <1>3, <2>2, <3>2, <3>3
  <2>5. CASE x \in invs /\ y \in invs
    BY <2>4, <2>5 DEF CronInv, Layers
  <2>6. CASE x = u /\ y = u
    BY <2>4, <2>6
  <2>7. CASE x = u /\ y \in invs /\ y # v
    BY <1>3, <2>3, <2>4, <2>7
  <2>8. CASE y = u /\ x \in invs /\ x # v
    BY <1>3, <2>3, <2>4, <2>8
  <2> QED
    BY <1>1, <2>5, <2>6, <2>7, <2>8
<1>10. ContextMeansFinished'
  <2>1. ASSUME NEW w \in invs' PROVE \E x \in invs : w.id = x.id /\ w.at = x.at
    BY <1>1, <1>3
  <2> QED
    BY <1>1, <2>1 DEF CronInv, ContextMeansFinished
<1> QED
  BY <1>5, <1>6, <1>7, <1>8, <1>9, <1>10 DEF CronInv

(* A goroutine of startJob ends, after its job or without: its wrappers    *)
(* let the next one in, and the last one releases who waits.               *)
LEMMA LeavePreserves ==
    ASSUME CronInv, NEW v \in invs, NEW panics \in BOOLEAN, Leave(v, panics)
    PROVE  CronInv'
<1> USE DEF run, jobs, caller
<1>1. /\ invs' = invs \ {v} /\ wg' = wg - 1 /\ tokens' = tokens \cup Refilled(v, panics)
      /\ waits' = [i \in DOMAIN waits |->
                     IF wg = 1 /\ waits[i].state = "blocked"
                     THEN [waits[i] EXCEPT !.state = "done"] ELSE waits[i]]
      /\ UNCHANGED <<clock, chain, running, nextID, entries, sched, now, fireAt, timerC, req, calls, removed>>
  BY DEF Leave, Done
<1>2. /\ TypeOK /\ v.layer \in Nat \ {0} /\ Len(chain) \in Nat
      /\ DOMAIN chain = 1 .. Len(chain) /\ v.layer <= Len(chain) + 1
      /\ Len(waits) \in Nat /\ DOMAIN waits = 1 .. Len(waits)
  BY Typed DEF CronInv, Layers
<1>3. Refilled(v, panics) \subseteq DOMAIN chain /\ \A k \in Refilled(v, panics) : chain[k] = "skip" /\ v.layer > k
  BY <1>2 DEF Refilled
<1>4. Counted'
  <2>1. IsFiniteSet(invs) /\ wg = Cardinality(invs)
    BY DEF CronInv, Counted
  <2>2. IsFiniteSet(invs') /\ Cardinality(invs') = Cardinality(invs) - 1
    BY <1>1, <2>1, FS_RemoveElement
  <2> QED
    BY <1>1, <2>1, <2>2 DEF CronInv, Counted
<1>5. IsFiniteSet(invs') /\ wg' = Cardinality(invs') /\ wg' \in Nat
  <2>1. IsFiniteSet(invs') /\ wg' = Cardinality(invs')
    BY <1>4 DEF Counted
  <2> QED
    BY <2>1, FS_CardinalityType
<1>6. ASSUME NEW i \in DOMAIN waits
      PROVE  /\ waits'[i] \in Wait /\ waits'[i].owed = waits[i].owed
             /\ waits'[i].state = "done" => waits[i].state = "done" \/ wg = 1
  <2>1. waits[i] \in Wait
    BY <1>2, Typed
  <2>2. CASE wg = 1 /\ waits[i].state = "blocked"
    <3>1. waits'[i] = [waits[i] EXCEPT !.state = "done"] /\ "done" \in WaitStates
      BY <1>1, <2>2 DEF WaitStates
    <3> QED
      BY <2>1, <2>2, <3>1 DEF Wait
  <2>3. CASE ~(wg = 1 /\ waits[i].state = "blocked")
    <3>1. waits'[i] = waits[i]
      BY <1>1, <2>3
    <3> QED
      BY <2>1, <3>1
  <2> QED
    BY <2>2, <2>3
<1>7. DOMAIN waits' = DOMAIN waits /\ waits' \in Seq(Wait)
  <2>1. DOMAIN waits' = 1 .. Len(waits) /\ waits' = [i \in 1 .. Len(waits) |-> waits'[i]]
    BY <1>1, <1>2
  <2> QED
    BY <1>2, <1>6, <2>1
<1>8. TypeOK'
  BY <1>1, <1>2, <1>3, <1>5, <1>7 DEF TypeOK
<1>9. Ids' /\ Times'
  BY <1>1 DEF CronInv, Ids, Times
<1>10. Activations'
  <2>1. ASSUME NEW id, NEW at, Behind(id, at) PROVE Behind(id, at)'
    BY <1>1, <2>1 DEF Behind
  <2>2. ASSUME NEW w \in invs' PROVE Behind(w.id, w.at)'
    BY <1>1, <2>1 DEF CronInv, Activations
  <2>3. ASSUME NEW j \in DOMAIN waits', NEW o \in waits'[j].owed PROVE Behind(o.id, o.at)'
    <3>1. j \in DOMAIN waits /\ o \in waits[j].owed
      BY <1>6, <1>7
    <3> QED
      BY <2>1, <3>1 DEF CronInv, Activations
  <2> QED
    BY <2>2, <2>3 DEF Activations
<1>11. Layers'
  <2>1. ASSUME NEW k \in DOMAIN chain, chain[k] = "skip", k \in tokens', NEW w \in invs'
        PROVE  w.layer <= k
    <3>1. w \in invs /\ w # v /\ k \in Nat /\ w.layer \in Nat
      BY <1>1, <1>2, Typed DEF CronInv
    <3>2. CASE k \in tokens
      BY <2>1, <3>1, <3>2 DEF CronInv, Layers
    <3>3. CASE k \in Refilled(v, panics)
      <4>1. ~(w.layer > k)
        BY <1>3, <2>1, <3>1, <3>3 DEF CronInv, Layers
      <4> QED
        BY <3>1, <4>1
    <3> QED
      BY <1>1, <2>1, <3>2, <3>3
  <2> QED
    BY <1>1, <2>1 DEF CronInv, Layers
<1>12. ContextMeansFinished'
  <2>1. wg = 1 => invs' = {}
    BY <1>1, <1>5, FS_EmptySet
  <2> QED
    BY <1>1, <1>6, <1>7, <2>1 DEF CronInv, ContextMeansFinished
<1> QED
  BY <1>4, <1>8, <1>9, <1>10, <1>11, <1>12 DEF CronInv
-----------------------------------------------------------------------------
(* The invariant holds at the start.                                       *)
LEMMA CronInit == Init => CronInv
<1> SUFFICES ASSUME Init PROVE CronInv
  OBVIOUS
<1>1. /\ Len(Tasks) \in Nat /\ DOMAIN Tasks = 1 .. Len(Tasks)
      /\ \A i \in 1 .. Len(Tasks) : Tasks[i] \in Schedules
  BY CronAssumption
<1>2. /\ DOMAIN entries = 1 .. Len(Tasks) /\ nextID = Len(Tasks)
      /\ entries = [i \in 1 .. Len(Tasks) |-> NewEntry(i, Tasks[i])]
  BY DEF Init
<1>3. ASSUME NEW i \in 1 .. Len(Tasks)
      PROVE  /\ entries[i] \in Entry /\ entries[i].id = i
             /\ entries[i].next = Zero /\ entries[i].prev = Zero
  BY <1>1, <1>2, NewEntryType
<1>4. entries \in Seq(Entry)
  <2>1. entries = [i \in 1 .. Len(Tasks) |-> entries[i]]
    BY <1>2
  <2> QED
    BY <1>1, <1>3, <2>1
<1>5. TypeOK
  <2>1. "off" \in SchedSteps /\ Never \in Nat /\ Zero \in Nat /\ 1 \in 1 .. MaxClock /\ 0 \in 0 .. MaxCalls
    BY CronAssumption DEF SchedSteps, Never, Zero
  <2>2. <<>> \in Seq(Wait)
    OBVIOUS
  <2>3. tokens \subseteq DOMAIN chain /\ chain \in Chains
    BY DEF Init
  <2>4. req \in Requests
    BY RequestTypes DEF Init
  <2> QED
    BY <1>1, <1>4, <2>1, <2>2, <2>3, <2>4 DEF Init, TypeOK
<1>6. Ids
  <2>1. req.op = "none" /\ removed = {}
    BY RequestTypes DEF Init
  <2>2. \A i \in DOMAIN entries : entries[i].id = i /\ i \in 1 .. nextID
    BY <1>2, <1>3
  <2> QED
    BY <2>1, <2>2 DEF Ids
<1>7. Times
  <2>1. timerC = Zero /\ clock = 1 /\ running = FALSE /\ sched = "off"
    BY DEF Init
  <2>2. \A i \in DOMAIN entries : InTime(entries[i], clock)
    BY <1>2, <1>3, <2>1 DEF InTime, Zero
  <2> QED
    BY <2>1, <2>2 DEF Times, Zero
<1>8. Counted
  <2>1. invs = {} /\ wg = 0
    BY DEF Init
  <2> QED
    BY <2>1, FS_EmptySet DEF Counted
<1>9. Activations /\ Layers /\ ContextMeansFinished
  <2>1. invs = {} /\ waits = <<>>
    BY DEF Init
  <2>2. DOMAIN waits = {}
    BY <2>1
  <2> QED
    BY <2>1, <2>2 DEF Activations, Layers, ContextMeansFinished
<1> QED
  BY <1>5, <1>6, <1>7, <1>8, <1>9 DEF CronInv

(* Every step preserves the invariant.                                     *)
LEMMA CronStep ==
    ASSUME CronInv, [Next]_vars
    PROVE  CronInv'
<1>1. CASE Tick \/ (\E s \in Schedules : Schedule(s)) \/ (\E id \in 1 .. nextID : Remove(id))
           \/ Start \/ Entries
  BY <1>1, CallsPreserve
<1>2. CASE Stop \/ RunStop
  BY <1>2, StopPreserves
<1>3. CASE RunInit \/ RunLoop \/ TimerFires \/ RunAdd \/ RunSnapshot \/ RunRemove
  BY <1>3, RunPreserves
<1>4. CASE Wake
  BY <1>4, WakePreserves
<1>5. ASSUME NEW v \in invs, EnterWrapper(v) \/ Skip(v) \/ JobReturns(v) \/ JobPanics(v)
      PROVE  CronInv'
  BY <1>5, EnterPreserves, LeavePreserves DEF Skip, JobReturns, JobPanics
<1>6. ASSUME NEW i \in DOMAIN waits, WaitJobs(i)
      PROVE  CronInv'
  BY <1>6, WaitPreserves
<1>7. CASE UNCHANGED vars
  <2>1. UNCHANGED <<clock, chain, running, nextID, entries, sched, now, fireAt, timerC,
                    req, invs, tokens, wg, waits, calls, removed>>
    BY <1>7 DEF vars
  <2>2. TypeOK'
    BY <2>1 DEF CronInv, TypeOK
  <2>3. Ids' /\ Times'
    BY <2>1 DEF CronInv, Ids, Times
  <2>4. \A id, at \in Nat : Behind(id, at) => Behind(id, at)'
    BY <2>1 DEF Behind
  <2> QED
    BY <2>1, <2>2, <2>3, <2>4, JobsFrame DEF jobs
<1> QED
  BY <1>1, <1>2, <1>3, <1>4, <1>5, <1>6, <1>7 DEF Next, Scheduler, JobSteps

(* The invariant holds always.                                             *)
LEMMA CronInvariance == Spec => []CronInv
  BY CronInit, CronStep, PTL DEF Spec

(* The types of the scheduler, for any schedules, tasks and chains.        *)
THEOREM TypeCorrect == Spec => []TypeOK
<1>1. CronInv => TypeOK
  BY DEF CronInv
<1> QED
  BY <1>1, CronInvariance, PTL

(* With a delay or a skip wrapper anywhere in the chain, no two            *)
(* invocations of a job are in it at once (DelayIfStillRunning,            *)
(* SkipIfStillRunning), whatever panics and however late the timers are.   *)
THEOREM JobsDoNotOverlap == Spec => []NoOverlap
<1>1. ASSUME CronInv PROVE NoOverlap
  <2> SUFFICES ASSUME NEW k \in DOMAIN chain, chain[k] \in {"delay", "skip"},
                      NEW v \in invs, NEW w \in invs, v.id = w.id, InJob(v), InJob(w)
               PROVE  v = w
    BY DEF NoOverlap
  <2>1. Len(chain) \in Nat /\ DOMAIN chain = 1 .. Len(chain)
    BY <1>1, Typed DEF CronInv
  <2>2. v.layer > k /\ w.layer > k
    BY <2>1 DEF InJob
  <2> QED
    BY <1>1, <2>2 DEF CronInv, Layers
<1> QED
  BY <1>1, CronInvariance, PTL

(* The context that Stop returns is done only when every job that was      *)
(* running at Stop has ended: jobWaiter counts them all, and none of them  *)
(* is started a second time.                                               *)
THEOREM ContextTruthful == Spec => []ContextMeansFinished
<1>1. CronInv => ContextMeansFinished
  BY DEF CronInv
<1> QED
  BY <1>1, CronInvariance, PTL

(* Only the timer starts jobs, and only those that are due.                *)
LEMMA OnlyTimerStarts ==
    ASSUME CronInv, [Next]_vars, NEW v \in Started
    PROVE  Wake
<1> USE DEF run, jobs, caller
<1>1. v \in invs' /\ v \notin invs /\ v.layer = 1
  BY DEF Started
<1>2. CASE UNCHANGED invs
  BY <1>1, <1>2
<1>3. ASSUME NEW x \in invs, EnterWrapper(x)
      PROVE  FALSE
  <2> DEFINE u == [x EXCEPT !.layer = x.layer + 1]
  <2>1. invs' = (invs \ {x}) \cup {u}
    BY <1>3 DEF EnterWrapper, Deeper
  <2>2. x \in Invocation /\ x.layer \in Nat \ {0}
    BY Typed DEF CronInv
  <2>3. u.layer = x.layer + 1
    BY <2>2 DEF Invocation
  <2>4. v = u
    BY <1>1, <2>1
  <2> QED
    BY <1>1, <2>2, <2>3, <2>4
<1>4. ASSUME NEW x \in invs, Skip(x) \/ JobReturns(x) \/ JobPanics(x)
      PROVE  FALSE
  BY <1>1, <1>4 DEF Skip, JobReturns, JobPanics, Leave, Done
<1>5. CASE Tick \/ (\E s \in Schedules : Schedule(s)) \/ (\E id \in 1 .. nextID : Remove(id))
           \/ Start \/ Entries \/ Stop
  BY <1>2, <1>5 DEF Tick, Schedule, Remove, Start, Entries, Stop
<1>6. CASE RunInit \/ RunLoop \/ TimerFires \/ RunAdd \/ RunSnapshot \/ RunStop \/ RunRemove
  BY <1>2, <1>6 DEF RunInit, RunLoop, TimerFires, RunAdd, RunSnapshot, RunStop, RunRemove, Receive
<1>7. CASE \E i \in DOMAIN waits : WaitJobs(i)
  BY <1>2, <1>7 DEF WaitJobs
<1>8. CASE UNCHANGED vars
  BY <1>2, <1>8 DEF vars
<1> QED
  BY <1>3, <1>4, <1>5, <1>6, <1>7, <1>8 DEF Next, Scheduler, JobSteps

(* A job is started only while the scheduler runs, never after its Remove  *)
(* has returned, not before its time, and once for each activation of its  *)
(* schedule (run, startJob, removeEntry).                                  *)
THEOREM StartsAreJustified == Spec => StartsJustified
<1> DEFINE Justified(v) ==
              /\ running
              /\ v.id \notin removed
              /\ v.at <= clock
              /\ \A i \in DOMAIN entries : entries[i].id = v.id =>
                   v.at \in entries[i].sched /\ entries[i].prev < v.at
<1>1. ASSUME CronInv, [Next]_vars
      PROVE  [\A v \in Started : Justified(v)]_vars
  <2> SUFFICES ASSUME NEW v \in Started PROVE Justified(v)
    OBVIOUS
  <2>1. Wake
    BY <1>1, OnlyTimerStarts
  <2>2. PICK i \in DuePrefix(entries, timerC) :
          v = [id |-> entries[i].id, at |-> entries[i].next, layer |-> 1]
    BY <2>1 DEF Wake, startJob, Started
  <2>3. v.id = entries[i].id /\ v.at = entries[i].next
    BY <2>2
  <2>4. /\ i \in DOMAIN entries /\ entries[i].next <= clock
        /\ entries[i].next \in entries[i].sched /\ entries[i].next > entries[i].prev
    BY <1>1, <2>2, DueIsJustified
  <2>5. running
    BY <1>1, <2>1 DEF CronInv, Times, Wake
  <2>6. /\ entries[i].id \notin removed
        /\ \A j \in DOMAIN entries : entries[j].id = entries[i].id => j = i
    BY <1>1, <2>4 DEF CronInv, Ids
  <2>7. entries[i].prev \in Nat /\ entries[i].next \in Nat
    BY <1>1, <2>4, Typed DEF CronInv
  <2> QED
    BY <2>3, <2>4, <2>5, <2>6, <2>7
<1> QED
  BY <1>1, CronInvariance, PTL DEF Spec, StartsJustified

-----------------------------------------------------------------------------
(* The walk of SpecSchedule.Next.                                          *)

(* A set that has 0 and, with k, k + 1 as far as n, has all of 0 .. n: the *)
(* induction that the lemmas about the calendar need.                      *)
LEMMA UpTo ==
    ASSUME NEW n \in Nat, NEW S, 0 \in S, \A k \in 0 .. n - 1 : k \in S => k + 1 \in S
    PROVE  \A k \in 0 .. n : k \in S
<1> DEFINE left == {k \in Nat : k <= n /\ k \notin S}
           R == OpToRel(<, Nat)
<1>1. SUFFICES ASSUME left # {} PROVE FALSE
  OBVIOUS
<1>2. \E x \in left : \A y \in left : ~(<<y, x>> \in R)
  BY <1>1, NatLessThanWellFounded, WFMin
<1>3. \A x, y \in Nat : <<y, x>> \in R <=> y < x
  BY DEF OpToRel
<1> HIDE DEF R
<1>4. PICK x \in left : \A y \in left : ~(<<y, x>> \in R)
  BY <1>2
<1>5. x \in Nat /\ x <= n /\ x \notin S /\ x # 0
  BY <1>4
<1>6. x - 1 \in Nat /\ x - 1 <= n - 1 /\ x - 1 \notin S
  BY <1>5
<1>7. <<x - 1, x>> \in R
  BY <1>3, <1>5, <1>6
<1> QED
  BY <1>4, <1>5, <1>6, <1>7


(* The months.                                                             *)
Months == Len(MonthDays)
YearDays == DaysBefore[Months + 1]

(* DaysBefore adds up the days of the months.                              *)
LEMMA DaysAddUp ==
    /\ Months \in Nat /\ Months > 0 /\ DOMAIN MonthDays = 1 .. Months
    /\ \A m \in 1 .. Months : MonthDays[m] \in Nat /\ MonthDays[m] > 0
    /\ DaysBefore[1] = 0
    /\ \A m \in 1 .. Months + 1 : DaysBefore[m] \in Nat
    /\ \A m \in 1 .. Months : DaysBefore[m + 1] = DaysBefore[m] + MonthDays[m]
<1> DEFINE n == Months
           Rec(f) == f = [m \in 1 .. n + 1 |-> IF m = 1 THEN 0 ELSE f[m - 1] + MonthDays[m - 1]]
           Sums(k, g) == /\ g \in [1 .. k + 1 -> Nat] /\ g[1] = 0
                         /\ \A m \in 1 .. k : g[m + 1] = g[m] + MonthDays[m]
           S == {k \in Nat : k <= n /\ \E g : Sums(k, g)}
<1>1. /\ n \in Nat /\ n > 0 /\ DOMAIN MonthDays = 1 .. n
      /\ \A m \in 1 .. n : MonthDays[m] \in Nat /\ MonthDays[m] > 0
  BY CalendarAssumption DEF Months
<1>2. DaysBefore = CHOOSE f : Rec(f)
  BY DEF DaysBefore, Months
<1> HIDE DEF n
<1>3. 0 \in S
  <2>1. Sums(0, [m \in 1 .. 0 + 1 |-> 0])
    OBVIOUS
  <2> HIDE DEF Sums
  <2> QED
    BY <1>1, <2>1
<1>4. ASSUME NEW k \in 0 .. n - 1, k \in S PROVE k + 1 \in S
  <2>1. PICK g : Sums(k, g)
    BY <1>4
  <2> DEFINE h == [m \in 1 .. (k + 1) + 1 |-> IF m = k + 2 THEN g[k + 1] + MonthDays[k + 1] ELSE g[m]]
  <2>2. k \in Nat /\ k + 1 \in 1 .. n /\ MonthDays[k + 1] \in Nat /\ g[k + 1] \in Nat
    BY <1>1, <2>1
  <2>3. h \in [1 .. (k + 1) + 1 -> Nat] /\ h[1] = 0
    BY <2>1, <2>2
  <2>4. ASSUME NEW m \in 1 .. k + 1 PROVE h[m + 1] = h[m] + MonthDays[m]
    <3>1. m \in 1 .. (k + 1) + 1 /\ m + 1 \in 1 .. (k + 1) + 1 /\ m # k + 2
      BY <2>2
    <3>2. h[m] = g[m]
      BY <3>1
    <3>3. CASE m = k + 1
      <4>1. h[m + 1] = g[k + 1] + MonthDays[k + 1]
        BY <2>2, <3>1, <3>3
      <4> QED
        BY <3>2, <3>3, <4>1
    <3>4. CASE m # k + 1
      <4>1. m \in 1 .. k /\ m + 1 # k + 2
        BY <2>2, <3>4
      <4>2. h[m + 1] = g[m + 1]
        BY <3>1, <4>1
      <4> QED
        BY <2>1, <3>2, <4>1, <4>2
    <3> QED
      BY <3>3, <3>4
  <2> HIDE DEF h
  <2>5. Sums(k + 1, h)
    BY <2>3, <2>4
  <2> HIDE DEF Sums
  <2> QED
    BY <1>1, <2>2, <2>5
<1>5. n \in S
  <2> HIDE DEF S
  <2>1. \A k \in 0 .. n : k \in S
    BY <1>1, <1>3, <1>4, UpTo
  <2> QED
    BY <1>1, <2>1
<1>6. PICK g : Sums(n, g)
  BY <1>5
<1>7. Rec(g)
  <2>1. ASSUME NEW m \in 1 .. n + 1 PROVE g[m] = IF m = 1 THEN 0 ELSE g[m - 1] + MonthDays[m - 1]
    <3>1. CASE m = 1
      BY <1>6, <3>1
    <3>2. CASE m # 1
      <4>1. m - 1 \in 1 .. n /\ (m - 1) + 1 = m
        BY <1>1, <3>2
      <4> QED
        BY <1>6, <3>2, <4>1
    <3> QED
      BY <3>1, <3>2
  <2> QED
    BY <1>1, <1>6, <2>1
<1>8. Rec(DaysBefore)
  BY <1>2, <1>7
<1> DEFINE f == DaysBefore
           T == {k \in Nat : k <= n /\ f[k + 1] = g[k + 1]}
<1> HIDE DEF f
<1>9. \A m \in 1 .. n + 1 : f[m] = IF m = 1 THEN 0 ELSE f[m - 1] + MonthDays[m - 1]
  BY <1>8 DEF f
<1>10. 0 \in T
  BY <1>1, <1>6, <1>9
<1>11. ASSUME NEW k \in 0 .. n - 1, k \in T PROVE k + 1 \in T
  <2>1. k + 1 \in 1 .. n /\ k + 2 \in 1 .. n + 1 /\ k + 2 # 1 /\ k + 2 - 1 = k + 1
    BY <1>1
  <2>2. f[k + 2] = f[k + 1] + MonthDays[k + 1] /\ g[(k + 1) + 1] = g[k + 1] + MonthDays[k + 1]
    BY <1>6, <1>9, <2>1
  <2> QED
    BY <1>1, <1>11, <2>1, <2>2
<1>12. \A k \in 0 .. n : k \in T
  <2> HIDE DEF T
  <2> QED
    BY <1>1, <1>10, <1>11, UpTo
<1>13. \A m \in 1 .. n + 1 : f[m] = g[m]
  <2>1. ASSUME NEW m \in 1 .. n + 1 PROVE f[m] = g[m]
    <3>1. m - 1 \in 0 .. n /\ (m - 1) + 1 = m
      BY <1>1
    <3>2. m - 1 \in T
      BY <1>12, <3>1
    <3> QED
      BY <3>1, <3>2
  <2> QED
    BY <2>1
<1>14. /\ f[1] = 0 /\ \A m \in 1 .. n + 1 : f[m] \in Nat
       /\ \A m \in 1 .. n : f[m + 1] = f[m] + MonthDays[m]
  BY <1>1, <1>6, <1>13
<1> QED
  BY <1>1, <1>14 DEF f, n

(* Quotient and remainder.                                                 *)
LEMMA Division ==
    ASSUME NEW t \in Int, NEW len \in Nat, len > 0
    PROVE  /\ t \div len \in Int /\ t % len \in Int /\ 0 <= t % len /\ t % len < len
           /\ t = (t \div len) * len + (t % len)
  OBVIOUS

(* There is only one of each.                                              *)
LEMMA DivisionUnique ==
    ASSUME NEW len \in Nat, len > 0, NEW q \in Int, NEW r \in Int, 0 <= r, r < len,
           NEW t \in Int, t = q * len + r
    PROVE  t \div len = q /\ t % len = r
<1> DEFINE a == t \div len
           b == t % len
<1>1. a \in Int /\ b \in Int /\ 0 <= b /\ b < len /\ t = a * len + b
  BY Division
<1> HIDE DEF a, b
<1>2. a = q
  <2>1. (a - q) * len = r - b /\ a * len \in Int /\ q * len \in Int
    BY <1>1
  <2>2. CASE a > q
    <3>1. (a - q) * len >= len
      BY <1>1, <2>2
    <3> QED
      BY <1>1, <2>1, <3>1
  <2>3. CASE a < q
    <3>1. (a - q) * len <= -len
      BY <1>1, <2>3
    <3> QED
      BY <1>1, <2>1, <3>1
  <2> QED
    BY <1>1, <2>2, <2>3
<1> QED
  BY <1>1, <1>2 DEF a, b

(* The same, for a number that is written so.                              *)
LEMMA QuotientOf ==
    ASSUME NEW len \in Nat, len > 0, NEW q \in Int, NEW r \in Int, 0 <= r, r < len
    PROVE  (q * len + r) \div len = q /\ (q * len + r) % len = r
<1>1. q * len + r \in Int
  OBVIOUS
<1> QED
  BY <1>1, DivisionUnique, Zenon

(* A unit of h smaller ones, each of length len.                           *)
LEMMA Nested ==
    ASSUME NEW t \in Int, NEW len \in Nat, len > 0, NEW h \in Nat, h > 0
    PROVE  /\ h * len \in Nat /\ h * len > 0 /\ h * len >= len
           /\ t \div (h * len) = (t \div len) \div h
           /\ (t % (h * len)) \div len = (t \div len) % h
           /\ t % (h * len) = ((t \div len) % h) * len + (t % len)
<1> DEFINE long == h * len
<1>1. long \in Nat /\ long > 0 /\ long >= len
  OBVIOUS
<1>2. PICK q, r : q = t \div len /\ r = t % len
  OBVIOUS
<1>3. q \in Int /\ r \in Int /\ 0 <= r /\ r < len /\ t = q * len + r
  BY <1>2, Division, Zenon
<1>4. PICK a, b : a = q \div h /\ b = q % h
  OBVIOUS
<1>5. a \in Int /\ b \in Int /\ 0 <= b /\ b < h /\ q = a * h + b
  BY <1>3, <1>4, Division, Zenon
<1>6. b * len + r \in Int /\ 0 <= b * len + r /\ b * len + r < long
  <2>1. b * len \in Int /\ 0 <= b * len /\ b * len <= (h - 1) * len
    BY <1>5
  <2>2. (h - 1) * len = long - len
    OBVIOUS
  <2> QED
    BY <1>1, <1>3, <2>1, <2>2
<1>7. t = a * long + (b * len + r)
  <2>1. q * len = (a * h) * len + b * len
    BY <1>5
  <2>2. (a * h) * len = a * long
    <3>1. (a * h) * len = a * (h * len)
      BY <1>5
    <3> QED
      BY <3>1
  <2>3. q * len \in Int /\ a * long \in Int /\ b * len \in Int
    BY <1>1, <1>3, <1>5
  <2>4. ASSUME NEW x \in Int, NEW y \in Int, NEW z \in Int, t = x + r, x = z + y
        PROVE  t = z + (y + r)
    BY <1>3, <2>4
  <2>5. t = q * len + r /\ q * len = a * long + b * len
    BY <1>3, <2>1, <2>2, Zenon
  <2> QED
    BY <2>3, <2>4, <2>5, Zenon
<1>8. t \div long = a /\ t % long = b * len + r
  BY <1>1, <1>5, <1>6, <1>7, DivisionUnique
<1>9. (b * len + r) \div len = b
  BY <1>3, <1>5, <1>6, DivisionUnique, Zenon
<1> QED
  BY <1>1, <1>2, <1>4, <1>8, <1>9

(* The end of the unit that t is in: until then the unit is the same.      *)
LEMMA UnitEnds ==
    ASSUME NEW t \in Int, NEW len \in Nat, len > 0
    PROVE  /\ t - (t % len) + len \in Int /\ t < t - (t % len) + len /\ (t - (t % len) + len) % len = 0
           /\ \A v \in Int : t <= v /\ v < t - (t % len) + len => v \div len = t \div len
<1>1. PICK q, r, u, z : q = t \div len /\ r = t % len /\ u = t - (t % len) + len /\ z = q * len
  OBVIOUS
<1>2. q \in Int /\ r \in Int /\ 0 <= r /\ r < len /\ t = q * len + r
  BY <1>1, Division, Zenon
<1>3. z \in Int /\ t = z + r
  BY <1>1, <1>2
<1>4. u = z + len /\ u \in Int /\ t < u
  BY <1>1, <1>2, <1>3
<1>5. u % len = 0
  <2>1. (q + 1) * len = q * len + len /\ q + 1 \in Int /\ 0 \in Int /\ 0 <= 0 /\ 0 < len
    BY <1>2
  <2>2. ((q + 1) * len + 0) % len = 0
    BY <2>1, QuotientOf, Zenon
  <2>3. (q + 1) * len + 0 = u
    BY <1>1, <1>3, <1>4, <2>1
  <2> QED
    BY <2>2, <2>3, Zenon
<1>6. ASSUME NEW v \in Int, t <= v, v < u
      PROVE  v \div len = q
  <2>1. v = z + (v - z) /\ v - z \in Int /\ 0 <= v - z /\ v - z < len
    BY <1>2, <1>3, <1>4, <1>6
  <2>2. (q * len + (v - z)) \div len = q
    BY <1>2, <2>1, QuotientOf, Zenon
  <2> QED
    BY <1>1, <2>1, <2>2, Zenon
<1> QED
  BY <1>1, <1>4, <1>5, <1>6, Zenon

(* The units of the calendar.                                              *)
LEMMA Lengths ==
    /\ MinuteLen \in Nat /\ MinuteLen > 0 /\ HourLen \in Nat /\ HourLen > 0 /\ DayLen \in Nat /\ DayLen > 0
    /\ Minutes \in Nat /\ Minutes > 0 /\ Hours \in Nat /\ Hours > 0 /\ Week \in Nat /\ Week > 0
    /\ Nanos \in Nat /\ Nanos > 0 /\ MinuteLen = Seconds
<1>1. /\ Seconds \in Nat /\ Seconds > 0 /\ Minutes \in Nat /\ Minutes > 0 /\ Hours \in Nat /\ Hours > 0
      /\ Week \in Nat /\ Week > 0 /\ Nanos \in Nat /\ Nanos > 0
  BY CalendarAssumption
<1>2. HourLen \in Nat /\ HourLen > 0
  BY <1>1 DEF HourLen, MinuteLen
<1>3. DayLen \in Nat /\ DayLen > 0
  BY <1>1, <1>2 DEF DayLen
<1> QED
  BY <1>1, <1>2, <1>3 DEF MinuteLen

(* Later months have more days before them.                                *)
LEMMA DaysGrow ==
    ASSUME NEW m \in 1 .. Months + 1, NEW k \in 1 .. Months + 1, m < k
    PROVE  DaysBefore[m] < DaysBefore[k]
<1> DEFINE n == Months + 1 - (m + 1)
           S == {j \in Nat : m + 1 + j <= Months + 1 => DaysBefore[m] < DaysBefore[m + 1 + j]}
<1>1. Months \in Nat /\ n \in Nat /\ m \in 1 .. Months
  BY DaysAddUp
<1>2. 0 \in S
  <2>1. /\ DaysBefore[m + 1] = DaysBefore[m] + MonthDays[m] /\ DaysBefore[m] \in Nat
        /\ MonthDays[m] \in Nat /\ MonthDays[m] > 0
    BY <1>1, DaysAddUp
  <2>2. m + 1 + 0 = m + 1 /\ 0 \in Nat
    BY <1>1
  <2> QED
    BY <2>1, <2>2
<1>3. ASSUME NEW j \in 0 .. n - 1, j \in S PROVE j + 1 \in S
  <2>1. /\ j \in Nat /\ m + 1 + j \in 1 .. Months /\ m + 1 + (j + 1) = (m + 1 + j) + 1
        /\ m + 1 + j <= Months + 1 /\ m + 1 + j \in 1 .. Months + 1
    BY <1>1
  <2>2. /\ DaysBefore[(m + 1 + j) + 1] = DaysBefore[m + 1 + j] + MonthDays[m + 1 + j]
        /\ DaysBefore[m + 1 + j] \in Nat /\ DaysBefore[m] \in Nat
        /\ MonthDays[m + 1 + j] \in Nat /\ MonthDays[m + 1 + j] > 0
    BY <2>1, DaysAddUp
  <2>3. DaysBefore[m] < DaysBefore[m + 1 + j]
    BY <1>3, <2>1
  <2>4. DaysBefore[m] < DaysBefore[(m + 1 + j) + 1]
    BY <2>2, <2>3
  <2> QED
    BY <2>1, <2>4
<1>4. k - (m + 1) \in 0 .. n /\ m + 1 + (k - (m + 1)) = k
  BY <1>1
<1>5. k - (m + 1) \in S
  <2> HIDE DEF S
  <2>1. \A j \in 0 .. n : j \in S
    <3> HIDE DEF n
    <3> QED
      BY <1>1, <1>2, <1>3, UpTo
  <2> QED
    BY <1>4, <2>1
<1> QED
  BY <1>4, <1>5

(* Every day of a year is in one month.                                    *)
LEMMA MonthExists ==
    ASSUME NEW d \in Nat, d < YearDays
    PROVE  \E m \in 1 .. Months : DaysBefore[m] <= d /\ d < DaysBefore[m + 1]
<1> DEFINE S == {k \in Nat : k <= Months /\ (d < DaysBefore[k + 1] =>
                   \E m \in 1 .. k : DaysBefore[m] <= d /\ d < DaysBefore[m + 1])}
<1>1. Months \in Nat /\ DaysBefore[1] = 0
  BY DaysAddUp
<1>2. 0 \in S
  BY <1>1
<1>3. ASSUME NEW k \in 0 .. Months - 1, k \in S PROVE k + 1 \in S
  <2>1. k \in Nat /\ k + 1 \in 1 .. Months + 1 /\ k + 1 <= Months
    BY <1>1
  <2>2. DaysBefore[k + 1] \in Nat
    BY <2>1, DaysAddUp
  <2>3. ASSUME d < DaysBefore[(k + 1) + 1]
        PROVE  \E m \in 1 .. k + 1 : DaysBefore[m] <= d /\ d < DaysBefore[m + 1]
    <3>1. CASE d < DaysBefore[k + 1]
      <4>1. PICK m \in 1 .. k : DaysBefore[m] <= d /\ d < DaysBefore[m + 1]
        BY <1>3, <3>1
      <4>2. m \in 1 .. k + 1
        BY <2>1
      <4> QED
        BY <4>1, <4>2
    <3>2. CASE ~(d < DaysBefore[k + 1])
      <4>1. DaysBefore[k + 1] <= d /\ k + 1 \in 1 .. k + 1
        BY <2>1, <2>2, <3>2
      <4> QED
        BY <2>3, <4>1
    <3> QED
      BY <3>1, <3>2
  <2> QED
    BY <2>1, <2>3
<1>4. Months \in S
  <2> HIDE DEF S
  <2>1. \A k \in 0 .. Months : k \in S
    BY <1>1, <1>2, <1>3, UpTo
  <2> QED
    BY <1>1, <2>1
<1> QED
  BY <1>4 DEF YearDays

(* The month that holds a day of the year is the only one.                 *)
LEMMA MonthUnique ==
    ASSUME NEW d \in Nat, NEW m \in 1 .. Months, NEW k \in 1 .. Months,
           DaysBefore[m] <= d, d < DaysBefore[m + 1], DaysBefore[k] <= d, d < DaysBefore[k + 1]
    PROVE  m = k
<1>1. ASSUME NEW i \in 1 .. Months, NEW j \in 1 .. Months, i < j, d < DaysBefore[i + 1], DaysBefore[j] <= d
      PROVE  FALSE
  <2>1. /\ i + 1 \in 1 .. Months + 1 /\ j \in 1 .. Months + 1 /\ (i + 1 = j \/ i + 1 < j)
        /\ DaysBefore[i + 1] \in Nat /\ DaysBefore[j] \in Nat
    BY <1>1, DaysAddUp
  <2>2. DaysBefore[i + 1] <= DaysBefore[j]
    BY <2>1, DaysGrow
  <2> QED
    BY <1>1, <2>1, <2>2
<1>2. m \in Int /\ k \in Int
  BY DaysAddUp
<1> QED
  BY <1>1, <1>2

(* The date of a time, from the number of its day.                         *)
LEMMA Dates ==
    ASSUME NEW t \in Int
    PROVE  /\ YearDays \in Nat /\ YearDays > 0 /\ t \div DayLen \in Int
           /\ Year(t) = (t \div DayLen) \div YearDays /\ Year(t) \in Int
           /\ DayOfYear(t) = (t \div DayLen) % YearDays
           /\ DayOfYear(t) \in Nat /\ DayOfYear(t) < YearDays
           /\ MonthOf(t) \in 1 .. Months
           /\ DaysBefore[MonthOf(t)] <= DayOfYear(t) /\ DayOfYear(t) < DaysBefore[MonthOf(t) + 1]
           /\ Day(t) \in 1 .. MonthDays[MonthOf(t)]
<1>1. YearDays \in Nat /\ YearDays > 0
  <2>1. Months \in Nat /\ 1 \in 1 .. Months + 1 /\ Months + 1 \in 1 .. Months + 1 /\ 1 < Months + 1
    BY DaysAddUp
  <2>2. DaysBefore[1] = 0 /\ DaysBefore[Months + 1] \in Nat
    BY <2>1, DaysAddUp
  <2>3. DaysBefore[1] < DaysBefore[Months + 1]
    BY <2>1, DaysGrow
  <2> QED
    BY <2>2, <2>3 DEF YearDays
<1>2. DayLen \in Nat /\ DayLen > 0
  BY Lengths
<1>3. YearLen = YearDays * DayLen
  BY DEF YearLen, YearDays, Months
<1>4. t \div DayLen \in Int
  BY <1>2, Division, Zenon
<1>5. Year(t) = (t \div DayLen) \div YearDays /\ DayOfYear(t) = (t \div DayLen) % YearDays
  <2>1. /\ t \div (YearDays * DayLen) = (t \div DayLen) \div YearDays
        /\ (t % (YearDays * DayLen)) \div DayLen = (t \div DayLen) % YearDays
    BY <1>1, <1>2, Nested, Zenon
  <2> QED
    BY <1>3, <2>1 DEF Year, DayOfYear
<1>6. Year(t) \in Int /\ DayOfYear(t) \in Nat /\ DayOfYear(t) < YearDays
  BY <1>1, <1>4, <1>5, Division
<1>7. DOMAIN MonthDays = 1 .. Months /\ Months \in Nat
  BY DaysAddUp
<1>8. /\ MonthOf(t) \in 1 .. Months
      /\ DaysBefore[MonthOf(t)] <= DayOfYear(t) /\ DayOfYear(t) < DaysBefore[MonthOf(t) + 1]
  <2>1. \E m \in 1 .. Months : DaysBefore[m] <= DayOfYear(t) /\ DayOfYear(t) < DaysBefore[m + 1]
    BY <1>6, MonthExists
  <2>2. MonthOf(t) = CHOOSE m \in 1 .. Months :
                       DaysBefore[m] <= DayOfYear(t) /\ DayOfYear(t) < DaysBefore[m + 1]
    BY <1>7 DEF MonthOf
  <2> QED
    BY <2>1, <2>2
<1>9. Day(t) \in 1 .. MonthDays[MonthOf(t)]
  <2>1. PICK m : m = MonthOf(t)
    OBVIOUS
  <2>2. PICK d : d = DayOfYear(t)
    OBVIOUS
  <2>3. m \in 1 .. Months /\ DaysBefore[m] <= d /\ d < DaysBefore[m + 1] /\ d \in Nat
    BY <1>6, <1>8, <2>1, <2>2
  <2>4. /\ DaysBefore[m + 1] = DaysBefore[m] + MonthDays[m] /\ MonthDays[m] \in Nat /\ DaysBefore[m] \in Nat
    BY <1>7, <2>3, DaysAddUp
  <2>5. Day(t) = d - DaysBefore[m] + 1
    BY <2>1, <2>2 DEF Day
  <2>6. d - DaysBefore[m] + 1 \in 1 .. MonthDays[m]
    BY <2>3, <2>4
  <2> QED
    BY <2>1, <2>5, <2>6
<1> QED
  BY <1>1, <1>4, <1>5, <1>6, <1>8, <1>9

(* The month of a day of the year.                                         *)
LEMMA MonthIs ==
    ASSUME NEW t \in Int, NEW m \in 1 .. Months, DaysBefore[m] <= DayOfYear(t), DayOfYear(t) < DaysBefore[m + 1]
    PROVE  MonthOf(t) = m
<1>1. /\ DayOfYear(t) \in Nat /\ MonthOf(t) \in 1 .. Months
      /\ DaysBefore[MonthOf(t)] <= DayOfYear(t) /\ DayOfYear(t) < DaysBefore[MonthOf(t) + 1]
  BY Dates
<1> QED
  BY <1>1, MonthUnique, Zenon

(* Times of a day have the same date.                                      *)
LEMMA SameDay ==
    ASSUME NEW t \in Int, NEW v \in Int, t \div DayLen = v \div DayLen
    PROVE  /\ Year(t) = Year(v) /\ MonthOf(t) = MonthOf(v) /\ Day(t) = Day(v) /\ Weekday(t) = Weekday(v)
<1>1. Year(t) = Year(v) /\ DayOfYear(t) = DayOfYear(v)
  BY Dates
<1> QED
  BY <1>1 DEF MonthOf, Day, Weekday

(* The days of a month, by their numbers: D is the day of t and E the      *)
(* first one after its month.                                              *)
LEMMA MonthRuns ==
    ASSUME NEW t \in Int, NEW D, D = t \div DayLen, NEW E, E = D - (Day(t) - 1) + MonthDays[MonthOf(t)],
           NEW v \in Int, NEW e, e = v \div DayLen, D <= e
    PROVE  /\ D \in Int /\ E \in Int /\ D < E
           /\ e < E => MonthOf(v) = MonthOf(t) /\ Year(v) = Year(t)
           /\ e = E => Day(v) = 1 /\ (MonthOf(v) # 1 => Year(v) = Year(t))
<1>1. PICK m : m = MonthOf(t)
  OBVIOUS
<1>2. PICK d : d = DayOfYear(t)
  OBVIOUS
<1>3. PICK y : y = Year(t)
  OBVIOUS
<1>4. /\ YearDays \in Nat /\ YearDays > 0 /\ D \in Int /\ y = D \div YearDays /\ d = D % YearDays
      /\ y \in Int /\ d \in Nat /\ d < YearDays /\ m \in 1 .. Months
      /\ DaysBefore[m] <= d /\ d < DaysBefore[m + 1] /\ Day(t) \in 1 .. MonthDays[m]
  BY <1>1, <1>2, <1>3, Dates
<1>5. PICK f, l : f = DaysBefore[m] /\ l = MonthDays[m]
  OBVIOUS
<1>6. /\ f \in Nat /\ l \in Nat /\ l > 0 /\ DaysBefore[m + 1] = f + l /\ Months \in Nat
      /\ m \in 1 .. Months + 1 /\ m + 1 \in 1 .. Months + 1 /\ (m = Months \/ m + 1 \in 1 .. Months)
  <2>1. Months \in Nat /\ m \in 1 .. Months
    BY <1>4, DaysAddUp
  <2>2. m \in 1 .. Months + 1 /\ m + 1 \in 1 .. Months + 1 /\ (m = Months \/ m + 1 \in 1 .. Months)
    BY <2>1
  <2>3. /\ MonthDays[m] \in Nat /\ MonthDays[m] > 0 /\ DaysBefore[m] \in Nat
        /\ DaysBefore[m + 1] = DaysBefore[m] + MonthDays[m]
    BY <2>1, <2>2, DaysAddUp, Zenon
  <2> QED
    BY <1>5, <2>1, <2>2, <2>3, Zenon
<1>7. Day(t) = d - f + 1
  BY <1>1, <1>2, <1>5 DEF Day
<1>8. E = D - (d - f) + l
  BY <1>1, <1>4, <1>5, <1>6, <1>7
<1>9. /\ e \in Int /\ Year(v) = e \div YearDays /\ DayOfYear(v) = e % YearDays
  BY Dates
<1>0. PICK z : z = y * YearDays
  OBVIOUS
<1>10. z \in Int /\ D = z + d
  <2>1. D = (D \div YearDays) * YearDays + (D % YearDays)
    BY <1>4, Division, Zenon
  <2>2. D = z + d
    BY <1>0, <1>4, <2>1, Zenon
  <2>3. z \in Int
    BY <1>0, <1>4
  <2> QED
    BY <2>2, <2>3
<1>11. E \in Int /\ D < E /\ E = z + (f + l)
  <2>1. f <= d /\ d < f + l
    BY <1>4, <1>5, <1>6, Zenon
  <2> QED
    BY <1>4, <1>6, <1>8, <1>10, <2>1
<1>12. f + l <= YearDays /\ (m # Months => f + l < YearDays)
  <2>1. CASE m = Months
    BY <1>6, <2>1 DEF YearDays
  <2>2. CASE m # Months
    <3>1. m + 1 \in 1 .. Months + 1 /\ Months + 1 \in 1 .. Months + 1 /\ m + 1 < Months + 1
      BY <1>4, <1>6, <2>2
    <3>2. DaysBefore[m + 1] < DaysBefore[Months + 1]
      BY <3>1, DaysGrow
    <3> QED
      BY <1>4, <1>6, <3>2 DEF YearDays
  <2> QED
    BY <2>1, <2>2
<1>13. ASSUME e < E
       PROVE  MonthOf(v) = m /\ Year(v) = y
  <2>1. PICK r : r = d + (e - D)
    OBVIOUS
  <2>2. r \in Int /\ f <= r /\ r < f + l /\ r < YearDays /\ 0 <= r /\ e = z + r
    <3>1. f <= d
      BY <1>4, <1>5, Zenon
    <3> QED
      BY <1>4, <1>6, <1>9, <1>10, <1>11, <1>12, <1>13, <2>1, <3>1
  <2>3. e \div YearDays = y /\ e % YearDays = r
    <3>1. (y * YearDays + r) \div YearDays = y /\ (y * YearDays + r) % YearDays = r
      BY <1>4, <2>2, QuotientOf, Zenon
    <3> QED
      BY <1>0, <2>2, <3>1, Zenon
  <2>4. Year(v) = y /\ DayOfYear(v) = r
    BY <1>9, <2>3
  <2>5. DaysBefore[m] <= DayOfYear(v) /\ DayOfYear(v) < DaysBefore[m + 1]
    BY <1>5, <1>6, <2>2, <2>4
  <2> QED
    BY <1>4, <2>4, <2>5, MonthIs
<1>14. ASSUME e = E
       PROVE  Day(v) = 1 /\ (MonthOf(v) # 1 => Year(v) = y)
  <2>1. CASE m # Months
    <3>1. e = z + (f + l) /\ f + l \in Int /\ 0 <= f + l /\ f + l < YearDays
      BY <1>6, <1>11, <1>12, <1>14, <2>1
    <3>2. e \div YearDays = y /\ e % YearDays = f + l
      <4>1. PICK s : s = f + l
        OBVIOUS
      <4>2. s \in Int /\ 0 <= s /\ s < YearDays /\ e = z + s
        BY <3>1, <4>1
      <4>3. (y * YearDays + s) \div YearDays = y /\ (y * YearDays + s) % YearDays = s
        BY <1>4, <4>2, QuotientOf, Zenon
      <4> QED
        BY <1>0, <4>1, <4>2, <4>3, Zenon
    <3>3. Year(v) = y /\ DayOfYear(v) = f + l
      BY <1>9, <3>2
    <3>4. m + 1 \in 1 .. Months /\ DaysBefore[m + 1] = f + l
      BY <1>6, <2>1
    <3>5. f + l < DaysBefore[(m + 1) + 1]
      <4>1. /\ DaysBefore[(m + 1) + 1] = DaysBefore[m + 1] + MonthDays[m + 1]
            /\ MonthDays[m + 1] \in Nat /\ MonthDays[m + 1] > 0
        BY <3>4, DaysAddUp
      <4> QED
        BY <1>6, <3>4, <4>1
    <3>6. DaysBefore[m + 1] <= DayOfYear(v) /\ DayOfYear(v) < DaysBefore[(m + 1) + 1]
      BY <1>6, <3>3, <3>4, <3>5
    <3>7. MonthOf(v) = m + 1
      BY <3>4, <3>6, MonthIs
    <3>8. Day(v) = (f + l) - (f + l) + 1
      BY <3>3, <3>4, <3>7 DEF Day
    <3> QED
      BY <1>6, <3>3, <3>8
  <2>2. CASE m = Months
    <3>1. f + l = YearDays
      BY <1>6, <2>2 DEF YearDays
    <3>2. e = (y + 1) * YearDays + 0 /\ y + 1 \in Int /\ 0 \in Int /\ 0 <= 0 /\ 0 < YearDays
      <4>1. (y + 1) * YearDays + 0 = y * YearDays + YearDays
        BY <1>4
      <4> QED
        BY <1>0, <1>4, <1>11, <1>14, <3>1, <4>1
    <3>3. e % YearDays = 0
      <4>1. ((y + 1) * YearDays + 0) % YearDays = 0
        BY <1>4, <3>2, QuotientOf, Zenon
      <4> QED
        BY <3>2, <4>1, Zenon
    <3>4. DayOfYear(v) = 0
      BY <1>9, <3>3
    <3>5. /\ 1 \in 1 .. Months /\ DaysBefore[1] = 0 /\ DaysBefore[1 + 1] = DaysBefore[1] + MonthDays[1]
          /\ MonthDays[1] \in Nat /\ MonthDays[1] > 0
      BY DaysAddUp
    <3>6. DaysBefore[1] <= DayOfYear(v) /\ DayOfYear(v) < DaysBefore[1 + 1]
      BY <3>4, <3>5
    <3>7. MonthOf(v) = 1
      BY <3>5, <3>6, MonthIs
    <3>8. Day(v) = 0 - 0 + 1
      BY <3>4, <3>5, <3>7 DEF Day
    <3> QED
      BY <3>7, <3>8
  <2> QED
    BY <2>1, <2>2
<1> QED
  BY <1>1, <1>3, <1>4, <1>11, <1>13, <1>14

(* The ends of the units that t is in.                                     *)
MinuteEnd(t) == t - (t % MinuteLen) + MinuteLen
HourEnd(t) == t - (t % HourLen) + HourLen
DayEnd(t) == t - (t % DayLen) + DayLen
MonthEnd(t) == t - (Day(t) - 1) * DayLen - (t % DayLen) + MonthDays[MonthOf(t)] * DayLen

(* Later times are in later units.                                         *)
LEMMA DivisionOrder ==
    ASSUME NEW len \in Nat, len > 0, NEW v \in Int, NEW q \in Int
    PROVE  /\ v < q * len => v \div len < q
           /\ v >= q * len => v \div len >= q
<1>1. PICK a, b : a = v \div len /\ b = v % len
  OBVIOUS
<1>2. a \in Int /\ b \in Int /\ 0 <= b /\ b < len /\ v = a * len + b /\ a * len \in Int /\ q * len \in Int
  BY <1>1, Division
<1>3. ASSUME a >= q PROVE a * len >= q * len
  BY <1>2, <1>3
<1>4. ASSUME a < q PROVE a * len + len <= q * len
  <2>1. a + 1 <= q /\ (a + 1) * len = a * len + len
    BY <1>2, <1>4
  <2>2. (a + 1) * len <= q * len
    BY <1>2, <2>1
  <2> QED
    BY <1>2, <2>1, <2>2
<1>5. a < q \/ a >= q
  BY <1>2
<1>6. /\ v < q * len => a < q
      /\ v >= q * len => a >= q
  BY <1>2, <1>3, <1>4, <1>5
<1> QED
  BY <1>1, <1>6

(* A unit ends no later than the longer one around it.                     *)
LEMMA UnitWithin ==
    ASSUME NEW t \in Int, NEW len \in Nat, len > 0, NEW h \in Nat, h > 0
    PROVE  /\ t - (t % len) + len <= t - (t % (h * len)) + h * len
           /\ t % (h * len) = 0 <=> t % len = 0 /\ (t \div len) % h = 0
<1>1. PICK b : b = (t \div len) % h
  OBVIOUS
<1>2. PICK r : r = t % len
  OBVIOUS
<1>3. PICK R : R = t % (h * len)
  OBVIOUS
<1>4. r \in Int /\ 0 <= r /\ r < len /\ t \div len \in Int
  BY <1>2, Division, Zenon
<1>5. b \in Int /\ 0 <= b /\ b < h
  BY <1>1, <1>4, Division, Zenon
<1>6. R = b * len + r
  BY <1>1, <1>2, <1>3, Nested, Zenon
<1>7. b * len \in Int /\ 0 <= b * len /\ b * len <= h * len - len /\ (b * len = 0 => b = 0)
  <2>1. b * len <= (h - 1) * len
    BY <1>5
  <2>2. (h - 1) * len = h * len - len
    OBVIOUS
  <2>3. b # 0 => b * len >= len
    BY <1>5
  <2> QED
    BY <1>5, <2>1, <2>2, <2>3
<1>8. t - r + len <= t - R + h * len
  BY <1>4, <1>6, <1>7
<1>9. R = 0 <=> r = 0 /\ b = 0
  BY <1>4, <1>5, <1>6, <1>7
<1> QED
  BY <1>1, <1>2, <1>3, <1>8, <1>9

(* The fields of a time and the units it is in.                            *)
LEMMA Fields ==
    ASSUME NEW t \in Int
    PROVE  /\ MinuteOf(t) = (t \div MinuteLen) % Minutes /\ HourOf(t) = (t \div HourLen) % Hours
           /\ t \div HourLen = (t \div MinuteLen) \div Minutes /\ t \div DayLen = (t \div HourLen) \div Hours
           /\ SecondOf(t) \in 0 .. Seconds - 1 /\ MinuteOf(t) \in 0 .. Minutes - 1
           /\ HourOf(t) \in 0 .. Hours - 1 /\ Weekday(t) \in 0 .. Week - 1
           /\ t % HourLen = 0 <=> t % MinuteLen = 0 /\ MinuteOf(t) = 0
           /\ t % DayLen = 0 <=> t % HourLen = 0 /\ HourOf(t) = 0
           /\ MinuteEnd(t) <= HourEnd(t) /\ HourEnd(t) <= DayEnd(t)
<1>1. /\ MinuteLen \in Nat /\ MinuteLen > 0 /\ HourLen \in Nat /\ HourLen > 0 /\ DayLen \in Nat /\ DayLen > 0
      /\ Minutes \in Nat /\ Minutes > 0 /\ Hours \in Nat /\ Hours > 0 /\ Week \in Nat /\ Week > 0
      /\ MinuteLen = Seconds
  BY Lengths
<1>0. /\ MinuteLen \in Nat /\ MinuteLen > 0 /\ HourLen \in Nat /\ HourLen > 0
      /\ Minutes \in Nat /\ Minutes > 0 /\ Hours \in Nat /\ Hours > 0
  BY <1>1
<1>2. HourLen = Minutes * MinuteLen /\ DayLen = Hours * HourLen
  BY DEF HourLen, DayLen
<1>3. MinuteOf(t) = (t \div MinuteLen) % Minutes /\ t \div HourLen = (t \div MinuteLen) \div Minutes
  <2>1. /\ (t % (Minutes * MinuteLen)) \div MinuteLen = (t \div MinuteLen) % Minutes
        /\ t \div (Minutes * MinuteLen) = (t \div MinuteLen) \div Minutes
    BY <1>0, Nested, ZenonT(60)
  <2> QED
    BY <1>2, <2>1 DEF MinuteOf
<1>4. HourOf(t) = (t \div HourLen) % Hours /\ t \div DayLen = (t \div HourLen) \div Hours
  <2>1. /\ (t % (Hours * HourLen)) \div HourLen = (t \div HourLen) % Hours
        /\ t \div (Hours * HourLen) = (t \div HourLen) \div Hours
    BY <1>0, Nested, ZenonT(60)
  <2> QED
    BY <1>2, <2>1 DEF HourOf
<1>5. t \div MinuteLen \in Int /\ t \div HourLen \in Int /\ t \div DayLen \in Int
  BY <1>1, Division, Zenon
<1>6. /\ SecondOf(t) \in 0 .. Seconds - 1 /\ MinuteOf(t) \in 0 .. Minutes - 1
      /\ HourOf(t) \in 0 .. Hours - 1 /\ Weekday(t) \in 0 .. Week - 1
  <2>1. ASSUME NEW x \in Int, NEW n \in Nat, n > 0 PROVE x % n \in 0 .. n - 1
    BY <2>1
  <2> QED
    BY <1>1, <1>3, <1>4, <1>5, <2>1 DEF SecondOf, Weekday
<1>7. /\ t % HourLen = 0 <=> t % MinuteLen = 0 /\ MinuteOf(t) = 0
      /\ MinuteEnd(t) <= HourEnd(t)
  <2>1. /\ t - (t % MinuteLen) + MinuteLen <= t - (t % (Minutes * MinuteLen)) + Minutes * MinuteLen
        /\ t % (Minutes * MinuteLen) = 0 <=> t % MinuteLen = 0 /\ (t \div MinuteLen) % Minutes = 0
    BY <1>1, UnitWithin, Zenon
  <2> QED
    BY <1>2, <1>3, <2>1, Zenon DEF MinuteEnd, HourEnd
<1>8. /\ t % DayLen = 0 <=> t % HourLen = 0 /\ HourOf(t) = 0
      /\ HourEnd(t) <= DayEnd(t)
  <2>1. /\ t - (t % HourLen) + HourLen <= t - (t % (Hours * HourLen)) + Hours * HourLen
        /\ t % (Hours * HourLen) = 0 <=> t % HourLen = 0 /\ (t \div HourLen) % Hours = 0
    BY <1>1, UnitWithin, Zenon
  <2> QED
    BY <1>2, <1>4, <2>1, Zenon DEF DayEnd, HourEnd
<1> QED
  BY <1>3, <1>4, <1>6, <1>7, <1>8, Zenon

(* The end of the month of t: until then month and year are the same, and  *)
(* there a month begins, of the same year unless it is the first.          *)
LEMMA MonthEnds ==
    ASSUME NEW t \in Int
    PROVE  /\ MonthEnd(t) \in Int /\ DayEnd(t) <= MonthEnd(t)
           /\ \A v \in Int : t <= v /\ v < MonthEnd(t) => MonthOf(v) = MonthOf(t) /\ Year(v) = Year(t)
           /\ MonthEnd(t) % DayLen = 0 /\ Day(MonthEnd(t)) = 1
           /\ MonthOf(MonthEnd(t)) # 1 => Year(MonthEnd(t)) = Year(t)
<1>1. PICK k : k = Day(t)
  OBVIOUS
<1>2. PICK l : l = MonthDays[MonthOf(t)]
  OBVIOUS
<1>3. PICK L : L = DayLen
  OBVIOUS
<1>4. PICK D : D = t \div L
  OBVIOUS
<1>5. PICK r : r = t % L
  OBVIOUS
<1>6. PICK E : E = D - (k - 1) + l
  OBVIOUS
<1>7. L \in Nat /\ L > 0 /\ k \in Int /\ l \in Int /\ k <= l
  <2>1. MonthOf(t) \in 1 .. Months /\ Day(t) \in 1 .. MonthDays[MonthOf(t)]
    BY Dates
  <2>2. MonthDays[MonthOf(t)] \in Nat
    BY <2>1, DaysAddUp
  <2> QED
    BY <1>1, <1>2, <1>3, <2>1, <2>2, Lengths
<1>8. D \in Int /\ r \in Int /\ 0 <= r /\ r < L /\ t = D * L + r /\ D * L \in Int
  BY <1>4, <1>5, <1>7, Division
<1>9. E \in Int /\ D + 1 <= E
  BY <1>6, <1>7, <1>8
<1>10. MonthEnd(t) = E * L
  <2>1. MonthEnd(t) = t - (k - 1) * L - r + l * L
    BY <1>1, <1>2, <1>3, <1>5 DEF MonthEnd
  <2>2. E * L = D * L - (k - 1) * L + l * L
    BY <1>6, <1>7, <1>8
  <2>3. (k - 1) * L \in Int /\ l * L \in Int
    BY <1>7
  <2>4. ASSUME NEW x \in Int, NEW y \in Int, NEW z \in Int, t = x + r
        PROVE  t - y - r + z = x - y + z
    BY <1>8, <2>4
  <2>5. t - (k - 1) * L - r + l * L = D * L - (k - 1) * L + l * L
    BY <1>8, <2>3, <2>4, ZenonT(60)
  <2> QED
    BY <2>1, <2>2, <2>5, Zenon
<1>11. E * L \in Int /\ DayEnd(t) = D * L + L /\ D * L + L <= E * L
  <2>1. (D + 1) * L <= E * L
    BY <1>7, <1>8, <1>9
  <2>2. (D + 1) * L = D * L + L
    BY <1>7, <1>8
  <2>3. DayEnd(t) = t - r + L
    BY <1>3, <1>5 DEF DayEnd
  <2> QED
    BY <1>7, <1>8, <1>9, <2>1, <2>2, <2>3
<1>12. E * L + 0 = E * L /\ (E * L + 0) \div L = E /\ (E * L + 0) % L = 0
  <2>1. 0 \in Int /\ 0 <= 0 /\ 0 < L
    BY <1>7
  <2>2. (E * L + 0) \div L = E /\ (E * L + 0) % L = 0
    BY <1>7, <1>9, <2>1, QuotientOf, Zenon
  <2> QED
    BY <1>11, <2>2
<1>13. ASSUME NEW v \in Int, t <= v
       PROVE  /\ v \div L < E => MonthOf(v) = MonthOf(t) /\ Year(v) = Year(t)
              /\ v \div L = E => Day(v) = 1 /\ (MonthOf(v) # 1 => Year(v) = Year(t))
  <2>1. v >= D * L
    BY <1>8, <1>13
  <2>2. D <= v \div L
    <3>1. v \div L >= D
      BY <1>7, <1>8, <2>1, DivisionOrder, Zenon
    <3> QED
      BY <1>7, <1>8, <3>1, Division, Zenon
  <2>3. /\ D = t \div DayLen /\ E = D - (Day(t) - 1) + MonthDays[MonthOf(t)]
    BY <1>1, <1>2, <1>3, <1>4, <1>6, Zenon
  <2>4. D <= v \div DayLen
    BY <1>3, <2>2, Zenon
  <2> QED
    BY <1>3, <2>3, <2>4, MonthRuns
<1>14. ASSUME NEW v \in Int, t <= v, v < MonthEnd(t)
       PROVE  MonthOf(v) = MonthOf(t) /\ Year(v) = Year(t)
  <2>1. v < E * L
    BY <1>10, <1>14
  <2>2. v \div L < E
    BY <1>7, <1>9, <2>1, DivisionOrder, Zenon
  <2> QED
    BY <1>13, <1>14, <2>2, Zenon
<1>15. Day(E * L) = 1 /\ (MonthOf(E * L) # 1 => Year(E * L) = Year(t))
  <2>1. t <= E * L /\ E * L \in Int
    BY <1>7, <1>8, <1>11
  <2>2. (E * L) \div L = E
    BY <1>12
  <2> QED
    BY <1>13, <2>1, <2>2, Zenon
<1> QED
  BY <1>3, <1>10, <1>11, <1>12, <1>14, <1>15, Zenon

(* A time is in the bit sets of a schedule: by its month, its day, its     *)
(* hour, its minute and its second.                                        *)
FitsMonth(s, t) == MonthOf(t) \in s[5]
FitsDay(s, t) == dayMatches(s, t)
FitsHour(s, t) == HourOf(t) \in s[3]
FitsMinute(s, t) == MinuteOf(t) \in s[2]
Fits(s, t) == /\ FitsMonth(s, t) /\ FitsDay(s, t) /\ FitsHour(s, t) /\ FitsMinute(s, t)
              /\ SecondOf(t) \in s[1]

(* Where the walk is once it has stepped: at the start of every unit it is *)
(* not in for its own sake.  This is why the smaller fields need no second *)
(* reset.                                                                  *)
Aligned(s, t) ==
  /\ FitsMonth(s, t) \/ (Day(t) = 1 /\ t % DayLen = 0)
  /\ FitsDay(s, t) \/ t % DayLen = 0
  /\ FitsHour(s, t) \/ t % HourLen = 0
  /\ FitsMinute(s, t) \/ t % MinuteLen = 0

(* The walk has come from first to t and passed nothing that is due.       *)
Walked(s, first, t, added) ==
  /\ t \in Int /\ first <= t /\ added \in BOOLEAN
  /\ added => Aligned(s, t)
  /\ \A v \in Int : first <= v /\ v < t => ~Fits(s, v)

First(spec, start) == start \div Nanos + 1 + ZoneOffset(spec)

(* What each loop has behind it.                                           *)
LoopsBehind(s, pc, t) ==
  /\ pc \in {"day", "hour", "minute", "second", "found"} => FitsMonth(s, t)
  /\ pc \in {"hour", "minute", "second", "found"} => FitsDay(s, t)
  /\ pc \in {"minute", "second", "found"} => FitsHour(s, t)
  /\ pc \in {"second", "found"} => FitsMinute(s, t)
  /\ pc = "found" => SecondOf(t) \in s[1]

WalkPcs == {"wrap", "month", "day", "hour", "minute", "second", "found"}
Pcs == {"parse", "panic", "error", "start", "done"} \cup WalkPcs
Call(c) == c = [pc |-> c.pc, spec |-> c.spec, start |-> c.start, sched |-> c.sched,
                t |-> c.t, added |-> c.added, limit |-> c.limit]

(* A call of Next on its way: Walked, what the loops have behind them, and *)
(* the year it has not passed but where it starts over.                    *)
Walking(c) ==
  /\ Call(c) /\ c.pc \in Pcs /\ c.spec \in Specs /\ c.start \in Starts
  /\ c.pc \in {"parse", "start"} => c.added = FALSE
  /\ c.pc \in {"start"} \cup WalkPcs =>
       /\ ~NewParserPanics(c.spec.options) /\ c.spec.kind # "every"
       /\ c.sched = Parse(c.spec) /\ c.sched # <<>>
  /\ c.pc \in WalkPcs =>
       /\ Walked(c.sched, First(c.spec, c.start), c.t, c.added)
       /\ c.limit = Year(First(c.spec, c.start)) + YearLimit
       /\ c.pc # "wrap" => Year(c.t) <= c.limit
       /\ LoopsBehind(c.sched, c.pc, c.t)
WalkInv == Walking(cron) /\ NextIsLeast

(* The ends of the units are later, and there a unit begins.               *)
LEMMA Ends ==
    ASSUME NEW t \in Int
    PROVE  /\ MinuteEnd(t) \in Int /\ t < MinuteEnd(t) /\ MinuteEnd(t) % MinuteLen = 0
           /\ HourEnd(t) \in Int /\ t < HourEnd(t) /\ HourEnd(t) % HourLen = 0
           /\ DayEnd(t) \in Int /\ t < DayEnd(t) /\ DayEnd(t) % DayLen = 0
           /\ \A v \in Int : t <= v /\ v < MinuteEnd(t) => v \div MinuteLen = t \div MinuteLen
           /\ \A v \in Int : t <= v /\ v < HourEnd(t) => v \div HourLen = t \div HourLen
           /\ \A v \in Int : t <= v /\ v < DayEnd(t) => v \div DayLen = t \div DayLen
<1>1. MinuteLen \in Nat /\ MinuteLen > 0 /\ HourLen \in Nat /\ HourLen > 0 /\ DayLen \in Nat /\ DayLen > 0
  BY Lengths
<1>3. /\ MinuteEnd(t) \in Int /\ t < MinuteEnd(t) /\ MinuteEnd(t) % MinuteLen = 0
      /\ \A v \in Int : t <= v /\ v < MinuteEnd(t) => v \div MinuteLen = t \div MinuteLen
  BY <1>1, UnitEnds, Zenon DEF MinuteEnd
<1>4. /\ HourEnd(t) \in Int /\ t < HourEnd(t) /\ HourEnd(t) % HourLen = 0
      /\ \A v \in Int : t <= v /\ v < HourEnd(t) => v \div HourLen = t \div HourLen
  BY <1>1, UnitEnds, Zenon DEF HourEnd
<1>5. /\ DayEnd(t) \in Int /\ t < DayEnd(t) /\ DayEnd(t) % DayLen = 0
      /\ \A v \in Int : t <= v /\ v < DayEnd(t) => v \div DayLen = t \div DayLen
  BY <1>1, UnitEnds, Zenon DEF DayEnd
<1> QED
  BY <1>3, <1>4, <1>5, Zenon

(* Until its end the unit of t has one value of its field.                 *)
LEMMA FieldsStay ==
    ASSUME NEW s, NEW t \in Int, NEW v \in Int, t <= v
    PROVE  /\ v < MinuteEnd(t) => (FitsMinute(s, v) <=> FitsMinute(s, t))
           /\ v < HourEnd(t) => (FitsHour(s, v) <=> FitsHour(s, t))
           /\ v < DayEnd(t) => (FitsDay(s, v) <=> FitsDay(s, t)) /\ Year(v) = Year(t) /\ (FitsMonth(s, v) <=> FitsMonth(s, t))
           /\ v < MonthEnd(t) => (FitsMonth(s, v) <=> FitsMonth(s, t)) /\ Year(v) = Year(t)
<1>1. ASSUME v < MinuteEnd(t) PROVE FitsMinute(s, v) <=> FitsMinute(s, t)
  <2>1. v \div MinuteLen = t \div MinuteLen
    BY <1>1, Ends, Zenon
  <2>2. MinuteOf(v) = (v \div MinuteLen) % Minutes /\ MinuteOf(t) = (t \div MinuteLen) % Minutes
    BY Fields, Zenon
  <2> QED
    BY <2>1, <2>2, Zenon DEF FitsMinute
<1>2. ASSUME v < HourEnd(t) PROVE FitsHour(s, v) <=> FitsHour(s, t)
  <2>1. v \div HourLen = t \div HourLen
    BY <1>2, Ends, Zenon
  <2>2. HourOf(v) = (v \div HourLen) % Hours /\ HourOf(t) = (t \div HourLen) % Hours
    BY Fields, Zenon
  <2> QED
    BY <2>1, <2>2, Zenon DEF FitsHour
<1>3. ASSUME v < DayEnd(t)
      PROVE  (FitsDay(s, v) <=> FitsDay(s, t)) /\ Year(v) = Year(t) /\ (FitsMonth(s, v) <=> FitsMonth(s, t))
  <2>1. v \div DayLen = t \div DayLen
    BY <1>3, Ends, Zenon
  <2>2. Year(v) = Year(t) /\ MonthOf(v) = MonthOf(t) /\ Day(v) = Day(t) /\ Weekday(v) = Weekday(t)
    BY <2>1, SameDay, Zenon
  <2> QED
    BY <2>2, Zenon DEF FitsDay, FitsMonth, dayMatches
<1>4. ASSUME v < MonthEnd(t) PROVE (FitsMonth(s, v) <=> FitsMonth(s, t)) /\ Year(v) = Year(t)
  <2>1. MonthOf(v) = MonthOf(t) /\ Year(v) = Year(t)
    BY <1>4, MonthEnds, Zenon
  <2> QED
    BY <2>1, Zenon DEF FitsMonth
<1> QED
  BY <1>1, <1>2, <1>3, <1>4, Zenon

(* A time at the start of a unit is at the start of the smaller ones.      *)
LEMMA StartsNest ==
    ASSUME NEW t \in Int
    PROVE  /\ t % DayLen = 0 => t % HourLen = 0 /\ HourOf(t) = 0
           /\ t % HourLen = 0 => t % MinuteLen = 0 /\ MinuteOf(t) = 0
  BY Fields, Zenon

(* As far as the end of a unit of t, what fitted at t fits or a new unit   *)
(* begins.                                                                 *)
LEMMA Kept ==
    ASSUME NEW s, NEW t \in Int, NEW u \in Int, t <= u
    PROVE  /\ FitsMonth(s, t) /\ u <= DayEnd(t) => FitsMonth(s, u) \/ (Day(u) = 1 /\ u % DayLen = 0)
           /\ FitsDay(s, t) /\ u <= DayEnd(t) => FitsDay(s, u) \/ u % DayLen = 0
           /\ FitsHour(s, t) /\ u <= HourEnd(t) => FitsHour(s, u) \/ u % HourLen = 0
           /\ FitsMinute(s, t) /\ u <= MinuteEnd(t) => FitsMinute(s, u) \/ u % MinuteLen = 0
<1>1. /\ MinuteEnd(t) \in Int /\ HourEnd(t) \in Int /\ DayEnd(t) \in Int
      /\ MinuteEnd(t) % MinuteLen = 0 /\ HourEnd(t) % HourLen = 0 /\ DayEnd(t) % DayLen = 0
  BY Ends, Zenon
<1>2. MonthEnd(t) \in Int /\ DayEnd(t) <= MonthEnd(t) /\ Day(MonthEnd(t)) = 1 /\ MonthEnd(t) % DayLen = 0
  BY MonthEnds, Zenon
<1>3. /\ u < MinuteEnd(t) => (FitsMinute(s, u) <=> FitsMinute(s, t))
      /\ u < HourEnd(t) => (FitsHour(s, u) <=> FitsHour(s, t))
      /\ u < DayEnd(t) => (FitsDay(s, u) <=> FitsDay(s, t))
      /\ u < MonthEnd(t) => (FitsMonth(s, u) <=> FitsMonth(s, t))
  BY FieldsStay, Zenon
<1>4. ASSUME NEW e \in Int, u <= e PROVE u < e \/ u = e
  BY <1>4
<1>5. ASSUME FitsMonth(s, t), u <= DayEnd(t) PROVE FitsMonth(s, u) \/ (Day(u) = 1 /\ u % DayLen = 0)
  <2>1. u <= MonthEnd(t)
    BY <1>1, <1>2, <1>5
  <2>2. u < MonthEnd(t) \/ u = MonthEnd(t)
    BY <1>2, <1>4, <2>1, Zenon
  <2> QED
    BY <1>2, <1>3, <1>5, <2>2, Zenon
<1>6. ASSUME FitsDay(s, t), u <= DayEnd(t) PROVE FitsDay(s, u) \/ u % DayLen = 0
  <2>1. u < DayEnd(t) \/ u = DayEnd(t)
    BY <1>1, <1>4, <1>6, Zenon
  <2> QED
    BY <1>1, <1>3, <1>6, <2>1, Zenon
<1>7. ASSUME FitsHour(s, t), u <= HourEnd(t) PROVE FitsHour(s, u) \/ u % HourLen = 0
  <2>1. u < HourEnd(t) \/ u = HourEnd(t)
    BY <1>1, <1>4, <1>7, Zenon
  <2> QED
    BY <1>1, <1>3, <1>7, <2>1, Zenon
<1>8. ASSUME FitsMinute(s, t), u <= MinuteEnd(t) PROVE FitsMinute(s, u) \/ u % MinuteLen = 0
  <2>1. u < MinuteEnd(t) \/ u = MinuteEnd(t)
    BY <1>1, <1>4, <1>8, Zenon
  <2> QED
    BY <1>1, <1>3, <1>8, <2>1, Zenon
<1> QED
  BY <1>5, <1>6, <1>7, <1>8, Zenon

(* A turn of the loop of the months: it goes on to the end of the month,   *)
(* reset or not, and passes nothing that fits.                             *)
LEMMA MonthTurn ==
    ASSUME NEW s, NEW t \in Int, NEW added \in BOOLEAN, added => Aligned(s, t), ~FitsMonth(s, t),
           NEW u, u = (IF added THEN t ELSE t - (Day(t) - 1) * DayLen - (t % DayLen)) + MonthDays[MonthOf(t)] * DayLen
    PROVE  /\ u \in Int /\ t < u /\ Aligned(s, u) /\ \A v \in Int : t <= v /\ v < u => ~Fits(s, v)
           /\ MonthOf(u) # 1 => Year(u) = Year(t)
<1>1. u = MonthEnd(t)
  <2>1. CASE ~added
    BY <2>1 DEF MonthEnd
  <2>2. CASE added
    <3>1. Day(t) = 1 /\ t % DayLen = 0
      BY <2>2 DEF Aligned
    <3>2. DayLen \in Int /\ t - (1 - 1) * DayLen - 0 = t
      BY Lengths
    <3>3. MonthEnd(t) = t - (1 - 1) * DayLen - 0 + MonthDays[MonthOf(t)] * DayLen
      BY <3>1, Zenon DEF MonthEnd
    <3> QED
      BY <2>2, <3>2, <3>3
  <2> QED
    BY <2>1, <2>2
<1>2. u \in Int /\ t < u
  <2>1. MonthEnd(t) \in Int /\ DayEnd(t) \in Int /\ t < DayEnd(t) /\ DayEnd(t) <= MonthEnd(t)
    BY MonthEnds, Ends, Zenon
  <2> QED
    BY <1>1, <2>1
<1>3. u % DayLen = 0 /\ Day(u) = 1 /\ (MonthOf(u) # 1 => Year(u) = Year(t))
  BY <1>1, MonthEnds, Zenon
<1>4. Aligned(s, u)
  BY <1>2, <1>3, StartsNest, Zenon DEF Aligned
<1>5. ASSUME NEW v \in Int, t <= v, v < u PROVE ~Fits(s, v)
  <2>1. v < MonthEnd(t)
    BY <1>1, <1>5
  <2> QED
    BY <1>5, <2>1, FieldsStay, Zenon DEF Fits
<1> QED
  BY <1>2, <1>3, <1>4, <1>5, Zenon

(* A turn of the loop of the days.                                         *)
LEMMA DayTurn ==
    ASSUME NEW s, NEW t \in Int, NEW added \in BOOLEAN, added => Aligned(s, t),
           ~FitsDay(s, t), FitsMonth(s, t),
           NEW u, u = (IF added THEN t ELSE t - (t % DayLen)) + DayLen
    PROVE  /\ u \in Int /\ t < u /\ Aligned(s, u) /\ \A v \in Int : t <= v /\ v < u => ~Fits(s, v)
           /\ Day(u) # 1 => Year(u) = Year(t) /\ FitsMonth(s, u)
<1>1. u = DayEnd(t)
  <2>1. CASE ~added
    BY <2>1 DEF DayEnd
  <2>2. CASE added
    <3>1. t % DayLen = 0
      BY <2>2 DEF Aligned
    <3>2. t - 0 = t
      OBVIOUS
    <3> QED
      BY <2>2, <3>1, <3>2 DEF DayEnd
  <2> QED
    BY <2>1, <2>2
<1>2. u \in Int /\ t < u /\ t <= u /\ u % DayLen = 0
  <2>1. u \in Int /\ t < u /\ u % DayLen = 0
    BY <1>1, Ends, Zenon
  <2> QED
    BY <2>1
<1>3. u <= DayEnd(t)
  <2>1. MinuteEnd(t) \in Int /\ HourEnd(t) \in Int /\ DayEnd(t) \in Int
    BY Ends, Zenon
  <2>2. MinuteEnd(t) <= HourEnd(t) /\ HourEnd(t) <= DayEnd(t)
    BY Fields, Zenon
  <2> QED
    BY <1>1, <1>2, <2>1, <2>2
<1>4. Aligned(s, u)
  BY <1>2, <1>3, Kept, StartsNest, Zenon DEF Aligned
<1>5. ASSUME NEW v \in Int, t <= v, v < u PROVE ~Fits(s, v)
  <2>1. v < DayEnd(t)
    BY <1>1, <1>5
  <2> QED
    BY <1>5, <2>1, FieldsStay, Zenon DEF Fits
<1>6. ASSUME Day(u) # 1 PROVE Year(u) = Year(t) /\ FitsMonth(s, u)
  <2>1. MonthEnd(t) \in Int /\ DayEnd(t) <= MonthEnd(t) /\ Day(MonthEnd(t)) = 1
    BY MonthEnds, Zenon
  <2>2. u < MonthEnd(t)
    <3>1. u <= MonthEnd(t) /\ u # MonthEnd(t)
      BY <1>1, <1>6, <2>1, Zenon
    <3> QED
      BY <1>2, <2>1, <3>1
  <2>3. Year(u) = Year(t) /\ (FitsMonth(s, u) <=> FitsMonth(s, t))
    BY <1>2, <2>2, FieldsStay
  <2> QED
    BY <2>3
<1> QED
  BY <1>2, <1>4, <1>5, <1>6, Zenon

(* A turn of the loop of the hours.                                        *)
LEMMA HourTurn ==
    ASSUME NEW s, NEW t \in Int, NEW added \in BOOLEAN, added => Aligned(s, t),
           ~FitsHour(s, t), FitsMonth(s, t), FitsDay(s, t),
           NEW u, u = (IF added THEN t ELSE t - (t % HourLen)) + HourLen
    PROVE  /\ u \in Int /\ t < u /\ Aligned(s, u) /\ \A v \in Int : t <= v /\ v < u => ~Fits(s, v)
           /\ HourOf(u) # 0 => Year(u) = Year(t) /\ FitsMonth(s, u) /\ FitsDay(s, u)
<1>1. u = HourEnd(t)
  <2>1. CASE ~added
    BY <2>1 DEF HourEnd
  <2>2. CASE added
    <3>1. t % HourLen = 0
      BY <2>2 DEF Aligned
    <3>2. t - 0 = t
      OBVIOUS
    <3> QED
      BY <2>2, <3>1, <3>2 DEF HourEnd
  <2> QED
    BY <2>1, <2>2
<1>2. u \in Int /\ t < u /\ t <= u /\ u % HourLen = 0
  <2>1. u \in Int /\ t < u /\ u % HourLen = 0
    BY <1>1, Ends, Zenon
  <2> QED
    BY <2>1
<1>3. u <= DayEnd(t) /\ DayEnd(t) \in Int
  <2>1. MinuteEnd(t) \in Int /\ HourEnd(t) \in Int /\ DayEnd(t) \in Int
    BY Ends, Zenon
  <2>2. MinuteEnd(t) <= HourEnd(t) /\ HourEnd(t) <= DayEnd(t)
    BY Fields, Zenon
  <2> QED
    BY <1>1, <1>2, <2>1, <2>2
<1>4. Aligned(s, u)
  BY <1>2, <1>3, Kept, StartsNest, Zenon DEF Aligned
<1>5. ASSUME NEW v \in Int, t <= v, v < u PROVE ~Fits(s, v)
  <2>1. v < HourEnd(t)
    BY <1>1, <1>5
  <2> QED
    BY <1>5, <2>1, FieldsStay, Zenon DEF Fits
<1>6. ASSUME HourOf(u) # 0 PROVE Year(u) = Year(t) /\ FitsMonth(s, u) /\ FitsDay(s, u)
  <2>1. u # DayEnd(t)
    <3>1. u % DayLen # 0
      BY <1>2, <1>6, StartsNest, Zenon
    <3> QED
      BY <3>1, Ends, Zenon
  <2>2. u < DayEnd(t)
    BY <1>2, <1>3, <2>1
  <2>3. (FitsDay(s, u) <=> FitsDay(s, t)) /\ Year(u) = Year(t) /\ (FitsMonth(s, u) <=> FitsMonth(s, t))
    BY <1>2, <2>2, FieldsStay, ZenonT(60)
  <2> QED
    BY <2>3
<1> QED
  BY <1>2, <1>4, <1>5, <1>6, Zenon

(* A turn of the loop of the minutes.                                      *)
LEMMA MinuteTurn ==
    ASSUME NEW s, NEW t \in Int, NEW added \in BOOLEAN, added => Aligned(s, t),
           ~FitsMinute(s, t), FitsMonth(s, t), FitsDay(s, t), FitsHour(s, t),
           NEW u, u = (IF added THEN t ELSE t - (t % MinuteLen)) + MinuteLen
    PROVE  /\ u \in Int /\ t < u /\ Aligned(s, u) /\ \A v \in Int : t <= v /\ v < u => ~Fits(s, v)
           /\ MinuteOf(u) # 0 => Year(u) = Year(t) /\ FitsMonth(s, u) /\ FitsDay(s, u) /\ FitsHour(s, u)
<1>1. u = MinuteEnd(t)
  <2>1. CASE ~added
    BY <2>1 DEF MinuteEnd
  <2>2. CASE added
    <3>1. t % MinuteLen = 0
      BY <2>2 DEF Aligned
    <3>2. t - 0 = t
      OBVIOUS
    <3> QED
      BY <2>2, <3>1, <3>2 DEF MinuteEnd
  <2> QED
    BY <2>1, <2>2
<1>2. u \in Int /\ t < u /\ t <= u /\ u % MinuteLen = 0
  <2>1. u \in Int /\ t < u /\ u % MinuteLen = 0
    BY <1>1, Ends, Zenon
  <2> QED
    BY <2>1
<1>3. u <= DayEnd(t) /\ u <= HourEnd(t) /\ HourEnd(t) \in Int /\ (u < HourEnd(t) => u < DayEnd(t))
  <2>1. MinuteEnd(t) \in Int /\ HourEnd(t) \in Int /\ DayEnd(t) \in Int
    BY Ends, Zenon
  <2>2. MinuteEnd(t) <= HourEnd(t) /\ HourEnd(t) <= DayEnd(t)
    BY Fields, Zenon
  <2> QED
    BY <1>1, <1>2, <2>1, <2>2
<1>4. Aligned(s, u)
  BY <1>2, <1>3, Kept, StartsNest, Zenon DEF Aligned
<1>5. ASSUME NEW v \in Int, t <= v, v < u PROVE ~Fits(s, v)
  <2>1. v < MinuteEnd(t)
    BY <1>1, <1>5
  <2> QED
    BY <1>5, <2>1, FieldsStay, Zenon DEF Fits
<1>6. ASSUME MinuteOf(u) # 0 PROVE Year(u) = Year(t) /\ FitsMonth(s, u) /\ FitsDay(s, u) /\ FitsHour(s, u)
  <2>1. u # HourEnd(t)
    <3>1. u % HourLen # 0
      BY <1>2, <1>6, StartsNest, Zenon
    <3> QED
      BY <3>1, Ends, Zenon
  <2>2. u < HourEnd(t) /\ u < DayEnd(t)
    BY <1>2, <1>3, <2>1
  <2>3. /\ Year(u) = Year(t) /\ (FitsMonth(s, u) <=> FitsMonth(s, t)) /\ (FitsDay(s, u) <=> FitsDay(s, t))
        /\ (FitsHour(s, u) <=> FitsHour(s, t))
    BY <1>2, <2>2, FieldsStay
  <2> QED
    BY <2>3
<1> QED
  BY <1>2, <1>4, <1>5, <1>6, Zenon

(* A turn of the loop of the seconds.                                      *)
LEMMA SecondTurn ==
    ASSUME NEW s, NEW t \in Int, SecondOf(t) \notin s[1],
           FitsMonth(s, t), FitsDay(s, t), FitsHour(s, t), FitsMinute(s, t), NEW u, u = t + 1
    PROVE  /\ u \in Int /\ t < u /\ Aligned(s, u) /\ \A v \in Int : t <= v /\ v < u => ~Fits(s, v)
           /\ SecondOf(u) # 0 => Year(u) = Year(t) /\ FitsMonth(s, u) /\ FitsDay(s, u) /\ FitsHour(s, u) /\ FitsMinute(s, u)
<1>1. u \in Int /\ t < u /\ t <= u
  OBVIOUS
<1>2. /\ u <= MinuteEnd(t) /\ u <= HourEnd(t) /\ u <= DayEnd(t)
      /\ u # MinuteEnd(t) => u < MinuteEnd(t) /\ u < HourEnd(t) /\ u < DayEnd(t)
  <2>1. MinuteEnd(t) \in Int /\ HourEnd(t) \in Int /\ DayEnd(t) \in Int /\ t < MinuteEnd(t)
    BY Ends, Zenon
  <2>2. MinuteEnd(t) <= HourEnd(t) /\ HourEnd(t) <= DayEnd(t)
    BY Fields, Zenon
  <2> QED
    BY <1>1, <2>1, <2>2
<1>3. Aligned(s, u)
  BY <1>1, <1>2, Kept, Zenon DEF Aligned
<1>4. ASSUME NEW v \in Int, t <= v, v < u PROVE ~Fits(s, v)
  <2>1. v = t
    BY <1>4
  <2> QED
    BY <2>1 DEF Fits
<1>5. ASSUME SecondOf(u) # 0
      PROVE  Year(u) = Year(t) /\ FitsMonth(s, u) /\ FitsDay(s, u) /\ FitsHour(s, u) /\ FitsMinute(s, u)
  <2>1. u # MinuteEnd(t)
    <3>1. u % MinuteLen # 0
      BY <1>5 DEF SecondOf
    <3> QED
      BY <3>1, Ends, Zenon
  <2> QED
    BY <1>1, <1>2, <2>1, FieldsStay, Zenon
<1> QED
  BY <1>1, <1>3, <1>4, <1>5, Zenon

(* The time the walk starts from.                                          *)
LEMMA FirstIsInt ==
    ASSUME NEW spec \in Specs, NEW start \in Starts
    PROVE  /\ First(spec, start) \in Int /\ ZoneOffset(spec) \in Int /\ start \in Nat
           /\ start \div Nanos \in Nat
           /\ First(spec, start) = start \div Nanos + 1 + ZoneOffset(spec)
<1>1. start \in Nat /\ Nanos \in Nat /\ Nanos > 0
  BY CalendarAssumption
<1>2. ZoneOffset(spec) \in Int
  BY SpecsAssumption DEF ZoneOffset
<1>3. start \div Nanos \in Nat
  BY <1>1
<1> QED
  BY <1>1, <1>2, <1>3 DEF First

(* A loop is left when its field fits, ...                                 *)
Left(c, pc) == [c EXCEPT !.pc = pc]

(* Leaving a loop keeps the invariant.                                     *)
LEMMA LeaveKeeps ==
    ASSUME NEW c, Walking(c), c.pc \in WalkPcs, Year(c.t) <= c.limit,
           NEW pc \in WalkPcs, LoopsBehind(c.sched, pc, c.t)
    PROVE  Walking(Left(c, pc)) /\ Left(c, pc).pc = pc
<1> DEFINE d == Left(c, pc)
<1>1. /\ d = [pc |-> pc, spec |-> c.spec, start |-> c.start, sched |-> c.sched,
              t |-> c.t, added |-> c.added, limit |-> c.limit]
  BY DEF Walking, Call, Left
<1>2. /\ d.pc = pc /\ d.spec = c.spec /\ d.start = c.start /\ d.sched = c.sched
      /\ d.t = c.t /\ d.added = c.added /\ d.limit = c.limit
  BY <1>1
<1> HIDE DEF d
<1>3. Call(d)
  BY <1>1, <1>2 DEF Call
<1>4. pc \in Pcs /\ pc \notin {"parse", "start"}
  BY DEF Pcs, WalkPcs
<1>5. /\ Walked(c.sched, First(c.spec, c.start), c.t, c.added)
      /\ c.limit = Year(First(c.spec, c.start)) + YearLimit
      /\ c.spec \in Specs /\ c.start \in Starts
      /\ ~NewParserPanics(c.spec.options) /\ c.spec.kind # "every"
      /\ c.sched = Parse(c.spec) /\ c.sched # <<>>
  BY Zenon DEF Walking
<1> QED
  BY <1>2, <1>3, <1>4, <1>5, Zenon DEF Walking, d

(* ... and else a turn of it goes on to y.                                  *)
Turned(c, x, y, z) == [c EXCEPT !.added = x, !.t = y, !.pc = z]

(* It leaves the others alone.                                             *)
LEMMA CallStepped ==
    ASSUME NEW c, Call(c), NEW x, NEW y, NEW z
    PROVE  /\ Call(Turned(c, x, y, z)) /\ Turned(c, x, y, z).pc = z /\ Turned(c, x, y, z).spec = c.spec
           /\ Turned(c, x, y, z).start = c.start /\ Turned(c, x, y, z).sched = c.sched
           /\ Turned(c, x, y, z).t = y /\ Turned(c, x, y, z).added = x /\ Turned(c, x, y, z).limit = c.limit
<1>1. Turned(c, x, y, z) =
             [pc |-> z, spec |-> c.spec, start |-> c.start, sched |-> c.sched, t |-> y, added |-> x, limit |-> c.limit]
  <2>0. PICK w1, w2, w3, w4, w5, w6, w7 :
          /\ c = [pc |-> w1, spec |-> w2, start |-> w3, sched |-> w4, t |-> w5, added |-> w6, limit |-> w7]
          /\ w2 = c.spec /\ w3 = c.start /\ w4 = c.sched /\ w7 = c.limit
    BY Zenon DEF Call
  <2>1. PICK a : a = [c EXCEPT !.added = x]
    OBVIOUS
  <2>2. PICK b : b = [a EXCEPT !.t = y]
    OBVIOUS
  <2>3. a = [pc |-> w1, spec |-> w2, start |-> w3, sched |-> w4, t |-> w5, added |-> x, limit |-> w7]
    BY <2>0, <2>1
  <2>4. b = [pc |-> w1, spec |-> w2, start |-> w3, sched |-> w4, t |-> y, added |-> x, limit |-> w7]
    BY <2>2, <2>3
  <2>5. [b EXCEPT !.pc = z] = [pc |-> z, spec |-> w2, start |-> w3, sched |-> w4, t |-> y, added |-> x, limit |-> w7]
    BY <2>4
  <2>6. [c EXCEPT !.added = x, !.t = y, !.pc = z] = [[[c EXCEPT !.added = x] EXCEPT !.t = y] EXCEPT !.pc = z]
    OBVIOUS
  <2> QED
    BY <2>0, <2>1, <2>2, <2>5, <2>6, Zenon DEF Turned
<1>2. PICK d : d = Turned(c, x, y, z)
  OBVIOUS
<1>3. /\ d.pc = z /\ d.spec = c.spec /\ d.start = c.start /\ d.sched = c.sched
      /\ d.t = y /\ d.added = x /\ d.limit = c.limit
  BY <1>1, <1>2
<1>4. Call(d)
  BY <1>1, <1>2, <1>3 DEF Call
<1> QED
  BY <1>2, <1>3, <1>4, Zenon

(* A turn that passes nothing that fits keeps the invariant.               *)
LEMMA TurnKeeps ==
    ASSUME NEW c, Walking(c), c.pc \in WalkPcs, c.pc # "wrap", NEW u \in Int, c.t < u, Aligned(c.sched, u),
           \A v \in Int : c.t <= v /\ v < u => ~Fits(c.sched, v),
           NEW pc \in WalkPcs, pc # "wrap" => Year(u) = Year(c.t), LoopsBehind(c.sched, pc, u)
    PROVE  Walking(Turned(c, TRUE, u, pc)) /\ Turned(c, TRUE, u, pc).pc = pc
<1>1. PICK d : d = Turned(c, TRUE, u, pc)
  OBVIOUS
<1>2. /\ d.pc = pc /\ d.spec = c.spec /\ d.start = c.start /\ d.sched = c.sched
      /\ d.t = u /\ d.added = TRUE /\ d.limit = c.limit /\ Call(d)
  <2>1. PICK b : b = TRUE
    OBVIOUS
  <2>2. d = Turned(c, b, u, pc)
    BY <1>1, <2>1
  <2>3. Call(c)
    BY Zenon DEF Walking
  <2>4. /\ d.pc = pc /\ d.spec = c.spec /\ d.start = c.start /\ d.sched = c.sched
        /\ d.t = u /\ d.added = b /\ d.limit = c.limit /\ Call(d)
    <3>1. LET e == Turned(c, b, u, pc)
          IN  /\ Call(e) /\ e.pc = pc /\ e.spec = c.spec /\ e.start = c.start /\ e.sched = c.sched
              /\ e.t = u /\ e.added = b /\ e.limit = c.limit
      BY <2>3, CallStepped
    <3> QED
      BY <2>2, <3>1, Zenon
  <2> QED
    BY <2>1, <2>4
<1>4. pc \in Pcs /\ pc \notin {"parse", "start"}
  BY DEF Pcs, WalkPcs
<1>5. PICK f : f = First(c.spec, c.start)
  OBVIOUS
<1>6. Walked(c.sched, f, c.t, c.added) /\ Year(c.t) <= c.limit
  BY <1>5, Zenon DEF Walking
<1>7. f \in Int
  BY <1>5, FirstIsInt, Zenon DEF Walking
<1>8. Walked(c.sched, f, u, TRUE)
  <2>1. c.t \in Int /\ f <= c.t
    BY <1>6, Zenon DEF Walked
  <2>2. f <= u
    BY <1>7, <2>1
  <2>3. ASSUME NEW v \in Int, f <= v, v < u PROVE ~Fits(c.sched, v)
    <3>1. CASE v < c.t
      BY <1>6, <2>3, <3>1, Zenon DEF Walked
    <3>2. CASE ~(v < c.t)
      <4>1. c.t <= v
        BY <2>1, <3>2
      <4> QED
        BY <2>3, <4>1, Zenon
    <3> QED
      BY <3>1, <3>2
  <2> QED
    BY <2>2, <2>3, Zenon DEF Walked
<1>9. pc # "wrap" => Year(u) <= c.limit
  BY <1>6, Zenon
<1> QED
  BY <1>1, <1>2, <1>4, <1>5, <1>8, <1>9, Zenon DEF Walking

(* The loops keep the invariant.                                           *)
LEMMA MonthLoopKeeps ==
    ASSUME Walking(cron), MonthLoop
    PROVE  Walking(cron') /\ cron'.pc # "done"
<1>1. cron.pc = "month" /\ cron.pc \in WalkPcs /\ cron.pc # "wrap"
  BY DEF MonthLoop, Loop, WalkPcs
<1>2. PICK s, t : s = cron.sched /\ t = cron.t
  OBVIOUS
<1>3. /\ t \in Int /\ cron.added \in BOOLEAN /\ (cron.added => Aligned(s, t)) /\ Year(t) <= cron.limit
  BY <1>1, <1>2 DEF Walking, Walked
<1>4. LoopsBehind(s, "month", t)
  BY <1>1, <1>2, Zenon DEF Walking
<1>5. TRUE
  BY <1>4 DEF LoopsBehind
<1>6. PICK u : u = (IF cron.added THEN t ELSE t - (Day(t) - 1) * DayLen - (t % DayLen)) + MonthDays[MonthOf(t)] * DayLen
  OBVIOUS
<1>7. PICK pc : pc = IF MonthOf(u) = 1 THEN "wrap" ELSE "month"
  OBVIOUS
<1>8. CASE FitsMonth(s, t)
  <2>1. cron' = Left(cron, "day")
    BY <1>2, <1>8 DEF MonthLoop, Loop, Left, FitsMonth
  <2>2. "day" \in WalkPcs /\ LoopsBehind(cron.sched, "day", cron.t)
    BY <1>2, <1>5, <1>8 DEF WalkPcs, LoopsBehind
  <2>3. Year(cron.t) <= cron.limit
    BY <1>2, <1>3
  <2>4. Walking(Left(cron, "day")) /\ Left(cron, "day").pc = "day"
    BY <1>1, <2>2, <2>3, LeaveKeeps
  <2> QED
    BY <2>1, <2>4
<1>9. CASE ~FitsMonth(s, t)
  <2>1. cron' = Turned(cron, TRUE, u, pc)
    BY <1>1, <1>2, <1>6, <1>7, <1>9 DEF MonthLoop, Loop, Stepped, Turned, FitsMonth
  <2>2. /\ u \in Int /\ t < u /\ Aligned(s, u) /\ \A v \in Int : t <= v /\ v < u => ~Fits(s, v)
        /\ ~(MonthOf(u) = 1) => Year(u) = Year(t) 
    BY <1>3, <1>5, <1>6, <1>9, MonthTurn
  <2>3. pc \in WalkPcs /\ (pc # "wrap" => Year(u) = Year(t)) /\ LoopsBehind(s, pc, u)
    BY <1>7, <2>2 DEF LoopsBehind, WalkPcs
  <2>4. Walking(Turned(cron, TRUE, u, pc)) /\ Turned(cron, TRUE, u, pc).pc = pc
    BY <1>1, <1>2, <2>2, <2>3, TurnKeeps
  <2>5. pc # "done"
    BY <1>7
  <2> QED
    BY <2>1, <2>4, <2>5
<1> QED
  BY <1>8, <1>9

(* The loop of the days.                                                   *)
LEMMA DayLoopKeeps ==
    ASSUME Walking(cron), DayLoop
    PROVE  Walking(cron') /\ cron'.pc # "done"
<1>1. cron.pc = "day" /\ cron.pc \in WalkPcs /\ cron.pc # "wrap"
  BY DEF DayLoop, Loop, WalkPcs
<1>2. PICK s, t : s = cron.sched /\ t = cron.t
  OBVIOUS
<1>3. /\ t \in Int /\ cron.added \in BOOLEAN /\ (cron.added => Aligned(s, t)) /\ Year(t) <= cron.limit
  BY <1>1, <1>2 DEF Walking, Walked
<1>4. LoopsBehind(s, "day", t)
  BY <1>1, <1>2, Zenon DEF Walking
<1>5. FitsMonth(s, t)
  BY <1>4 DEF LoopsBehind
<1>6. PICK u : u = (IF cron.added THEN t ELSE t - (t % DayLen)) + DayLen
  OBVIOUS
<1>7. PICK pc : pc = IF Day(u) = 1 THEN "wrap" ELSE "day"
  OBVIOUS
<1>8. CASE FitsDay(s, t)
  <2>1. cron' = Left(cron, "hour")
    BY <1>2, <1>8 DEF DayLoop, Loop, Left, FitsDay
  <2>2. "hour" \in WalkPcs /\ LoopsBehind(cron.sched, "hour", cron.t)
    BY <1>2, <1>5, <1>8 DEF WalkPcs, LoopsBehind
  <2>3. Year(cron.t) <= cron.limit
    BY <1>2, <1>3
  <2>4. Walking(Left(cron, "hour")) /\ Left(cron, "hour").pc = "hour"
    BY <1>1, <2>2, <2>3, LeaveKeeps
  <2> QED
    BY <2>1, <2>4
<1>9. CASE ~FitsDay(s, t)
  <2>1. cron' = Turned(cron, TRUE, u, pc)
    BY <1>1, <1>2, <1>6, <1>7, <1>9 DEF DayLoop, Loop, Stepped, Turned, FitsDay
  <2>2. /\ u \in Int /\ t < u /\ Aligned(s, u) /\ \A v \in Int : t <= v /\ v < u => ~Fits(s, v)
        /\ ~(Day(u) = 1) => Year(u) = Year(t) /\ FitsMonth(s, u)
    BY <1>3, <1>5, <1>6, <1>9, DayTurn
  <2>3. pc \in WalkPcs /\ (pc # "wrap" => Year(u) = Year(t)) /\ LoopsBehind(s, pc, u)
    BY <1>7, <2>2 DEF LoopsBehind, WalkPcs
  <2>4. Walking(Turned(cron, TRUE, u, pc)) /\ Turned(cron, TRUE, u, pc).pc = pc
    BY <1>1, <1>2, <2>2, <2>3, TurnKeeps
  <2>5. pc # "done"
    BY <1>7
  <2> QED
    BY <2>1, <2>4, <2>5
<1> QED
  BY <1>8, <1>9

(* The loop of the hours.                                                  *)
LEMMA HourLoopKeeps ==
    ASSUME Walking(cron), HourLoop
    PROVE  Walking(cron') /\ cron'.pc # "done"
<1>1. cron.pc = "hour" /\ cron.pc \in WalkPcs /\ cron.pc # "wrap"
  BY DEF HourLoop, Loop, WalkPcs
<1>2. PICK s, t : s = cron.sched /\ t = cron.t
  OBVIOUS
<1>3. /\ t \in Int /\ cron.added \in BOOLEAN /\ (cron.added => Aligned(s, t)) /\ Year(t) <= cron.limit
  BY <1>1, <1>2 DEF Walking, Walked
<1>4. LoopsBehind(s, "hour", t)
  BY <1>1, <1>2, Zenon DEF Walking
<1>5. FitsMonth(s, t) /\ FitsDay(s, t)
  BY <1>4 DEF LoopsBehind
<1>6. PICK u : u = (IF cron.added THEN t ELSE t - (t % HourLen)) + HourLen
  OBVIOUS
<1>7. PICK pc : pc = IF HourOf(u) = 0 THEN "wrap" ELSE "hour"
  OBVIOUS
<1>8. CASE FitsHour(s, t)
  <2>1. cron' = Left(cron, "minute")
    BY <1>2, <1>8 DEF HourLoop, Loop, Left, FitsHour
  <2>2. "minute" \in WalkPcs /\ LoopsBehind(cron.sched, "minute", cron.t)
    BY <1>2, <1>5, <1>8 DEF WalkPcs, LoopsBehind
  <2>3. Year(cron.t) <= cron.limit
    BY <1>2, <1>3
  <2>4. Walking(Left(cron, "minute")) /\ Left(cron, "minute").pc = "minute"
    BY <1>1, <2>2, <2>3, LeaveKeeps
  <2> QED
    BY <2>1, <2>4
<1>9. CASE ~FitsHour(s, t)
  <2>1. cron' = Turned(cron, TRUE, u, pc)
    BY <1>1, <1>2, <1>6, <1>7, <1>9 DEF HourLoop, Loop, Stepped, Turned, FitsHour
  <2>2. /\ u \in Int /\ t < u /\ Aligned(s, u) /\ \A v \in Int : t <= v /\ v < u => ~Fits(s, v)
        /\ ~(HourOf(u) = 0) => Year(u) = Year(t) /\ FitsMonth(s, u) /\ FitsDay(s, u)
    BY <1>3, <1>5, <1>6, <1>9, HourTurn
  <2>3. pc \in WalkPcs /\ (pc # "wrap" => Year(u) = Year(t)) /\ LoopsBehind(s, pc, u)
    BY <1>7, <2>2 DEF LoopsBehind, WalkPcs
  <2>4. Walking(Turned(cron, TRUE, u, pc)) /\ Turned(cron, TRUE, u, pc).pc = pc
    BY <1>1, <1>2, <2>2, <2>3, TurnKeeps
  <2>5. pc # "done"
    BY <1>7
  <2> QED
    BY <2>1, <2>4, <2>5
<1> QED
  BY <1>8, <1>9

(* The loop of the minutes.                                                *)
LEMMA MinuteLoopKeeps ==
    ASSUME Walking(cron), MinuteLoop
    PROVE  Walking(cron') /\ cron'.pc # "done"
<1>1. cron.pc = "minute" /\ cron.pc \in WalkPcs /\ cron.pc # "wrap"
  BY DEF MinuteLoop, Loop, WalkPcs
<1>2. PICK s, t : s = cron.sched /\ t = cron.t
  OBVIOUS
<1>3. /\ t \in Int /\ cron.added \in BOOLEAN /\ (cron.added => Aligned(s, t)) /\ Year(t) <= cron.limit
  BY <1>1, <1>2 DEF Walking, Walked
<1>4. LoopsBehind(s, "minute", t)
  BY <1>1, <1>2, Zenon DEF Walking
<1>5. FitsMonth(s, t) /\ FitsDay(s, t) /\ FitsHour(s, t)
  BY <1>4 DEF LoopsBehind
<1>6. PICK u : u = (IF cron.added THEN t ELSE t - (t % MinuteLen)) + MinuteLen
  OBVIOUS
<1>7. PICK pc : pc = IF MinuteOf(u) = 0 THEN "wrap" ELSE "minute"
  OBVIOUS
<1>8. CASE FitsMinute(s, t)
  <2>1. cron' = Left(cron, "second")
    BY <1>2, <1>8 DEF MinuteLoop, Loop, Left, FitsMinute
  <2>2. "second" \in WalkPcs /\ LoopsBehind(cron.sched, "second", cron.t)
    BY <1>2, <1>5, <1>8 DEF WalkPcs, LoopsBehind
  <2>3. Year(cron.t) <= cron.limit
    BY <1>2, <1>3
  <2>4. Walking(Left(cron, "second")) /\ Left(cron, "second").pc = "second"
    BY <1>1, <2>2, <2>3, LeaveKeeps
  <2> QED
    BY <2>1, <2>4
<1>9. CASE ~FitsMinute(s, t)
  <2>1. cron' = Turned(cron, TRUE, u, pc)
    BY <1>1, <1>2, <1>6, <1>7, <1>9 DEF MinuteLoop, Loop, Stepped, Turned, FitsMinute
  <2>2. /\ u \in Int /\ t < u /\ Aligned(s, u) /\ \A v \in Int : t <= v /\ v < u => ~Fits(s, v)
        /\ ~(MinuteOf(u) = 0) => Year(u) = Year(t) /\ FitsMonth(s, u) /\ FitsDay(s, u) /\ FitsHour(s, u)
    BY <1>3, <1>5, <1>6, <1>9, MinuteTurn
  <2>3. pc \in WalkPcs /\ (pc # "wrap" => Year(u) = Year(t)) /\ LoopsBehind(s, pc, u)
    BY <1>7, <2>2 DEF LoopsBehind, WalkPcs
  <2>4. Walking(Turned(cron, TRUE, u, pc)) /\ Turned(cron, TRUE, u, pc).pc = pc
    BY <1>1, <1>2, <2>2, <2>3, TurnKeeps
  <2>5. pc # "done"
    BY <1>7
  <2> QED
    BY <2>1, <2>4, <2>5
<1> QED
  BY <1>8, <1>9

(* The loop of the seconds.                                                *)
LEMMA SecondLoopKeeps ==
    ASSUME Walking(cron), SecondLoop
    PROVE  Walking(cron') /\ cron'.pc # "done"
<1>1. cron.pc = "second" /\ cron.pc \in WalkPcs /\ cron.pc # "wrap"
  BY DEF SecondLoop, Loop, WalkPcs
<1>2. PICK s, t : s = cron.sched /\ t = cron.t
  OBVIOUS
<1>3. /\ t \in Int /\ cron.added \in BOOLEAN /\ (cron.added => Aligned(s, t)) /\ Year(t) <= cron.limit
  BY <1>1, <1>2 DEF Walking, Walked
<1>4. LoopsBehind(s, "second", t)
  BY <1>1, <1>2, Zenon DEF Walking
<1>5. FitsMonth(s, t) /\ FitsDay(s, t) /\ FitsHour(s, t) /\ FitsMinute(s, t)
  BY <1>4 DEF LoopsBehind
<1>6. PICK u : u = t + 1
  OBVIOUS
<1>7. PICK pc : pc = IF SecondOf(u) = 0 THEN "wrap" ELSE "second"
  OBVIOUS
<1>8. CASE (SecondOf(t) \in s[1])
  <2>1. cron' = Left(cron, "found")
    BY <1>2, <1>8 DEF SecondLoop, Loop, Left
  <2>2. "found" \in WalkPcs /\ LoopsBehind(cron.sched, "found", cron.t)
    BY <1>2, <1>5, <1>8 DEF WalkPcs, LoopsBehind
  <2>3. Year(cron.t) <= cron.limit
    BY <1>2, <1>3
  <2>4. Walking(Left(cron, "found")) /\ Left(cron, "found").pc = "found"
    BY <1>1, <2>2, <2>3, LeaveKeeps
  <2> QED
    BY <2>1, <2>4
<1>9. CASE ~(SecondOf(t) \in s[1])
  <2>1. cron' = Turned(cron, TRUE, u, pc)
    BY <1>1, <1>2, <1>6, <1>7, <1>9 DEF SecondLoop, Loop, Stepped, Turned
  <2>2. /\ u \in Int /\ t < u /\ Aligned(s, u) /\ \A v \in Int : t <= v /\ v < u => ~Fits(s, v)
        /\ ~(SecondOf(u) = 0) => Year(u) = Year(t) /\ FitsMonth(s, u) /\ FitsDay(s, u) /\ FitsHour(s, u) /\ FitsMinute(s, u)
    BY <1>3, <1>5, <1>6, <1>9, SecondTurn
  <2>3. pc \in WalkPcs /\ (pc # "wrap" => Year(u) = Year(t)) /\ LoopsBehind(s, pc, u)
    BY <1>7, <2>2 DEF LoopsBehind, WalkPcs
  <2>4. Walking(Turned(cron, TRUE, u, pc)) /\ Turned(cron, TRUE, u, pc).pc = pc
    BY <1>1, <1>2, <2>2, <2>3, TurnKeeps
  <2>5. pc # "done"
    BY <1>7
  <2> QED
    BY <2>1, <2>4, <2>5
<1> QED
  BY <1>8, <1>9

(* The numbers a step reaches from low.                                    *)
LEMMA Multiples ==
    ASSUME NEW v \in Nat, NEW low \in Nat, low <= v, NEW step \in Nat, step > 0
    PROVE  (v - low) % step = 0 <=> \E k \in 0 .. v : v = low + k * step
<1>1. ASSUME (v - low) % step = 0 PROVE \E k \in 0 .. v : v = low + k * step
  <2>1. PICK k : k = (v - low) \div step
    OBVIOUS
  <2>2. k \in Int /\ v - low = k * step + 0
    <3>1. v - low \in Int
      OBVIOUS
    <3>2. (v - low) \div step \in Int /\ v - low = ((v - low) \div step) * step + ((v - low) % step)
      BY <3>1, Division, Zenon
    <3> QED
      BY <1>1, <2>1, <3>2, Zenon
  <2>3. k * step \in Int /\ v = low + k * step
    BY <2>2
  <2>4. k >= 0
    <3>1. k < 0 => k * step < 0
      BY <2>2
    <3> QED
      BY <2>2, <2>3, <3>1
  <2>5. k <= k * step
    BY <2>2, <2>4
  <2>6. k \in 0 .. v
    BY <2>2, <2>3, <2>4, <2>5
  <2> QED
    BY <2>3, <2>6
<1>2. ASSUME NEW k \in 0 .. v, v = low + k * step PROVE (v - low) % step = 0
  <2>1. k \in Int /\ k * step \in Int
    OBVIOUS
  <2>2. v - low = k * step + 0
    BY <1>2, <2>1
  <2>3. 0 \in Int /\ 0 <= 0 /\ 0 < step
    OBVIOUS
  <2>4. (k * step + 0) % step = 0
    BY <2>1, <2>3, QuotientOf, Zenon
  <2> QED
    BY <2>2, <2>4, Zenon
<1> QED
  BY <1>1, <1>2

(* A range of a field as the parser takes it apart.                        *)
Ranges == [low : Numbers, high : Numbers, step : Numbers]

(* The bits of a range that is not refused are the numbers it stands for,  *)
(* and the star bit is set for a star that leaves none out.                *)
LEMMA RangeMeans ==
    ASSUME NEW r \in Ranges, NEW b, b.min \in Nat, b.max \in Nat, getRange(r, b) # Refused,
           NEW v \in Nat, b.min <= v, v <= b.max
    PROVE  /\ v \in getRange(r, b) <=> InRange(v, r, b)
           /\ Star \in getRange(r, b) <=> r.low = Any /\ r.step \in {None, 1}
           /\ -2 \notin getRange(r, b)
<1> DEFINE star == r.low = Any
           start == IF star THEN b.min ELSE r.low
           end == IF star \/ (r.high = None /\ r.step # None) THEN b.max
                  ELSE IF r.high = None THEN start ELSE r.high
           step == IF r.step = None THEN 1 ELSE r.step
           bits == getBits(start, end, step) \cup (IF star /\ step = 1 THEN {Star} ELSE {})
<1>1. /\ r.low \in Nat \/ r.low = -1 \/ r.low = -2
      /\ r.high \in Nat \/ r.high = -1 \/ r.high = -2
      /\ r.step \in Nat \/ r.step = -1 \/ r.step = -2
  BY DEF Ranges, Numbers, None, NaN
<1>2. /\ getRange(r, b) = bits
      /\ NaN \notin {r.low, IF star THEN None ELSE r.high, r.step}
      /\ ~(start < b.min) /\ ~(end > b.max) /\ ~(start > end) /\ step # 0
  BY DEF getRange
<1>3. /\ start \in Nat /\ end \in Nat /\ step \in Nat /\ step > 0
      /\ b.min <= start /\ start <= end /\ end <= b.max
  BY <1>1, <1>2 DEF Any, None, NaN
<1>4. v \in bits <=> start <= v /\ v <= end /\ (v - start) % step = 0
  BY <1>3 DEF getBits, Star
<1>5. (Star \in bits <=> star /\ step = 1) /\ -2 \notin bits
  BY <1>3 DEF getBits, Star
<1>6. star /\ step = 1 <=> r.low = Any /\ r.step \in {None, 1}
  BY <1>1 DEF None
<1>7. InRange(v, r, b) <=>
        /\ v >= start
        /\ r.high # None /\ r.low # Any => v <= r.high
        /\ r.step # None => \E k \in 0 .. v : v = start + k * r.step
        /\ r.step = None /\ r.high = None /\ r.low # Any => v = start
  BY DEF InRange
<1>8. PICK f, e, g : f = start /\ e = end /\ g = step
  OBVIOUS
<1>9. ASSUME r.step = None PROVE (v - start) % step = 0
  BY <1>3, <1>9
<1>10. ASSUME r.step # None, start <= v
       PROVE  (v - start) % step = 0 <=> \E k \in 0 .. v : v = start + k * r.step
  <2>1. f \in Nat /\ f <= v /\ g \in Nat /\ g > 0 /\ g = r.step
    BY <1>3, <1>8, <1>10
  <2>2. (v - f) % g = 0 <=> \E k \in 0 .. v : v = f + k * g
    BY <2>1, Multiples, ZenonT(60)
  <2> QED
    BY <1>8, <2>1, <2>2, Zenon
<1>11. v \in bits <=> InRange(v, r, b)
  <2> HIDE DEF bits
  <2>1. CASE r.step = None
    BY <1>1, <1>3, <1>4, <1>7, <1>9, <2>1 DEF None, Any
  <2>2. CASE r.step # None
    <3>1. PICK hits \in BOOLEAN : hits <=> \E k \in 0 .. v : v = start + k * r.step
      OBVIOUS
    <3>2. start <= v => ((v - start) % step = 0 <=> hits)
      BY <1>10, <2>2, <3>1, Zenon
    <3>3. InRange(v, r, b) <=> v >= start /\ (r.high # None /\ r.low # Any => v <= r.high) /\ hits
      BY <1>7, <2>2, <3>1, Zenon
    <3>4. v <= end <=> (r.high # None /\ r.low # Any => v <= r.high)
      BY <1>1, <2>2 DEF None, Any
    <3>5. start <= v <=> v >= start
      BY <1>3
    <3> QED
      BY <1>4, <3>2, <3>3, <3>4, <3>5, Zenon
  <2> QED
    BY <2>1, <2>2
<1> QED
  BY <1>2, <1>5, <1>6, <1>11, Zenon

(* The same for a field.                                                   *)
LEMMA FieldMeans ==
    ASSUME NEW field \in Seq(Ranges), NEW b, b.min \in Nat, b.max \in Nat, getField(field, b) # Refused,
           NEW v \in Nat, b.min <= v, v <= b.max
    PROVE  /\ v \in getField(field, b) <=> Wanted(v, field, b)
           /\ Star \in getField(field, b) <=> Unrestricted(field)
<1>1. \A i \in DOMAIN field : field[i] \in Ranges
  OBVIOUS
<1>2. /\ \A i \in DOMAIN field : getRange(field[i], b) # Refused
      /\ getField(field, b) = UNION {getRange(field[i], b) : i \in DOMAIN field}
  <2> DEFINE bits == [i \in DOMAIN field |-> getRange(field[i], b)]
  <2>1. getField(field, b) = IF \E i \in DOMAIN field : bits[i] = Refused THEN Refused
                             ELSE UNION {bits[i] : i \in DOMAIN field}
    BY Zenon DEF getField
  <2>2. \A i \in DOMAIN field : bits[i] = getRange(field[i], b)
    BY Zenon
  <2>3. ~\E i \in DOMAIN field : bits[i] = Refused
    BY <2>1, Zenon
  <2>4. getField(field, b) = UNION {bits[i] : i \in DOMAIN field}
    BY <2>1, <2>3, Zenon
  <2> QED
    BY <2>2, <2>3, <2>4
<1>3. ASSUME NEW i \in DOMAIN field
      PROVE  /\ v \in getRange(field[i], b) <=> InRange(v, field[i], b)
             /\ Star \in getRange(field[i], b) <=> field[i].low = Any /\ field[i].step \in {None, 1}
  BY <1>1, <1>2, RangeMeans, Zenon
<1>4. ASSUME NEW x PROVE x \in getField(field, b) <=> \E i \in DOMAIN field : x \in getRange(field[i], b)
  BY <1>2, Zenon
<1> QED
  BY <1>3, <1>4, Zenon DEF Wanted, Unrestricted

(* The places of the options, as far as i, and how many there are.         *)
Given(options, i) == {j \in 1 .. i : Places[j] \in WithOptional(options)}

(* They can be counted.                                                    *)
LEMMA GivenCount ==
    ASSUME NEW options, NEW i \in 1 .. 6
    PROVE  /\ IsFiniteSet(Given(options, i)) /\ FieldIndex(options, i) = Cardinality(Given(options, i))
           /\ FieldIndex(options, i) \in 0 .. 6
           /\ \A S : S \subseteq Given(options, i) => IsFiniteSet(S) /\ Cardinality(S) \in Nat
                                                      /\ Cardinality(S) <= FieldIndex(options, i)
           /\ i \in Given(options, i) => FieldIndex(options, i) >= 1
<1>1. IsFiniteSet(1 .. i) /\ Cardinality(1 .. i) = i
  <2>1. 1 \in Int /\ i \in Int /\ ~(1 > i) /\ i - 1 + 1 = i
    OBVIOUS
  <2>2. IsFiniteSet(1 .. i) /\ Cardinality(1 .. i) = IF 1 > i THEN 0 ELSE i - 1 + 1
    BY <2>1, FS_Interval
  <2> QED
    BY <2>1, <2>2
<1>2. Given(options, i) \subseteq 1 .. i
  BY DEF Given
<1>3. IsFiniteSet(Given(options, i)) /\ Cardinality(Given(options, i)) <= i
  BY <1>1, <1>2, FS_Subset
<1>4. Cardinality(Given(options, i)) \in Nat
  BY <1>3, FS_CardinalityType
<1>5. FieldIndex(options, i) = Cardinality(Given(options, i))
  BY Zenon DEF FieldIndex, Given
<1>6. ASSUME NEW S, S \subseteq Given(options, i)
      PROVE  IsFiniteSet(S) /\ Cardinality(S) \in Nat /\ Cardinality(S) <= FieldIndex(options, i)
  BY <1>3, <1>5, <1>6, FS_Subset, FS_CardinalityType
<1>7. ASSUME i \in Given(options, i) PROVE FieldIndex(options, i) >= 1
  <2>1. Given(options, i) # {}
    BY <1>7
  <2>2. Cardinality(Given(options, i)) # 0
    BY <1>3, <2>1, FS_EmptySet
  <2> QED
    BY <1>4, <1>5, <2>2
<1>8. FieldIndex(options, i) \in 0 .. 6
  BY <1>3, <1>4, <1>5
<1> QED
  BY <1>3, <1>5, <1>6, <1>7, <1>8, Zenon

(* The places grow with i.                                                 *)
LEMMA GivenGrows ==
    ASSUME NEW options, NEW i \in 1 .. 6
    PROVE  /\ Given(options, i) \subseteq Given(options, 6)
           /\ FieldIndex(options, i) <= FieldIndex(options, 6)
           /\ {j \in Given(options, 6) : j <= i} = Given(options, i)
<1>1. 6 \in 1 .. 6
  OBVIOUS
<1>2. Given(options, i) \subseteq Given(options, 6)
  BY DEF Given
<1>3. {j \in Given(options, 6) : j <= i} = Given(options, i)
  BY DEF Given
<1>4. FieldIndex(options, i) <= FieldIndex(options, 6)
  BY <1>1, <1>2, GivenCount, Zenon
<1> QED
  BY <1>2, <1>3, <1>4

(* How many fields an expression may have, and the most.                   *)
LEMMA FieldCounts ==
    ASSUME NEW options
    PROVE  /\ FieldIndex(options, 6) \in FieldCount(options)
           /\ \A n \in FieldCount(options) :
                /\ n \in Nat /\ n <= FieldIndex(options, 6)
                /\ n = FieldIndex(options, 6) \/
                   (n = FieldIndex(options, 6) - 1 /\ options \cap DOMAIN Optional # {})
           /\ (CHOOSE n \in FieldCount(options) : \A k \in FieldCount(options) : k <= n) = FieldIndex(options, 6)
<1>1. PICK max : max = FieldIndex(options, 6)
  OBVIOUS
<1>2. max \in 0 .. 6
  <2>1. 6 \in 1 .. 6
    OBVIOUS
  <2> QED
    BY <1>1, <2>1, GivenCount
<1>3. PICK o : o = IF options \cap DOMAIN Optional # {} THEN 1 ELSE 0
  OBVIOUS
<1>4. FieldCount(options) = {n \in 0 .. 6 : max - o <= n /\ n <= max}
  BY <1>1, <1>3, Zenon DEF FieldCount
<1>5. o \in {0, 1} /\ (o = 1 => options \cap DOMAIN Optional # {})
  BY <1>3
<1>6. max \in FieldCount(options)
  BY <1>2, <1>4, <1>5
<1>7. \A n \in FieldCount(options) : /\ n \in Nat /\ n <= max
                                     /\ n = max \/ (n = max - 1 /\ options \cap DOMAIN Optional # {})
  BY <1>2, <1>4, <1>5
<1>8. (CHOOSE n \in FieldCount(options) : \A k \in FieldCount(options) : k <= n) = max
  <2>1. \A n \in FieldCount(options) : (\A k \in FieldCount(options) : k <= n) <=> n = max
    BY <1>2, <1>6, <1>7
  <2> QED
    BY <1>6, <2>1
<1> QED
  BY <1>1, <1>6, <1>7, <1>8, Zenon

(* The optional field is one of those of the options.                      *)
LEMMA OptionalGiven ==
    ASSUME NEW options
    PROVE  /\ "DowOptional" \in options => 6 \in Given(options, 6)
           /\ "SecondOptional" \in options => 1 \in Given(options, 1)
           /\ options \cap DOMAIN Optional # {} => "DowOptional" \in options \/ "SecondOptional" \in options
<1>1. DOMAIN Optional = {"SecondOptional", "DowOptional"}
  BY DEF Optional
<1>2. Optional["DowOptional"] = "Dow" /\ Optional["SecondOptional"] = "Second"
  BY DEF Optional
<1>3. Places[6] = "Dow" /\ Places[1] = "Second"
  BY DEF Places
<1>4. ASSUME "DowOptional" \in options PROVE 6 \in Given(options, 6)
  <2>1. "Dow" \in WithOptional(options)
    BY <1>1, <1>2, <1>4, Zenon DEF WithOptional
  <2> QED
    BY <1>3, <2>1 DEF Given
<1>5. ASSUME "SecondOptional" \in options PROVE 1 \in Given(options, 1)
  <2>1. "Second" \in WithOptional(options)
    BY <1>1, <1>2, <1>5, Zenon DEF WithOptional
  <2> QED
    BY <1>3, <2>1 DEF Given
<1>6. options \cap DOMAIN Optional # {} => "DowOptional" \in options \/ "SecondOptional" \in options
  BY <1>1, Zenon
<1> QED
  BY <1>4, <1>5, <1>6

(* The field that a place has by default.                                  *)
DefaultField(i) == <<Range1(IF i <= 3 THEN 0 ELSE Any, None, None)>>

(* It is a field.                                                          *)
LEMMA DefaultFields ==
    ASSUME NEW i \in 1 .. 6
    PROVE  Defaults[i] = DefaultField(i) /\ DefaultField(i) \in Seq(Ranges)
<1>1. Range1(IF i <= 3 THEN 0 ELSE Any, None, None) \in Ranges
  BY DEF Range1, Ranges, Numbers, Any, None
<1> QED
  BY <1>1 DEF Defaults, DefaultField

(* What the parser fills in for a place is the field that the expression   *)
(* gives it, or its default.                                               *)
LEMMA NormalizeMeans ==
    ASSUME NEW spec \in Specs, ~NewParserPanics(spec.options), Len(spec.fields) \in FieldCount(spec.options),
           NEW i \in 1 .. 6
    PROVE  /\ normalizeFields(spec.fields, spec.options)[i] = FieldOf(spec, i)
           /\ FieldOf(spec, i) \in Seq(Ranges)
<1>1. PICK options, fields : options = spec.options /\ fields = spec.fields
  OBVIOUS
<1>2. fields \in Seq(Seq(Ranges)) /\ Len(fields) \in FieldCount(options)
  BY <1>1, SpecsAssumption DEF Ranges
<1>3. PICK max, n, G : max = FieldIndex(options, 6) /\ n = FieldIndex(options, i) /\ G = Given(options, 6)
  OBVIOUS
<1>4. /\ n \in 0 .. 6 /\ max \in 0 .. 6 /\ n <= max /\ (i \in Given(options, i) => n >= 1)
      /\ n = Cardinality(Given(options, i)) /\ {j \in G : j <= i} = Given(options, i)
      /\ IsFiniteSet(Given(options, i))
  <2>1. 6 \in 1 .. 6
    OBVIOUS
  <2> QED
    BY <1>3, <2>1, GivenCount, GivenGrows
<1>5. /\ Len(fields) \in Nat
      /\ Len(fields) = max \/ (Len(fields) = max - 1 /\ options \cap DOMAIN Optional # {})
  BY <1>2, <1>3, FieldCounts
<1>6. i \in G <=> i \in Given(options, i)
  BY <1>3 DEF Given
<1>7. i \in G <=> Places[i] \in WithOptional(options)
  BY <1>3 DEF Given
<1>8. PICK given : given = IF Len(fields) = max THEN fields
                           ELSE IF "DowOptional" \in options THEN Append(fields, Defaults[6])
                           ELSE <<Defaults[1]>> \o fields
  OBVIOUS
<1>9. normalizeFields(fields, options)[i] = IF i \in G THEN given[n] ELSE DefaultField(i)
  BY <1>3, <1>7, <1>8, DefaultFields DEF normalizeFields
<1>10. PICK omitted : omitted = IF ~(Len(fields) < max) THEN {} ELSE IF "DowOptional" \in options THEN {6} ELSE {1}
  OBVIOUS
<1>11. FieldOf(spec, i) = IF i \in G \ omitted THEN fields[Cardinality({j \in G \ omitted : j <= i})]
                          ELSE DefaultField(i)
  <2>1. (CHOOSE k \in FieldCount(options) : \A l \in FieldCount(options) : l <= k) = max
    BY <1>3, FieldCounts, Zenon
  <2>2. G = {j \in 1 .. 6 : Places[j] \in WithOptional(options)}
    BY <1>3, Zenon DEF Given
  <2> QED
    BY <1>1, <1>10, <2>1, <2>2, Zenon DEF FieldOf, DefaultField
<1>12. DefaultField(i) \in Seq(Ranges) /\ Defaults[6] = DefaultField(6) /\ Defaults[1] = DefaultField(1)
  <2>1. 6 \in 1 .. 6 /\ 1 \in 1 .. 6
    OBVIOUS
  <2> QED
    BY <2>1, DefaultFields, Zenon
<1>13. \A k \in 1 .. Len(fields) : fields[k] \in Seq(Ranges)
  BY <1>2
<1>14. SUFFICES /\ normalizeFields(fields, options)[i] = FieldOf(spec, i)
                /\ FieldOf(spec, i) \in Seq(Ranges)
  BY <1>1, Zenon
<1>15. CASE i \notin G
  BY <1>9, <1>11, <1>12, <1>15, Zenon
<1>16. CASE i \in G /\ Len(fields) = max
  <2>1. omitted = {} /\ given = fields
    BY <1>4, <1>8, <1>10, <1>16
  <2>2. G \ omitted = G
    BY <2>1, Zenon
  <2>3. FieldOf(spec, i) = fields[n]
    BY <1>4, <1>11, <1>16, <2>2, Zenon
  <2>4. n \in 1 .. Len(fields)
    BY <1>4, <1>6, <1>16
  <2> QED
    BY <1>9, <1>13, <1>16, <2>1, <2>3, <2>4, Zenon
<1>17. CASE i \in G /\ Len(fields) # max /\ "DowOptional" \in options
  <2>1. Len(fields) = max - 1 /\ Len(fields) < max
    BY <1>4, <1>5, <1>17
  <2>2. omitted = {6} /\ given = Append(fields, DefaultField(6))
    BY <1>8, <1>10, <1>12, <1>17, <2>1, Zenon
  <2>3. CASE i = 6
    <3>0. n = max
      BY <1>3, <2>3, Zenon
    <3>1. n = Len(fields) + 1
      BY <1>4, <1>5, <2>1, <3>0
    <3>2. given[n] = DefaultField(6)
      BY <1>2, <2>2, <3>1
    <3>3. FieldOf(spec, i) = DefaultField(i)
      BY <1>11, <2>2, <2>3, Zenon
    <3> QED
      BY <1>9, <1>12, <1>17, <2>3, <3>2, <3>3, Zenon
  <2>4. CASE i # 6
    <3>1. {j \in G \ omitted : j <= i} = Given(options, i)
      <4>1. \A j \in G : j <= i => j # 6
        BY <2>4
      <4> QED
        BY <1>4, <2>2, <4>1
    <3>2. i \in G \ omitted
      BY <1>17, <2>2, <2>4
    <3>3. FieldOf(spec, i) = fields[n]
      BY <1>4, <1>11, <3>1, <3>2, Zenon
    <3>4. n <= Len(fields)
      <4>1. 6 \in G /\ IsFiniteSet(G) /\ max = Cardinality(G)
        <5>1. 6 \in 1 .. 6
          OBVIOUS
        <5> QED
          BY <1>3, <1>17, <5>1, OptionalGiven, GivenCount, Zenon
      <4>2. IsFiniteSet(G \ {6}) /\ Cardinality(G \ {6}) = max - 1
        BY <4>1, FS_RemoveElement
      <4>3. Given(options, i) \subseteq G \ {6}
        BY <2>2, <3>1
      <4>4. Cardinality(Given(options, i)) <= Cardinality(G \ {6})
        BY <4>2, <4>3, FS_Subset
      <4> QED
        BY <1>4, <2>1, <4>2, <4>4
    <3>5. n \in 1 .. Len(fields)
      BY <1>4, <1>5, <1>6, <1>17, <3>4
    <3>6. given[n] = fields[n]
      BY <1>2, <2>2, <3>5
    <3> QED
      BY <1>9, <1>13, <1>17, <3>3, <3>5, <3>6, Zenon
  <2> QED
    BY <2>3, <2>4
<1>18. CASE i \in G /\ Len(fields) # max /\ "DowOptional" \notin options
  <2>1. Len(fields) = max - 1 /\ Len(fields) < max /\ options \cap DOMAIN Optional # {}
    BY <1>4, <1>5, <1>18
  <2>2. omitted = {1} /\ given = <<DefaultField(1)>> \o fields
    BY <1>8, <1>10, <1>12, <1>18, <2>1, Zenon
  <2>3. "SecondOptional" \in options
    BY <1>18, <2>1, OptionalGiven, Zenon
  <2>4. 1 \in Given(options, 1)
    BY <2>3, OptionalGiven, Zenon
  <2>5. 1 \in Given(options, i)
    BY <2>4 DEF Given
  <2>6. CASE i = 1
    <3>1. Given(options, 1) = {1}
      BY <2>4 DEF Given
    <3>2. n = 1
      BY <1>4, <2>6, <3>1, FS_Singleton
    <3>3. given[1] = DefaultField(1)
      BY <1>2, <2>2
    <3>4. FieldOf(spec, i) = DefaultField(i)
      BY <1>11, <2>2, <2>6, Zenon
    <3> QED
      BY <1>9, <1>12, <1>18, <2>6, <3>2, <3>3, <3>4, Zenon
  <2>7. CASE i # 1
    <3>1. {j \in G \ omitted : j <= i} = Given(options, i) \ {1}
      BY <1>4, <2>2
    <3>2. Cardinality(Given(options, i) \ {1}) = n - 1
      BY <1>4, <2>5, FS_RemoveElement
    <3>3. i \in G \ omitted
      BY <1>18, <2>2, <2>7
    <3>4. FieldOf(spec, i) = fields[n - 1]
      BY <1>11, <3>1, <3>2, <3>3, Zenon
    <3>5. n >= 2
      <4>1. i \in Given(options, i) \ {1}
        BY <1>6, <1>18, <2>7
      <4>2. IsFiniteSet(Given(options, i) \ {1}) /\ Given(options, i) \ {1} # {}
        BY <1>4, <4>1, FS_RemoveElement
      <4>3. Cardinality(Given(options, i) \ {1}) # 0
        BY <4>2, FS_EmptySet
      <4> QED
        BY <1>4, <1>6, <1>18, <3>2, <4>3
    <3>6. n - 1 \in 1 .. Len(fields)
      BY <1>4, <1>5, <2>1, <3>5
    <3>7. given[n] = fields[n - 1]
      BY <1>2, <1>4, <2>2, <3>6, SMTT(90)
    <3> QED
      BY <1>9, <1>13, <1>18, <3>4, <3>6, <3>7, Zenon
  <2> QED
    BY <2>6, <2>7
<1> QED
  BY <1>15, <1>16, <1>17, <1>18

(* The days of the longest month.                                          *)
LEMMA LongestIs ==
    LongestMonth \in Nat /\ LongestMonth > 0 /\ \A m \in 1 .. Months : MonthDays[m] <= LongestMonth
<1> DEFINE S == {k \in Nat : k <= Months - 1 /\ \E m \in 1 .. k + 1 : \A j \in 1 .. k + 1 : MonthDays[j] <= MonthDays[m]}
<1>1. /\ Months \in Nat /\ Months > 0 /\ DOMAIN MonthDays = 1 .. Months
      /\ \A m \in 1 .. Months : MonthDays[m] \in Nat /\ MonthDays[m] > 0
  BY DaysAddUp
<1>2. 0 \in S
  <2>1. \A j \in 1 .. 0 + 1 : j = 1
    OBVIOUS
  <2>2. MonthDays[1] <= MonthDays[1] /\ 1 \in 1 .. 0 + 1
    BY <1>1
  <2> QED
    BY <1>1, <2>1, <2>2
<1>3. ASSUME NEW k \in 0 .. Months - 1 - 1, k \in S PROVE k + 1 \in S
  <2>1. PICK m \in 1 .. k + 1 : \A j \in 1 .. k + 1 : MonthDays[j] <= MonthDays[m]
    BY <1>3
  <2>2. /\ k \in Nat /\ k + 1 \in Nat /\ k + 1 <= Months - 1 /\ m \in 1 .. k + 1 + 1 /\ k + 1 + 1 \in 1 .. k + 1 + 1
        /\ m \in 1 .. Months /\ k + 1 + 1 \in 1 .. Months
        /\ \A j \in 1 .. k + 1 + 1 : j = k + 1 + 1 \/ j \in 1 .. k + 1
    BY <1>1
  <2>3. PICK x, y : x = MonthDays[m] /\ y = MonthDays[k + 1 + 1]
    OBVIOUS
  <2>4. x \in Nat /\ y \in Nat /\ y <= y /\ (y <= x \/ x <= y)
    BY <1>1, <2>2, <2>3
  <2>5. CASE y <= x
    <3>1. \A j \in 1 .. k + 1 + 1 : MonthDays[j] <= MonthDays[m]
      BY <2>1, <2>2, <2>3, <2>5, Zenon
    <3> QED
      BY <2>2, <3>1
  <2>6. CASE x <= y
    <3>1. ASSUME NEW j \in 1 .. k + 1 PROVE MonthDays[j] <= y
      <4>1. MonthDays[j] \in Nat /\ MonthDays[j] <= x
        BY <1>1, <2>1, <2>2, <2>3
      <4> QED
        BY <2>4, <2>6, <4>1
    <3>2. \A j \in 1 .. k + 1 + 1 : MonthDays[j] <= MonthDays[k + 1 + 1]
      BY <2>2, <2>3, <2>4, <3>1, Zenon
    <3> QED
      BY <2>2, <3>2
  <2> QED
    BY <2>4, <2>5, <2>6
<1>4. Months - 1 \in S
  <2> HIDE DEF S
  <2>1. \A k \in 0 .. Months - 1 : k \in S
    <3>1. Months - 1 \in Nat
      BY <1>1
    <3> QED
      BY <1>2, <1>3, <3>1, UpTo
  <2> QED
    BY <1>1, <2>1
<1>5. PICK m \in 1 .. Months : \A j \in 1 .. Months : MonthDays[j] <= MonthDays[m]
  <2>1. Months - 1 + 1 = Months
    BY <1>1
  <2>2. \E m \in 1 .. Months - 1 + 1 : \A j \in 1 .. Months - 1 + 1 : MonthDays[j] <= MonthDays[m]
    BY <1>4
  <2> QED
    BY <2>1, <2>2, Zenon
<1>6. \E n \in {MonthDays[j] : j \in DOMAIN MonthDays} : \A j \in DOMAIN MonthDays : MonthDays[j] <= n
  BY <1>1, <1>5, Zenon
<1>7. /\ LongestMonth \in {MonthDays[j] : j \in DOMAIN MonthDays}
      /\ \A j \in DOMAIN MonthDays : MonthDays[j] <= LongestMonth
  BY <1>6, Zenon DEF LongestMonth
<1> QED
  BY <1>1, <1>7

(* The bounds of the places.                                               *)
LEMMA BoundsAre ==
    /\ Bounds[1].min = 0 /\ Bounds[1].max = Seconds - 1 /\ Bounds[2].min = 0 /\ Bounds[2].max = Minutes - 1
    /\ Bounds[3].min = 0 /\ Bounds[3].max = Hours - 1 /\ Bounds[4].min = 1 /\ Bounds[4].max = LongestMonth
    /\ Bounds[5].min = 1 /\ Bounds[5].max = Months /\ Bounds[6].min = 0 /\ Bounds[6].max = Week - 1
    /\ \A i \in 1 .. 6 : Bounds[i].min \in Nat /\ Bounds[i].max \in Nat
<1>1. /\ Bounds[1].min = 0 /\ Bounds[1].max = Seconds - 1 /\ Bounds[2].min = 0 /\ Bounds[2].max = Minutes - 1
      /\ Bounds[3].min = 0 /\ Bounds[3].max = Hours - 1 /\ Bounds[4].min = 1 /\ Bounds[4].max = LongestMonth
      /\ Bounds[5].min = 1 /\ Bounds[5].max = Months /\ Bounds[6].min = 0 /\ Bounds[6].max = Week - 1
  BY DEF Bounds, Months
<1>2. /\ Seconds - 1 \in Nat /\ Minutes - 1 \in Nat /\ Hours - 1 \in Nat /\ Week - 1 \in Nat
      /\ LongestMonth \in Nat /\ Months \in Nat
  <2>1. /\ Seconds \in Nat /\ Seconds > 0 /\ Minutes \in Nat /\ Minutes > 0 /\ Hours \in Nat /\ Hours > 0
        /\ Week \in Nat /\ Week > 0
    BY CalendarAssumption
  <2>2. LongestMonth \in Nat /\ Months \in Nat
    BY LongestIs, DaysAddUp, Zenon
  <2> QED
    BY <2>1, <2>2
<1>3. \A i \in 1 .. 6 : i = 1 \/ i = 2 \/ i = 3 \/ i = 4 \/ i = 5 \/ i = 6
  OBVIOUS
<1> QED
  BY <1>1, <1>2, <1>3

(* The field of a time for a place, and it is in its bounds.               *)
At(t, i) == CASE i = 1 -> SecondOf(t) [] i = 2 -> MinuteOf(t) [] i = 3 -> HourOf(t)
              [] i = 4 -> Day(t) [] i = 5 -> MonthOf(t) [] OTHER -> Weekday(t)

(* So it is one the parser accepts.                                        *)
LEMMA InBounds ==
    ASSUME NEW t \in Int, NEW i \in 1 .. 6
    PROVE  At(t, i) \in Nat /\ Bounds[i].min <= At(t, i) /\ At(t, i) <= Bounds[i].max
<1>1. /\ SecondOf(t) \in 0 .. Seconds - 1 /\ MinuteOf(t) \in 0 .. Minutes - 1
      /\ HourOf(t) \in 0 .. Hours - 1 /\ Weekday(t) \in 0 .. Week - 1
  BY Fields, Zenon
<1>2. MonthOf(t) \in 1 .. Months /\ Day(t) \in 1 .. MonthDays[MonthOf(t)]
  BY Dates, Zenon
<1>3. Day(t) \in 1 .. LongestMonth
  <2>1. MonthDays[MonthOf(t)] <= LongestMonth /\ MonthDays[MonthOf(t)] \in Nat /\ LongestMonth \in Nat
    BY <1>2, LongestIs, DaysAddUp
  <2> QED
    BY <1>2, <2>1
<1>4. /\ Seconds - 1 \in Int /\ Minutes - 1 \in Int /\ Hours - 1 \in Int /\ Week - 1 \in Int /\ Months \in Int
      /\ LongestMonth \in Int
  <2>1. Seconds \in Nat /\ Minutes \in Nat /\ Hours \in Nat /\ Week \in Nat
    BY CalendarAssumption
  <2>2. LongestMonth \in Nat /\ Months \in Nat
    BY LongestIs, DaysAddUp, Zenon
  <2> QED
    BY <2>1, <2>2
<1>5. ASSUME i = 1 PROVE At(t, i) \in Nat /\ Bounds[i].min <= At(t, i) /\ At(t, i) <= Bounds[i].max
  BY <1>1, <1>4, <1>5, BoundsAre DEF At
<1>6. ASSUME i = 2 PROVE At(t, i) \in Nat /\ Bounds[i].min <= At(t, i) /\ At(t, i) <= Bounds[i].max
  BY <1>1, <1>4, <1>6, BoundsAre DEF At
<1>7. ASSUME i = 3 PROVE At(t, i) \in Nat /\ Bounds[i].min <= At(t, i) /\ At(t, i) <= Bounds[i].max
  BY <1>1, <1>4, <1>7, BoundsAre DEF At
<1>8. ASSUME i = 4 PROVE At(t, i) \in Nat /\ Bounds[i].min <= At(t, i) /\ At(t, i) <= Bounds[i].max
  BY <1>3, <1>4, <1>8, BoundsAre DEF At
<1>9. ASSUME i = 5 PROVE At(t, i) \in Nat /\ Bounds[i].min <= At(t, i) /\ At(t, i) <= Bounds[i].max
  BY <1>2, <1>4, <1>9, BoundsAre DEF At
<1>10. ASSUME i = 6 PROVE At(t, i) \in Nat /\ Bounds[i].min <= At(t, i) /\ At(t, i) <= Bounds[i].max
  BY <1>1, <1>4, <1>10, BoundsAre DEF At
<1> QED
  BY <1>5, <1>6, <1>7, <1>8, <1>9, <1>10

(* The starts of days and of years.                                        *)
LEMMA StartsOf ==
    ASSUME NEW t \in Int
    PROVE  /\ t % HourLen = 0 <=> SecondOf(t) = 0 /\ MinuteOf(t) = 0
           /\ t % DayLen = 0 <=> SecondOf(t) = 0 /\ MinuteOf(t) = 0 /\ HourOf(t) = 0
           /\ t % YearLen = 0 <=> t % DayLen = 0 /\ Day(t) = 1 /\ MonthOf(t) = 1
<1>1. /\ t % HourLen = 0 <=> SecondOf(t) = 0 /\ MinuteOf(t) = 0
      /\ t % DayLen = 0 <=> SecondOf(t) = 0 /\ MinuteOf(t) = 0 /\ HourOf(t) = 0
  BY Fields, Zenon DEF SecondOf
<1>2. t % YearLen = 0 <=> t % DayLen = 0 /\ DayOfYear(t) = 0
  <2>1. DayLen \in Nat /\ DayLen > 0 /\ YearDays \in Nat /\ YearDays > 0
    BY Lengths, Dates, Zenon
  <2>2. t % (YearDays * DayLen) = 0 <=> t % DayLen = 0 /\ (t \div DayLen) % YearDays = 0
    BY <2>1, UnitWithin, Zenon
  <2>3. YearLen = YearDays * DayLen
    BY DEF YearLen, YearDays, Months
  <2>4. DayOfYear(t) = (t \div DayLen) % YearDays
    BY Dates, Zenon
  <2> QED
    BY <2>2, <2>3, <2>4, Zenon
<1>3. DayOfYear(t) = 0 <=> Day(t) = 1 /\ MonthOf(t) = 1
  <2>1. /\ DayOfYear(t) \in Nat /\ DaysBefore[1] = 0 /\ 1 \in 1 .. Months
        /\ DaysBefore[1 + 1] = DaysBefore[1] + MonthDays[1] /\ MonthDays[1] \in Nat /\ MonthDays[1] > 0
    <3>1. DayOfYear(t) \in Nat
      BY Dates, Zenon
    <3>2. Months \in Nat /\ Months > 0
      BY DaysAddUp
    <3> QED
      BY <3>1, <3>2, DaysAddUp
  <2>2. ASSUME DayOfYear(t) = 0 PROVE MonthOf(t) = 1
    <3>1. DaysBefore[1] <= DayOfYear(t) /\ DayOfYear(t) < DaysBefore[1 + 1]
      BY <2>1, <2>2
    <3> QED
      BY <2>1, <3>1, MonthIs
  <2>3. ASSUME MonthOf(t) = 1 PROVE Day(t) = 1 <=> DayOfYear(t) = 0
    <3>1. Day(t) = DayOfYear(t) - 0 + 1
      BY <2>1, <2>3 DEF Day
    <3> QED
      BY <2>1, <3>1
  <2> QED
    BY <2>2, <2>3
<1> QED
  BY <1>1, <1>2, <1>3, Zenon

(* The bit sets of an expression that is not refused are what it means.    *)
LEMMA FieldsMean ==
    ASSUME NEW spec \in Specs, ~NewParserPanics(spec.options), spec.kind # "descriptor", Parse(spec) # <<>>,
           NEW t \in Int
    PROVE  Fits(Parse(spec), t) <=> DueAt(spec, t)
<1>1. PICK s : s = Parse(spec)
  OBVIOUS
<1> DEFINE field(i) == normalizeFields(spec.fields, spec.options)[i]
<1>2. /\ Len(spec.fields) \in FieldCount(spec.options)
      /\ s = [i \in 1 .. 6 |-> getField(field(i), Bounds[i])]
      /\ \A i \in 1 .. 6 : getField(field(i), Bounds[i]) # Refused
  <2> DEFINE bits == [i \in 1 .. 6 |-> getField(field(i), Bounds[i])]
  <2>1. Parse(spec) = IF Len(spec.fields) \in FieldCount(spec.options) /\ \A i \in 1 .. 6 : bits[i] # Refused
                      THEN bits ELSE <<>>
    BY Zenon DEF Parse
  <2>2. Len(spec.fields) \in FieldCount(spec.options) /\ \A i \in 1 .. 6 : bits[i] # Refused
    BY <2>1, Zenon
  <2>3. Parse(spec) = bits
    BY <2>1, <2>2, Zenon
  <2>4. \A i \in 1 .. 6 : bits[i] = getField(field(i), Bounds[i])
    BY Zenon
  <2> QED
    BY <1>1, <2>2, <2>3, <2>4, Zenon
<1>3. ASSUME NEW i \in 1 .. 6
      PROVE  /\ At(t, i) \in s[i] <=> Wanted(At(t, i), FieldOf(spec, i), Bounds[i])
             /\ Star \in s[i] <=> Unrestricted(FieldOf(spec, i))
  <2>1. field(i) = FieldOf(spec, i) /\ FieldOf(spec, i) \in Seq(Ranges)
    BY <1>2, NormalizeMeans, Zenon
  <2>2. s[i] = getField(FieldOf(spec, i), Bounds[i]) /\ getField(FieldOf(spec, i), Bounds[i]) # Refused
    <3>1. s[i] = getField(field(i), Bounds[i]) /\ getField(field(i), Bounds[i]) # Refused
      BY <1>2, Zenon
    <3> QED
      BY <2>1, <3>1, Zenon
  <2>3. Bounds[i].min \in Nat /\ Bounds[i].max \in Nat
    BY BoundsAre, Zenon
  <2>4. At(t, i) \in Nat /\ Bounds[i].min <= At(t, i) /\ At(t, i) <= Bounds[i].max
    BY InBounds, Zenon
  <2>5. PICK f, b, v : f = FieldOf(spec, i) /\ b = Bounds[i] /\ v = At(t, i)
    OBVIOUS
  <2>6. /\ f \in Seq(Ranges) /\ b.min \in Nat /\ b.max \in Nat /\ getField(f, b) # Refused
        /\ v \in Nat /\ b.min <= v /\ v <= b.max
    BY <2>1, <2>2, <2>3, <2>4, <2>5, Zenon
  <2>7. (v \in getField(f, b) <=> Wanted(v, f, b)) /\ (Star \in getField(f, b) <=> Unrestricted(f))
    BY <2>6, FieldMeans, Zenon
  <2> QED
    BY <2>2, <2>5, <2>7, Zenon
<1>4. /\ At(t, 1) = SecondOf(t) /\ At(t, 2) = MinuteOf(t) /\ At(t, 3) = HourOf(t)
      /\ At(t, 4) = Day(t) /\ At(t, 5) = MonthOf(t) /\ At(t, 6) = Weekday(t)
  BY DEF At
<1>5. /\ SecondOf(t) \in s[1] <=> Wanted(SecondOf(t), FieldOf(spec, 1), Bounds[1])
      /\ MinuteOf(t) \in s[2] <=> Wanted(MinuteOf(t), FieldOf(spec, 2), Bounds[2])
      /\ HourOf(t) \in s[3] <=> Wanted(HourOf(t), FieldOf(spec, 3), Bounds[3])
      /\ Day(t) \in s[4] <=> Wanted(Day(t), FieldOf(spec, 4), Bounds[4])
      /\ MonthOf(t) \in s[5] <=> Wanted(MonthOf(t), FieldOf(spec, 5), Bounds[5])
      /\ Weekday(t) \in s[6] <=> Wanted(Weekday(t), FieldOf(spec, 6), Bounds[6])
      /\ Star \in s[4] <=> Unrestricted(FieldOf(spec, 4))
      /\ Star \in s[6] <=> Unrestricted(FieldOf(spec, 6))
  <2>1. 1 \in 1 .. 6 /\ 2 \in 1 .. 6 /\ 3 \in 1 .. 6 /\ 4 \in 1 .. 6 /\ 5 \in 1 .. 6 /\ 6 \in 1 .. 6
    OBVIOUS
  <2> QED
    BY <1>3, <1>4, <2>1
<1>6. Fits(s, t) <=> DueAt(spec, t)
  BY <1>5 DEF Fits, FitsMonth, FitsDay, FitsHour, FitsMinute, dayMatches, DueAt
<1> QED
  BY <1>1, <1>6

(* And so are those of a descriptor.                                       *)
LEMMA DescriptorMeans ==
    ASSUME NEW spec, spec.kind = "descriptor", Parse(spec) # <<>>, NEW t \in Int
    PROVE  Fits(Parse(spec), t) <=> DueAt(spec, t)
<1>1. PICK s, name : s = Parse(spec) /\ name = spec.name
  OBVIOUS
<1> DEFINE pinned(i) == i <= Pinned[name] \/ (name = "weekly" /\ i = 6)
<1>2. s = parseDescriptor(name) /\ name \in DOMAIN Pinned
  BY <1>1 DEF Parse
<1>3. ASSUME NEW i \in 1 .. 6
      PROVE  /\ At(t, i) \in s[i] <=> (pinned(i) => At(t, i) = Bounds[i].min)
             /\ Star \in s[i] <=> ~pinned(i)
  <2>1. s[i] = IF pinned(i) THEN {Bounds[i].min} ELSE all(Bounds[i])
    BY <1>2 DEF parseDescriptor
  <2>2. PICK b, v : b = Bounds[i] /\ v = At(t, i)
    OBVIOUS
  <2>3. b.min \in Nat /\ b.max \in Nat /\ v \in Nat /\ b.min <= v /\ v <= b.max
    BY <2>2, BoundsAre, InBounds
  <2>4. v \in all(b) /\ Star \in all(b) /\ Star \notin {b.min}
    BY <2>3 DEF all, getBits, Star
  <2> QED
    BY <2>1, <2>2, <2>4, Zenon
<1>4. /\ At(t, 1) = SecondOf(t) /\ At(t, 2) = MinuteOf(t) /\ At(t, 3) = HourOf(t)
      /\ At(t, 4) = Day(t) /\ At(t, 5) = MonthOf(t) /\ At(t, 6) = Weekday(t)
  BY DEF At
<1>5. /\ SecondOf(t) \in s[1] <=> (pinned(1) => SecondOf(t) = 0)
      /\ MinuteOf(t) \in s[2] <=> (pinned(2) => MinuteOf(t) = 0)
      /\ HourOf(t) \in s[3] <=> (pinned(3) => HourOf(t) = 0)
      /\ Day(t) \in s[4] <=> (pinned(4) => Day(t) = 1)
      /\ MonthOf(t) \in s[5] <=> (pinned(5) => MonthOf(t) = 1)
      /\ Weekday(t) \in s[6] <=> (pinned(6) => Weekday(t) = 0)
      /\ Star \in s[4] <=> ~pinned(4)
      /\ Star \in s[6] <=> ~pinned(6)
  <2> HIDE DEF pinned
  <2>1. 1 \in 1 .. 6 /\ 2 \in 1 .. 6 /\ 3 \in 1 .. 6 /\ 4 \in 1 .. 6 /\ 5 \in 1 .. 6 /\ 6 \in 1 .. 6
    OBVIOUS
  <2> QED
    BY <1>3, <1>4, <2>1, BoundsAre
<1>6. /\ Pinned["yearly"] = 5 /\ Pinned["monthly"] = 4 /\ Pinned["weekly"] = 3 /\ Pinned["daily"] = 3
      /\ Pinned["hourly"] = 2
      /\ DOMAIN Pinned = {"yearly", "monthly", "weekly", "daily", "hourly"}
  BY DEF Pinned
<1>7. name = "yearly" \/ name = "monthly" \/ name = "weekly" \/ name = "daily" \/ name = "hourly"
  BY <1>2, <1>6
<1>8. /\ pinned(1) /\ pinned(2) /\ (pinned(3) <=> name # "hourly") /\ (pinned(4) <=> name \in {"yearly", "monthly"})
      /\ (pinned(5) <=> name = "yearly") /\ (pinned(6) <=> name = "weekly")
  BY <1>6, <1>7
<1> HIDE DEF pinned
<1>9. Fits(s, t) <=>
        /\ SecondOf(t) = 0 /\ MinuteOf(t) = 0 /\ (name # "hourly" => HourOf(t) = 0)
        /\ name \in {"yearly", "monthly"} => Day(t) = 1
        /\ name = "yearly" => MonthOf(t) = 1
        /\ name = "weekly" => Weekday(t) = 0
  BY <1>5, <1>8 DEF Fits, FitsMonth, FitsDay, FitsHour, FitsMinute, dayMatches
<1>10. DueAt(spec, t) <=> CASE name = "yearly" -> t % YearLen = 0
                            [] name = "monthly" -> t % DayLen = 0 /\ Day(t) = 1
                            [] name = "weekly" -> t % DayLen = 0 /\ Weekday(t) = 0
                            [] name = "daily" -> t % DayLen = 0
                            [] OTHER -> t % HourLen = 0
  BY <1>1 DEF DueAt
<1>11. /\ t % HourLen = 0 <=> SecondOf(t) = 0 /\ MinuteOf(t) = 0
       /\ t % DayLen = 0 <=> SecondOf(t) = 0 /\ MinuteOf(t) = 0 /\ HourOf(t) = 0
       /\ t % YearLen = 0 <=> t % DayLen = 0 /\ Day(t) = 1 /\ MonthOf(t) = 1
  BY StartsOf, Zenon
<1>12. Fits(s, t) <=> DueAt(spec, t)
  BY <1>7, <1>9, <1>10, <1>11
<1> QED
  BY <1>1, <1>12

(* What the parser accepts means what the walk looks for.                  *)
LEMMA ParseMeans ==
    ASSUME NEW spec \in Specs, ~NewParserPanics(spec.options), Parse(spec) # <<>>, NEW t \in Int
    PROVE  Fits(Parse(spec), t) <=> DueAt(spec, t)
  BY FieldsMean, DescriptorMeans

(* What NextIsLeast says of an answer.                                     *)
Answers(spec, start, t) ==
  LET first == First(spec, start)
      times == first .. ((Year(first) + YearLimit + 1) * YearLen - 1)
      local == t \div Nanos + ZoneOffset(spec)
  IN  IF spec.kind = "every"
      THEN /\ t % Nanos = 0
           /\ t > start
           /\ spec.delay >= Nanos => t <= start + spec.delay
      ELSE IF t = ZeroTime THEN \A v \in times : ~DueAt(spec, v)
      ELSE /\ local \in times /\ t % Nanos = 0
           /\ DueAt(spec, local)
           /\ \A v \in first .. local - 1 : ~DueAt(spec, v)

(* It is that, now and after a step.                                       *)
LEMMA AnswersIs ==
    /\ NextIsLeast <=> (cron.pc = "done" => Answers(cron.spec, cron.start, cron.t))
    /\ NextIsLeast' <=> (cron'.pc = "done" => Answers(cron'.spec, cron'.start, cron'.t))
<1>1. NextIsLeast <=> (cron.pc = "done" => Answers(cron.spec, cron.start, cron.t))
  <2>1. CASE cron.t = ZeroTime
    BY <2>1, Zenon DEF NextIsLeast, Answers, First
  <2>2. CASE cron.t # ZeroTime
    BY <2>2, Zenon DEF NextIsLeast, Answers, First
  <2> QED
    BY <2>1, <2>2
<1>2. NextIsLeast' <=> (cron'.pc = "done" => Answers(cron'.spec, cron'.start, cron'.t))
  <2>1. CASE cron'.t = ZeroTime
    BY <2>1, Zenon DEF NextIsLeast, Answers, First
  <2>2. CASE cron'.t # ZeroTime
    BY <2>2, Zenon DEF NextIsLeast, Answers, First
  <2> QED
    BY <2>1, <2>2
<1> QED
  BY <1>1, <1>2

(* The length of a year.                                                   *)
LEMMA YearLength == YearLen \in Nat /\ YearLen > 0
<1>1. DayLen \in Nat /\ DayLen > 0
  BY Lengths, Zenon
<1>2. 0 \in Int
  OBVIOUS
<1>3. YearDays \in Nat /\ YearDays > 0
  BY <1>2, Dates, Zenon
<1>4. YearLen = YearDays * DayLen
  BY DEF YearLen, YearDays, Months
<1>5. ASSUME NEW x \in Nat, NEW y \in Nat, x > 0, y > 0 PROVE x * y \in Nat /\ x * y > 0
  BY <1>5
<1> QED
  BY <1>1, <1>3, <1>4, <1>5, Zenon

(* A time is before the end of a year if its year is not later.            *)
LEMMA YearEnds ==
    ASSUME NEW t \in Int, NEW y \in Int
    PROVE  Year(t) \in Int /\ (y + 1) * YearLen \in Int /\ (Year(t) <= y <=> t < (y + 1) * YearLen)
<1>1. YearLen \in Nat /\ YearLen > 0
  BY YearLength
<1>2. Year(t) \in Int /\ Year(t) = t \div YearLen
  BY Dates, Zenon DEF Year
<1>3. y + 1 \in Int /\ (y + 1) * YearLen \in Int
  BY <1>1
<1>4. /\ t < (y + 1) * YearLen => t \div YearLen < y + 1
      /\ t >= (y + 1) * YearLen => t \div YearLen >= y + 1
  BY <1>1, <1>3, DivisionOrder, Zenon
<1>5. PICK e : e = (y + 1) * YearLen
  OBVIOUS
<1>6. Year(t) <= y <=> t < e
  <2>1. e \in Int /\ (t < e => Year(t) < y + 1) /\ (t >= e => Year(t) >= y + 1)
    BY <1>2, <1>3, <1>4, <1>5, Zenon
  <2> QED
    BY <1>2, <2>1
<1> QED
  BY <1>2, <1>3, <1>5, <1>6, Zenon

(* A step sets one or more fields of the call, one after the other.        *)
SetPc(c, x) == [c EXCEPT !.pc = x]
SetT(c, x) == [c EXCEPT !.t = x]
SetSched(c, x) == [c EXCEPT !.sched = x]
SetLimit(c, x) == [c EXCEPT !.limit = x]

(* Each leaves the others alone.                                           *)
LEMMA CallSet ==
    ASSUME NEW c, Call(c), NEW x
    PROVE  /\ LET d == SetPc(c, x)
              IN  /\ Call(d) /\ d.pc = x /\ d.spec = c.spec /\ d.start = c.start /\ d.sched = c.sched
                  /\ d.t = c.t /\ d.added = c.added /\ d.limit = c.limit
           /\ LET d == SetT(c, x)
              IN  /\ Call(d) /\ d.pc = c.pc /\ d.spec = c.spec /\ d.start = c.start /\ d.sched = c.sched
                  /\ d.t = x /\ d.added = c.added /\ d.limit = c.limit
           /\ LET d == SetSched(c, x)
              IN  /\ Call(d) /\ d.pc = c.pc /\ d.spec = c.spec /\ d.start = c.start /\ d.sched = x
                  /\ d.t = c.t /\ d.added = c.added /\ d.limit = c.limit
           /\ LET d == SetLimit(c, x)
              IN  /\ Call(d) /\ d.pc = c.pc /\ d.spec = c.spec /\ d.start = c.start /\ d.sched = c.sched
                  /\ d.t = c.t /\ d.added = c.added /\ d.limit = x
<1>1. PICK w1, w2, w3, w4, w5, w6, w7 :
        /\ c = [pc |-> w1, spec |-> w2, start |-> w3, sched |-> w4, t |-> w5, added |-> w6, limit |-> w7]
        /\ w1 = c.pc /\ w2 = c.spec /\ w3 = c.start /\ w4 = c.sched /\ w5 = c.t /\ w6 = c.added /\ w7 = c.limit
  BY Zenon DEF Call
<1>2. ASSUME NEW d, NEW v1, NEW v2, NEW v3, NEW v4, NEW v5, NEW v6, NEW v7,
             d = [pc |-> v1, spec |-> v2, start |-> v3, sched |-> v4, t |-> v5, added |-> v6, limit |-> v7]
      PROVE  /\ Call(d) /\ d.pc = v1 /\ d.spec = v2 /\ d.start = v3 /\ d.sched = v4
             /\ d.t = v5 /\ d.added = v6 /\ d.limit = v7
  <2>1. /\ d.pc = v1 /\ d.spec = v2 /\ d.start = v3 /\ d.sched = v4
        /\ d.t = v5 /\ d.added = v6 /\ d.limit = v7
    BY <1>2
  <2> QED
    BY <1>2, <2>1, Zenon DEF Call
<1>3. LET d == SetPc(c, x)
      IN  /\ Call(d) /\ d.pc = x /\ d.spec = c.spec /\ d.start = c.start /\ d.sched = c.sched
          /\ d.t = c.t /\ d.added = c.added /\ d.limit = c.limit
  <2>1. PICK d : d = SetPc(c, x)
    OBVIOUS
  <2>2. d = [pc |-> x, spec |-> w2, start |-> w3, sched |-> w4, t |-> w5, added |-> w6, limit |-> w7]
    BY <1>1, <2>1 DEF SetPc
  <2>3. /\ Call(d) /\ d.pc = x /\ d.spec = w2 /\ d.start = w3 /\ d.sched = w4
        /\ d.t = w5 /\ d.added = w6 /\ d.limit = w7
    BY <1>2, <2>2
  <2> QED
    BY <1>1, <2>1, <2>3, Zenon
<1>4. LET d == SetT(c, x)
      IN  /\ Call(d) /\ d.pc = c.pc /\ d.spec = c.spec /\ d.start = c.start /\ d.sched = c.sched
          /\ d.t = x /\ d.added = c.added /\ d.limit = c.limit
  <2>1. PICK d : d = SetT(c, x)
    OBVIOUS
  <2>2. d = [pc |-> w1, spec |-> w2, start |-> w3, sched |-> w4, t |-> x, added |-> w6, limit |-> w7]
    BY <1>1, <2>1 DEF SetT
  <2>3. /\ Call(d) /\ d.pc = w1 /\ d.spec = w2 /\ d.start = w3 /\ d.sched = w4
        /\ d.t = x /\ d.added = w6 /\ d.limit = w7
    BY <1>2, <2>2
  <2> QED
    BY <1>1, <2>1, <2>3, Zenon
<1>5. LET d == SetSched(c, x)
      IN  /\ Call(d) /\ d.pc = c.pc /\ d.spec = c.spec /\ d.start = c.start /\ d.sched = x
          /\ d.t = c.t /\ d.added = c.added /\ d.limit = c.limit
  <2>1. PICK d : d = SetSched(c, x)
    OBVIOUS
  <2>2. d = [pc |-> w1, spec |-> w2, start |-> w3, sched |-> x, t |-> w5, added |-> w6, limit |-> w7]
    BY <1>1, <2>1 DEF SetSched
  <2>3. /\ Call(d) /\ d.pc = w1 /\ d.spec = w2 /\ d.start = w3 /\ d.sched = x
        /\ d.t = w5 /\ d.added = w6 /\ d.limit = w7
    BY <1>2, <2>2
  <2> QED
    BY <1>1, <2>1, <2>3, Zenon
<1>6. LET d == SetLimit(c, x)
      IN  /\ Call(d) /\ d.pc = c.pc /\ d.spec = c.spec /\ d.start = c.start /\ d.sched = c.sched
          /\ d.t = c.t /\ d.added = c.added /\ d.limit = x
  <2>1. PICK d : d = SetLimit(c, x)
    OBVIOUS
  <2>2. d = [pc |-> w1, spec |-> w2, start |-> w3, sched |-> w4, t |-> w5, added |-> w6, limit |-> x]
    BY <1>1, <2>1 DEF SetLimit
  <2>3. /\ Call(d) /\ d.pc = w1 /\ d.spec = w2 /\ d.start = w3 /\ d.sched = w4
        /\ d.t = w5 /\ d.added = w6 /\ d.limit = x
    BY <1>2, <2>2
  <2> QED
    BY <1>1, <2>1, <2>3, Zenon
<1> QED
  BY <1>3, <1>4, <1>5, <1>6

(* A constant delay: whole seconds, and the start's fraction dropped.      *)
LEMMA EveryMeans ==
    ASSUME NEW start \in Nat, NEW delay \in Int, NEW t, t = start + Every(delay) - (start % Nanos)
    PROVE  t % Nanos = 0 /\ t > start /\ (delay >= Nanos => t <= start + delay)
<1>1. Nanos \in Nat /\ Nanos > 0
  BY Lengths, Zenon
<1>2. PICK d : d = IF delay < Nanos THEN Nanos ELSE delay
  OBVIOUS
<1>3. d \in Int /\ d >= Nanos /\ (delay >= Nanos => d = delay)
  BY <1>1, <1>2
<1>4. PICK k, r, q, f : k = d \div Nanos /\ r = d % Nanos /\ q = start \div Nanos /\ f = start % Nanos
  OBVIOUS
<1>5. /\ k \in Int /\ r \in Int /\ 0 <= r /\ r < Nanos /\ d = k * Nanos + r
      /\ q \in Int /\ f \in Int /\ 0 <= f /\ f < Nanos /\ start = q * Nanos + f
  BY <1>1, <1>3, <1>4, Division
<1>6. Every(delay) = d - r
  BY <1>2, <1>4, Zenon DEF Every
<1>7. PICK x, y : x = k * Nanos /\ y = q * Nanos
  OBVIOUS
<1>8. x \in Int /\ y \in Int /\ d = x + r /\ start = y + f
  BY <1>1, <1>5, <1>7
<1>9. x >= Nanos
  <2>1. k >= 1
    <3>1. k <= 0 => k * Nanos <= 0
      BY <1>1, <1>5
    <3> QED
      BY <1>1, <1>3, <1>5, <1>7, <1>8, <3>1
  <2>2. k * Nanos >= Nanos
    BY <1>1, <1>5, <2>1
  <2> QED
    BY <1>7, <2>2
<1>10. t = x + y
  <2>1. t = start + (d - r) - f
    BY <1>4, <1>6, Zenon
  <2> QED
    BY <1>3, <1>5, <1>8, <2>1
<1>11. t % Nanos = 0
  <2>1. k + q \in Int /\ (k + q) * Nanos = k * Nanos + q * Nanos
    BY <1>1, <1>5
  <2>2. t = (k + q) * Nanos + 0
    BY <1>7, <1>8, <1>10, <2>1
  <2>3. 0 \in Int /\ 0 <= 0 /\ 0 < Nanos
    BY <1>1
  <2>4. ((k + q) * Nanos + 0) % Nanos = 0
    BY <1>1, <2>1, <2>3, QuotientOf, Zenon
  <2> QED
    BY <2>2, <2>4, Zenon
<1>12. t > start
  BY <1>1, <1>5, <1>8, <1>9, <1>10
<1>13. ASSUME delay >= Nanos PROVE t <= start + delay
  BY <1>1, <1>3, <1>5, <1>8, <1>10, <1>13
<1> QED
  BY <1>11, <1>12, <1>13

(* A call that is over, or refused, is not on its way.                     *)
LEMMA OverKeeps ==
    ASSUME NEW c, NEW d, Walking(c), Call(d), d.pc \in {"panic", "error", "done"}, d.spec = c.spec, d.start = c.start
    PROVE  Walking(d)
<1>1. d.pc \in Pcs /\ d.pc \notin {"parse", "start"} /\ d.pc \notin {"start"} \cup WalkPcs /\ d.pc \notin WalkPcs
  BY DEF Pcs, WalkPcs
<1>2. c.spec \in Specs /\ c.start \in Starts
  BY Zenon DEF Walking
<1> QED
  BY <1>1, <1>2, Zenon DEF Walking

(* ParseSpec keeps the invariant.                                          *)
LEMMA ParseSpecKeeps ==
    ASSUME Walking(cron), ParseSpec
    PROVE  Walking(cron') /\ NextIsLeast'
<1>1. PICK spec, start : spec = cron.spec /\ start = cron.start
  OBVIOUS
<1>2. Call(cron) /\ cron.pc = "parse" /\ spec \in Specs /\ start \in Starts /\ cron.added = FALSE
  BY <1>1 DEF Walking, ParseSpec
<1>3. CASE ParsePanics(spec) \/ ParseRefuses(spec)
  <2>1. PICK pc : pc = IF ParsePanics(spec) THEN "panic" ELSE "error"
    OBVIOUS
  <2>2. cron' = SetPc(cron, pc)
    BY <1>1, <1>3, <2>1 DEF ParseSpec, SetPc
  <2>3. Call(cron') /\ cron'.pc = pc /\ cron'.spec = cron.spec /\ cron'.start = cron.start
    BY <1>2, <2>2, CallSet
  <2>4. pc \in {"panic", "error", "done"} /\ pc # "done"
    BY <2>1
  <2>5. Walking(cron')
    BY <2>3, <2>4, OverKeeps
  <2> QED
    BY <2>3, <2>4, <2>5, AnswersIs
<1>4. CASE ~ParsePanics(spec) /\ ~ParseRefuses(spec) /\ spec.kind = "every"
  <2>1. PICK t : t = start + Every(spec.delay) - (start % Nanos)
    OBVIOUS
  <2>2. cron' = [cron EXCEPT !.pc = "done", !.t = t]
    BY <1>1, <1>4, <2>1 DEF ParseSpec
  <2>3. PICK c : c = SetPc(cron, "done")
    OBVIOUS
  <2>4. cron' = SetT(c, t)
    BY <2>2, <2>3 DEF SetPc, SetT, SetSched, SetLimit
  <2>5. Call(c) /\ c.pc = "done" /\ c.spec = spec /\ c.start = start
    BY <1>1, <1>2, <2>3, CallSet
  <2>6. Call(cron') /\ cron'.pc = "done" /\ cron'.spec = spec /\ cron'.start = start /\ cron'.t = t
    BY <2>4, <2>5, CallSet
  <2>7. Walking(cron')
    BY <1>1, <2>6, OverKeeps
  <2>8. start \in Nat /\ spec.delay \in Int
    BY <1>2, <1>4, FirstIsInt, SpecsAssumption
  <2>9. t % Nanos = 0 /\ t > start /\ (spec.delay >= Nanos => t <= start + spec.delay)
    BY <2>1, <2>8, EveryMeans
  <2>10. Answers(spec, start, t)
    BY <1>4, <2>9, Zenon DEF Answers
  <2> QED
    BY <2>6, <2>7, <2>10, AnswersIs
<1>5. CASE ~ParsePanics(spec) /\ ~ParseRefuses(spec) /\ spec.kind # "every"
  <2>1. PICK s, pc : s = Parse(spec) /\ pc = IF Parse(spec) = <<>> THEN "error" ELSE "start"
    OBVIOUS
  <2>2. cron' = [cron EXCEPT !.sched = s, !.pc = pc]
    BY <1>1, <1>5, <2>1 DEF ParseSpec
  <2>3. PICK c : c = SetSched(cron, s)
    OBVIOUS
  <2>4. cron' = SetPc(c, pc)
    BY <2>2, <2>3 DEF SetPc, SetT, SetSched, SetLimit
  <2>5. Call(c) /\ c.spec = spec /\ c.start = start /\ c.sched = s /\ c.added = FALSE
    BY <1>1, <1>2, <2>3, CallSet
  <2>6. Call(cron') /\ cron'.pc = pc /\ cron'.spec = spec /\ cron'.start = start /\ cron'.sched = s /\ cron'.added = FALSE
    BY <2>4, <2>5, CallSet
  <2>7. cron'.pc # "done"
    BY <2>1, <2>6
  <2>8. CASE s = <<>>
    <3>1. pc = "error"
      BY <2>1, <2>8
    <3>2. Walking(cron')
      BY <1>1, <2>6, <3>1, OverKeeps
    <3> QED
      BY <2>7, <3>2, AnswersIs
  <2>9. CASE s # <<>>
    <3>1. pc = "start" /\ "start" \in Pcs /\ "start" \notin WalkPcs
      BY <2>1, <2>9 DEF Pcs, WalkPcs
    <3>2. ~NewParserPanics(spec.options) /\ spec.kind # "every"
      BY <1>5 DEF ParsePanics
    <3>3. Walking(cron')
      BY <1>2, <3>2, <2>1, <2>6, <2>9, <3>1 DEF Walking
    <3> QED
      BY <2>7, <3>3, AnswersIs
  <2> QED
    BY <2>8, <2>9
<1> QED
  BY <1>3, <1>4, <1>5

(* Upcoming keeps the invariant.                                           *)
LEMMA UpcomingKeeps ==
    ASSUME Walking(cron), Upcoming
    PROVE  Walking(cron') /\ cron'.pc # "done"
<1>1. PICK spec, start, f : spec = cron.spec /\ start = cron.start /\ f = First(cron.spec, cron.start)
  OBVIOUS
<1>2. /\ Call(cron) /\ cron.pc = "start" /\ spec \in Specs /\ start \in Starts /\ cron.added = FALSE
      /\ ~NewParserPanics(spec.options) /\ spec.kind # "every"
      /\ cron.sched = Parse(spec) /\ cron.sched # <<>>
  BY <1>1 DEF Walking, Upcoming
<1>3. f \in Int
  BY <1>1, <1>2, FirstIsInt
<1>4. PICK l : l = Year(f) + YearLimit
  OBVIOUS
<1>5. cron' = [cron EXCEPT !.pc = "wrap", !.t = f, !.limit = l]
  BY <1>1, <1>4 DEF Upcoming, First
<1>6. PICK c : c = SetPc(cron, "wrap")
  OBVIOUS
<1>7. PICK d : d = SetT(c, f)
  OBVIOUS
<1>8. cron' = SetLimit(d, l)
  BY <1>5, <1>6, <1>7 DEF SetPc, SetT, SetSched, SetLimit
<1>9. Call(c) /\ c.pc = "wrap" /\ c.spec = spec /\ c.start = start /\ c.sched = cron.sched /\ c.added = FALSE
  BY <1>1, <1>2, <1>6, CallSet
<1>10. Call(d) /\ d.pc = "wrap" /\ d.spec = spec /\ d.start = start /\ d.sched = cron.sched /\ d.added = FALSE /\ d.t = f
  BY <1>7, <1>9, CallSet
<1>11. /\ Call(cron') /\ cron'.pc = "wrap" /\ cron'.spec = spec /\ cron'.start = start /\ cron'.sched = cron.sched
       /\ cron'.added = FALSE /\ cron'.t = f /\ cron'.limit = l
  BY <1>8, <1>10, CallSet
<1>12. Walked(cron.sched, f, f, FALSE)
  BY <1>3 DEF Walked
<1>13. LoopsBehind(cron.sched, "wrap", f)
  BY DEF LoopsBehind
<1>14. "wrap" \in Pcs /\ "wrap" \in WalkPcs
  BY DEF Pcs, WalkPcs
<1>15. Walking(cron')
  BY <1>1, <1>2, <1>4, <1>11, <1>12, <1>13, <1>14 DEF Walking
<1> QED
  BY <1>11, <1>15

(* Wrap keeps the invariant; past the years it looks ahead, nothing was    *)
(* due in them.                                                            *)
LEMMA WrapKeeps ==
    ASSUME Walking(cron), Wrap
    PROVE  Walking(cron') /\ NextIsLeast'
<1>1. PICK spec, start, f : spec = cron.spec /\ start = cron.start /\ f = First(cron.spec, cron.start)
  OBVIOUS
<1>2. cron.pc = "wrap" /\ cron.pc \in WalkPcs
  BY DEF Wrap, WalkPcs
<1>3. /\ Call(cron) /\ spec \in Specs /\ start \in Starts
      /\ ~NewParserPanics(spec.options) /\ spec.kind # "every"
      /\ cron.sched = Parse(spec) /\ cron.sched # <<>>
      /\ Walked(cron.sched, f, cron.t, cron.added) /\ cron.limit = Year(f) + YearLimit
  BY <1>1, <1>2, Zenon DEF Walking
<1>4. f \in Int
  BY <1>1, <1>3, FirstIsInt
<1>5. cron.t \in Int /\ f <= cron.t /\ \A v \in Int : f <= v /\ v < cron.t => ~Fits(cron.sched, v)
  BY <1>3, Zenon DEF Walked
<1>6. Year(f) \in Int /\ Year(cron.t) \in Int /\ cron.limit \in Int
  <2>1. Year(f) \in Int /\ Year(cron.t) \in Int
    BY <1>4, <1>5, Dates, Zenon
  <2>2. YearLimit \in Int
    BY CalendarAssumption
  <2> QED
    BY <1>3, <2>1, <2>2
<1>7. CASE Year(cron.t) > cron.limit
  <2>1. cron' = [cron EXCEPT !.pc = "done", !.t = ZeroTime]
    BY <1>7 DEF Wrap
  <2>2. PICK c : c = SetPc(cron, "done")
    OBVIOUS
  <2>3. cron' = SetT(c, ZeroTime)
    BY <2>1, <2>2 DEF SetPc, SetT, SetSched, SetLimit
  <2>4. Call(c) /\ c.pc = "done" /\ c.spec = spec /\ c.start = start
    BY <1>1, <1>3, <2>2, CallSet
  <2>5. Call(cron') /\ cron'.pc = "done" /\ cron'.spec = spec /\ cron'.start = start /\ cron'.t = ZeroTime
    BY <2>3, <2>4, CallSet
  <2>6. Walking(cron')
    BY <1>1, <2>5, OverKeeps
  <2>7. PICK e : e = (cron.limit + 1) * YearLen
    OBVIOUS
  <2>8. e \in Int /\ e <= cron.t
    <3>1. e \in Int /\ (Year(cron.t) <= cron.limit <=> cron.t < e)
      BY <1>5, <1>6, <2>7, YearEnds
    <3> QED
      BY <1>5, <1>6, <1>7, <3>1
  <2>9. ASSUME NEW v \in f .. e - 1 PROVE ~DueAt(spec, v)
    <3>1. v \in Int /\ f <= v /\ v < cron.t
      BY <1>4, <1>5, <2>8
    <3> QED
      BY <1>3, <1>5, <3>1, ParseMeans
  <2>10. e = (Year(f) + YearLimit + 1) * YearLen
    BY <1>3, <2>7, Zenon
  <2>11. Answers(spec, start, ZeroTime)
    BY <1>1, <1>3, <2>9, <2>10, Zenon DEF Answers
  <2> QED
    BY <2>5, <2>6, <2>11, AnswersIs
<1>8. CASE ~(Year(cron.t) > cron.limit)
  <2>1. cron' = Left(cron, "month")
    BY <1>8 DEF Wrap, Left
  <2>2. Year(cron.t) <= cron.limit
    BY <1>6, <1>8
  <2>3. "month" \in WalkPcs /\ LoopsBehind(cron.sched, "month", cron.t)
    BY DEF WalkPcs, LoopsBehind
  <2>4. Walking(Left(cron, "month")) /\ Left(cron, "month").pc = "month"
    BY <1>2, <2>2, <2>3, LeaveKeeps
  <2>5. Walking(cron') /\ cron'.pc # "done"
    BY <2>1, <2>4
  <2> QED
    BY <2>5, AnswersIs
<1> QED
  BY <1>7, <1>8

(* Found keeps the invariant: the time is the first that is due.           *)
LEMMA FoundKeeps ==
    ASSUME Walking(cron), Found
    PROVE  Walking(cron') /\ NextIsLeast'
<1>1. PICK spec, start, f, t, s, z :
        /\ spec = cron.spec /\ start = cron.start /\ f = First(cron.spec, cron.start) /\ t = cron.t
        /\ s = cron.sched /\ z = ZoneOffset(cron.spec)
  OBVIOUS
<1>2. cron.pc = "found" /\ cron.pc \in WalkPcs
  BY DEF Found, WalkPcs
<1>3. /\ Call(cron) /\ spec \in Specs /\ start \in Starts
      /\ ~NewParserPanics(spec.options) /\ spec.kind # "every" /\ s = Parse(spec) /\ s # <<>>
      /\ Walked(s, f, t, cron.added) /\ cron.limit = Year(f) + YearLimit
      /\ Year(t) <= cron.limit /\ LoopsBehind(s, "found", t)
  BY <1>1, <1>2 DEF Walking
<1>4. f \in Int /\ z \in Int /\ start \div Nanos \in Nat /\ f = start \div Nanos + 1 + z
  BY <1>1, <1>3, FirstIsInt
<1>5. t \in Int /\ f <= t /\ \A v \in Int : f <= v /\ v < t => ~Fits(s, v)
  BY <1>3, Zenon DEF Walked
<1>6. Fits(s, t)
  BY <1>3 DEF LoopsBehind, Fits
<1>7. PICK n, x : n = t - z /\ x = n * Nanos
  OBVIOUS
<1>8. cron' = [cron EXCEPT !.pc = "done", !.t = x]
  BY <1>1, <1>7 DEF Found
<1>9. PICK c : c = SetPc(cron, "done")
  OBVIOUS
<1>10. cron' = SetT(c, x)
  BY <1>8, <1>9 DEF SetPc, SetT, SetSched, SetLimit
<1>11. Call(c) /\ c.pc = "done" /\ c.spec = spec /\ c.start = start
  BY <1>1, <1>3, <1>9, CallSet
<1>12. Call(cron') /\ cron'.pc = "done" /\ cron'.spec = spec /\ cron'.start = start /\ cron'.t = x
  BY <1>10, <1>11, CallSet
<1>13. Walking(cron')
  BY <1>1, <1>12, OverKeeps
<1>14. n \in Int /\ n > 0 /\ n + z = t
  BY <1>4, <1>5, <1>7
<1>15. x % Nanos = 0 /\ x \div Nanos = n /\ x # ZeroTime
  <2>1. Nanos \in Nat /\ Nanos > 0 /\ 0 \in Int /\ 0 <= 0 /\ 0 < Nanos
    BY Lengths
  <2>2. (n * Nanos + 0) \div Nanos = n /\ (n * Nanos + 0) % Nanos = 0
    BY <1>14, <2>1, QuotientOf, Zenon
  <2>3. n * Nanos \in Int /\ n * Nanos > 0
    BY <1>14, <2>1
  <2>4. n * Nanos + 0 = n * Nanos
    BY <2>3
  <2> QED
    BY <1>7, <2>2, <2>3, <2>4 DEF ZeroTime
<1>16. x \div Nanos + z = t
  BY <1>14, <1>15
<1>17. Year(f) \in Int /\ Year(t) \in Int /\ cron.limit \in Int
  <2>1. Year(f) \in Int /\ Year(t) \in Int
    BY <1>4, <1>5, Dates, Zenon
  <2>2. YearLimit \in Int
    BY CalendarAssumption
  <2> QED
    BY <1>3, <2>1, <2>2
<1>18. PICK e : e = (cron.limit + 1) * YearLen
  OBVIOUS
<1>19. t \in f .. e - 1
  <2>1. e \in Int /\ (Year(t) <= cron.limit <=> t < e)
    BY <1>5, <1>17, <1>18, YearEnds
  <2> QED
    BY <1>3, <1>4, <1>5, <2>1
<1>20. e = (Year(f) + YearLimit + 1) * YearLen
  BY <1>3, <1>18, Zenon
<1>21. DueAt(spec, t)
  BY <1>3, <1>5, <1>6, ParseMeans
<1>22. ASSUME NEW v \in f .. t - 1 PROVE ~DueAt(spec, v)
  <2>1. v \in Int /\ f <= v /\ v < t
    BY <1>4, <1>5
  <2> QED
    BY <1>3, <1>5, <2>1, ParseMeans
<1>23. Answers(spec, start, x)
  <2>1. f = First(spec, start) /\ z = ZoneOffset(spec)
    BY <1>1, Zenon
  <2> QED
    BY <1>3, <1>15, <1>16, <1>19, <1>20, <1>21, <1>22, <2>1, Zenon DEF Answers
<1> QED
  BY <1>12, <1>13, <1>23, AnswersIs

(* The time that Next returns is the first that is due, and there is none  *)
(* in the years it looks ahead when it returns the zero time: for every    *)
(* calendar, expression and start (NextIsLeast).                           *)
THEOREM NextIsTheLeast == CronNext => []NextIsLeast
<1>1. InitCron => WalkInv
  <2>1. SUFFICES ASSUME InitCron PROVE WalkInv
    OBVIOUS
  <2>2. PICK spec \in Specs, start \in Starts :
          cron = [pc |-> "parse", spec |-> spec, start |-> start, sched |-> <<>>,
                  t |-> 0, added |-> FALSE, limit |-> 0]
    BY <2>1, Zenon DEF InitCron
  <2>3. cron.pc = "parse" /\ cron.spec = spec /\ cron.start = start /\ cron.added = FALSE
    BY <2>2
  <2>4. Call(cron)
    BY <2>2 DEF Call
  <2>5. "parse" \in Pcs /\ "parse" \notin WalkPcs
    BY DEF Pcs, WalkPcs
  <2>6. Walking(cron)
    BY <2>3, <2>4, <2>5 DEF Walking
  <2> QED
    BY <2>3, <2>6, AnswersIs DEF WalkInv
<1>2. WalkInv /\ [NextCron]_cron => WalkInv'
  <2>1. SUFFICES ASSUME WalkInv, [NextCron]_cron PROVE WalkInv'
    OBVIOUS
  <2>2. Walking(cron) /\ NextIsLeast
    BY <2>1, Zenon DEF WalkInv
  <2>3. SUFFICES Walking(cron') /\ NextIsLeast'
    BY Zenon DEF WalkInv
  <2>4. CASE ParseSpec
    BY <2>2, <2>4, ParseSpecKeeps
  <2>5. CASE Upcoming
    BY <2>2, <2>5, UpcomingKeeps, AnswersIs
  <2>6. CASE Wrap
    BY <2>2, <2>6, WrapKeeps
  <2>7. CASE MonthLoop
    BY <2>2, <2>7, MonthLoopKeeps, AnswersIs
  <2>8. CASE DayLoop
    BY <2>2, <2>8, DayLoopKeeps, AnswersIs
  <2>9. CASE HourLoop
    BY <2>2, <2>9, HourLoopKeeps, AnswersIs
  <2>10. CASE MinuteLoop
    BY <2>2, <2>10, MinuteLoopKeeps, AnswersIs
  <2>11. CASE SecondLoop
    BY <2>2, <2>11, SecondLoopKeeps, AnswersIs
  <2>12. CASE Found
    BY <2>2, <2>12, FoundKeeps
  <2>13. CASE UNCHANGED cron
    BY <2>2, <2>13, AnswersIs
  <2> QED
    BY <2>1, <2>4, <2>5, <2>6, <2>7, <2>8, <2>9, <2>10, <2>11, <2>12, <2>13, Zenon DEF NextCron
<1>3. WalkInv => NextIsLeast
  BY DEF WalkInv
<1> QED
  BY <1>1, <1>2, <1>3, PTL DEF CronNext
=============================================================================

-------------------------------- MODULE Cron --------------------------------
(***************************************************************************)
(* The scheduler of job/cron.go with the job wrappers of job/chain.go.     *)
(*                                                                         *)
(* One goroutine (run) owns the entries while the scheduler is running;    *)
(* callers hold runningMu while they hand it a request over an unbuffered  *)
(* channel.  A due entry is started in a goroutine of its own, which       *)
(* passes through the wrappers of the chain before it reaches the job.     *)
(*                                                                         *)
(* A schedule is the set of seconds at which it activates.  The clock      *)
(* moves between any two steps; the `now' of run() is a local variable     *)
(* that lags behind it.                                                    *)
(***************************************************************************)
EXTENDS Integers, Sequences, FiniteSets

CONSTANTS
    Schedules,      \* sets of seconds >= 1
    Tasks,          \* the schedules of the tasks added before anything else
    Chains,         \* possible WithChain options: sequences of Wrappers
    MaxClock,       \* bound: last second
    Lag,            \* bound: seconds the scheduler falls behind the clock
    MaxEntries,     \* bound: calls of Schedule
    MaxCalls        \* bound: calls of the API

Wrappers == {"recover", "delay", "skip"}

ASSUME CronAssumption ==
    /\ Schedules \subseteq SUBSET (Nat \ {0})
    /\ Tasks \in Seq(Schedules)
    /\ Chains \subseteq Seq(Wrappers)
    /\ MaxClock \in Nat \ {0}
    /\ Lag \in Nat
    /\ MaxEntries \in Nat
    /\ MaxCalls \in Nat

VARIABLES
    clock,      \* the wall clock, in seconds
    chain,      \* Cron.chain: outermost wrapper first
    running,    \* Cron.running
    nextID,     \* Cron.nextID
    entries,    \* Cron.entries
    sched,      \* where run() is: "off", "init", "loop" or "select"
    now,        \* run(): its local now
    fireAt,     \* run(): when the timer expires; Never for 100000 hours
    timerC,     \* run(): the time waiting in timer.C; Zero if none
    req,        \* what the caller that holds runningMu is sending, if any
    invs,       \* running goroutines of startJob
    tokens,     \* the SkipIfStillRunning wrappers whose channel is full
    wg,         \* Cron.jobWaiter
    waits,      \* the goroutines of Stop, waiting for jobWaiter
    calls,      \* calls made so far
    removed     \* history: the ids whose Remove has returned

vars == <<clock, chain, running, nextID, entries, sched, now, fireAt, timerC,
          req, invs, tokens, wg, waits, calls, removed>>

run    == <<sched, now, fireAt, timerC>>
jobs   == <<invs, tokens, wg>>
caller == <<req, calls>>

Zero  == 0              \* time.Time{}
Never == MaxClock + 1
NoReq == [op |-> "none"]

-----------------------------------------------------------------------------
(* Entries and schedules.                                                  *)

(* Schedule.Next : the first activation later than t, or the zero time.    *)
NextTime(s, t) ==
    LET later == {x \in s : x > t}
    IN  IF later = {} THEN Zero ELSE CHOOSE x \in later : \A y \in later : x <= y

NewEntry(id, s) == [id |-> id, sched |-> s, next |-> Zero, prev |-> Zero]

(* byTime.Less.                                                            *)
Less(a, b) == a.next # Zero /\ (b.next = Zero \/ a.next < b.next)

(* sort.Sort(byTime(entries)); the sort is not stable.                     *)
SortedByTime(s) ==
    {t \in [DOMAIN s -> {s[i] : i \in DOMAIN s}] :
        /\ \A i, j \in DOMAIN s : i # j => t[i] # t[j]
        /\ \A i, j \in DOMAIN s : i < j => ~Less(t[j], t[i])}

(* The list without the entry id, which is in it once at most.             *)
removeEntry(s, id) ==
    LET before(i) == \A j \in 1 .. i : s[j].id # id
        left == IF before(Len(s)) THEN Len(s) ELSE Len(s) - 1
    IN  [i \in 1 .. left |-> IF before(i) THEN s[i] ELSE s[i + 1]]

(* The entries run() starts at time t: up to the first that is not due.    *)
Due(e, t) == e.next # Zero /\ e.next <= t

DuePrefix(s, t) == {i \in DOMAIN s : \A j \in 1 .. i : Due(s[j], t)}

-----------------------------------------------------------------------------
(* New, followed by AddFunc for each task, as in Run(task ...).            *)
Init ==
    /\ clock = 1
    /\ chain \in Chains
    /\ running = FALSE
    /\ nextID = Len(Tasks)
    /\ entries = [i \in 1 .. Len(Tasks) |-> NewEntry(i, Tasks[i])]
    /\ sched = "off" /\ now = Zero /\ fireAt = Never /\ timerC = Zero
    /\ req = NoReq
    /\ invs = {}
    /\ tokens = {k \in DOMAIN chain : chain[k] = "skip"}
    /\ wg = 0
    /\ waits = <<>>
    /\ calls = 0
    /\ removed = {}

(* The clock.  Lag bounds how far run() falls behind it.                   *)
Tick ==
    /\ clock < MaxClock
    /\ sched = "loop" => clock < now + Lag
    /\ timerC # Zero => clock < timerC + Lag
    /\ clock' = clock + 1
    /\ UNCHANGED <<chain, running, nextID, entries, run, caller, jobs, waits, removed>>

-----------------------------------------------------------------------------
(* The API.  A call begins when it gets runningMu, which it keeps until    *)
(* its request is received: at most one caller is under way.               *)

Locked ==
    /\ req = NoReq
    /\ calls < MaxCalls
    /\ calls' = calls + 1

(* With the scheduler running, the request goes over a channel.            *)
Send(r) == running /\ req' = r

Direct == ~running /\ UNCHANGED req

Schedule(s) ==
    /\ Locked
    /\ nextID < MaxEntries
    /\ nextID' = nextID + 1
    /\ LET e == NewEntry(nextID + 1, s)
       IN  \/ Direct /\ entries' = Append(entries, e)
           \/ Send([op |-> "add", entry |-> e]) /\ UNCHANGED entries
    /\ UNCHANGED <<clock, chain, running, run, jobs, waits, removed>>

(* Entries, and Entry, which reads it.                                     *)
Entries ==
    /\ Locked
    /\ Direct \/ Send([op |-> "snapshot"])
    /\ UNCHANGED <<clock, chain, running, nextID, entries, run, jobs, waits, removed>>

Remove(id) ==
    /\ Locked
    /\ \/ Direct /\ entries' = removeEntry(entries, id) /\ removed' = removed \cup {id}
       \/ Send([op |-> "remove", id |-> id]) /\ UNCHANGED <<entries, removed>>
    /\ UNCHANGED <<clock, chain, running, nextID, run, jobs, waits>>

(* Start, and Run: the scheduler's goroutine is a new one or the caller's. *)
Start ==
    /\ Locked
    /\ running' = TRUE
    /\ sched' = IF running THEN sched ELSE "init"
    /\ UNCHANGED <<clock, chain, nextID, entries, now, fireAt, timerC, req, jobs, waits, removed>>

(* The goroutine Stop leaves behind, and the invocations its caller waits  *)
(* for.                                                                    *)
NewWait == [state |-> "new", owed |-> {[id |-> v.id, at |-> v.at] : v \in invs}]

Stop ==
    /\ Locked
    /\ \/ Direct /\ waits' = Append(waits, NewWait)
       \/ Send([op |-> "stop"]) /\ UNCHANGED waits
    /\ UNCHANGED <<clock, chain, running, nextID, entries, run, jobs, removed>>

-----------------------------------------------------------------------------
(* run.                                                                    *)

RunInit ==
    /\ sched = "init"
    /\ now' = clock
    /\ entries' = [i \in DOMAIN entries |->
                     [entries[i] EXCEPT !.next = NextTime(entries[i].sched, clock)]]
    /\ sched' = "loop"
    /\ UNCHANGED <<clock, chain, running, nextID, fireAt, timerC, caller, jobs, waits, removed>>

(* Sort the entries and set a timer that runs for first.Next - now, both   *)
(* of which were computed some time ago.                                   *)
RunLoop ==
    /\ sched = "loop"
    /\ \E s \in SortedByTime(entries) :
         /\ entries' = s
         /\ fireAt' = IF s = <<>> \/ s[1].next = Zero THEN Never
                      ELSE IF s[1].next <= now THEN clock
                      ELSE clock + (s[1].next - now)
    /\ sched' = "select"
    /\ UNCHANGED <<clock, chain, running, nextID, now, timerC, caller, jobs, waits, removed>>

(* The runtime sends the current time when the timer expires.              *)
TimerFires ==
    /\ sched = "select" /\ fireAt <= clock /\ timerC = Zero
    /\ timerC' = clock
    /\ UNCHANGED <<clock, chain, running, nextID, entries, sched, now, fireAt, caller,
                   jobs, waits, removed>>

(* Leave the inner loop: the timer is dropped, `now' becomes t.            *)
NextRound(t) ==
    /\ sched' = "loop"
    /\ now' = t
    /\ fireAt' = Never
    /\ timerC' = Zero

(* Faulty: the counter is raised by the new goroutine, not before it.      *)
startJobAddInGoroutine(started) ==
    /\ invs' = invs \cup started
    /\ UNCHANGED <<wg, tokens>>

startJob(started) ==
    /\ invs' = invs \cup started
    /\ wg' = wg + Cardinality(started)
    /\ UNCHANGED tokens

(* case now = <-timer.C                                                    *)
Wake ==
    /\ sched = "select" /\ timerC # Zero
    /\ LET due == DuePrefix(entries, timerC)
       IN  /\ startJob({[id |-> entries[i].id, at |-> entries[i].next, layer |-> 1] : i \in due})
           /\ entries' = [i \in DOMAIN entries |->
                            IF i \in due
                            THEN [entries[i] EXCEPT !.prev = entries[i].next,
                                                    !.next = NextTime(entries[i].sched, timerC)]
                            ELSE entries[i]]
    /\ NextRound(timerC)
    /\ UNCHANGED <<clock, chain, running, nextID, caller, waits, removed>>

(* A rendezvous with the caller that holds runningMu, which then returns.  *)
Receive(op) ==
    /\ sched = "select"
    /\ req.op = op
    /\ req' = NoReq
    /\ UNCHANGED <<clock, chain, nextID, calls, jobs>>

(* case newEntry := <-c.add                                                *)
RunAdd ==
    /\ Receive("add")
    /\ entries' = Append(entries, [req.entry EXCEPT
                                     !.next = NextTime(req.entry.sched, clock)])
    /\ NextRound(clock)
    /\ UNCHANGED <<running, waits, removed>>

(* case replyChan := <-c.snapshot : the timer keeps running.               *)
RunSnapshot ==
    /\ Receive("snapshot")
    /\ UNCHANGED <<entries, run, running, waits, removed>>

(* case <-c.stop, and the rest of Stop.                                    *)
RunStop ==
    /\ Receive("stop")
    /\ sched' = "off" /\ now' = Zero /\ fireAt' = Never /\ timerC' = Zero
    /\ running' = FALSE
    /\ waits' = Append(waits, NewWait)
    /\ UNCHANGED <<entries, removed>>

(* Faulty: the entry is dropped from a copy of the list.                   *)
RunRemoveCopy ==
    /\ Receive("remove")
    /\ removed' = removed \cup {req.id}
    /\ NextRound(clock)
    /\ UNCHANGED <<entries, running, waits>>

(* Faulty: the case continues the inner loop after timer.Stop().           *)
RunRemoveKeepsDeadTimer ==
    /\ Receive("remove")
    /\ entries' = removeEntry(entries, req.id)
    /\ removed' = removed \cup {req.id}
    /\ now' = clock /\ fireAt' = Never /\ timerC' = Zero
    /\ UNCHANGED <<sched, running, waits>>

(* case id := <-c.remove                                                   *)
RunRemove ==
    /\ Receive("remove")
    /\ entries' = removeEntry(entries, req.id)
    /\ removed' = removed \cup {req.id}
    /\ NextRound(clock)
    /\ UNCHANGED <<running, waits>>

-----------------------------------------------------------------------------
(* A started job.  Invocation v is inside the wrappers 1 .. v.layer - 1,   *)
(* and in the job itself when layer = Len(chain) + 1.                      *)

InJob(v) == v.layer = Len(chain) + 1

(* The entry's mutex of the DelayIfStillRunning wrapper at v.layer.        *)
MutexFree(v) == \A w \in invs : w.id = v.id => w.layer <= v.layer

Deeper(v) == invs' = (invs \ {v}) \cup {[v EXCEPT !.layer = @ + 1]}

(* Faulty: DelayIfStillRunning does not lock its mutex.                    *)
EnterWrapperNoLock(v) ==
    /\ ~InJob(v)
    /\ Deeper(v)
    /\ \/ chain[v.layer] \in {"recover", "delay"} /\ UNCHANGED tokens
       \/ /\ chain[v.layer] = "skip" /\ v.layer \in tokens
          /\ tokens' = tokens \ {v.layer}
    /\ UNCHANGED <<clock, chain, running, nextID, entries, run, caller, wg, waits, removed>>

EnterWrapper(v) ==
    /\ ~InJob(v)
    /\ Deeper(v)
    /\ \/ chain[v.layer] = "recover" /\ UNCHANGED tokens
       \/ chain[v.layer] = "delay" /\ MutexFree(v) /\ UNCHANGED tokens
       \/ /\ chain[v.layer] = "skip" /\ v.layer \in tokens
          /\ tokens' = tokens \ {v.layer}
    /\ UNCHANGED <<clock, chain, running, nextID, entries, run, caller, wg, waits, removed>>

(* Faulty: a goroutine blocked in Wait is not released.                    *)
DoneWithoutRelease(v) ==
    /\ invs' = invs \ {v}
    /\ wg' = wg - 1
    /\ UNCHANGED waits

(* jobWaiter.Done : at zero it releases every goroutine blocked in Wait.   *)
Done(v) ==
    /\ invs' = invs \ {v}
    /\ wg' = wg - 1
    /\ waits' = [i \in DOMAIN waits |->
                   IF wg = 1 /\ waits[i].state = "blocked"
                   THEN [waits[i] EXCEPT !.state = "done"] ELSE waits[i]]

(* The skip wrappers v is inside of that see it return: a panic passes     *)
(* through a wrapper unless a Recover further in stops it.                 *)
Refilled(v, panics) ==
    {k \in 1 .. v.layer - 1 :
        /\ chain[k] = "skip"
        /\ panics => \E r \in k + 1 .. v.layer - 1 : chain[r] = "recover"}

Leave(v, panics) ==
    /\ Done(v)
    /\ tokens' = tokens \cup Refilled(v, panics)
    /\ UNCHANGED <<clock, chain, running, nextID, entries, run, caller, removed>>

(* SkipIfStillRunning finds its channel empty.                             *)
Skip(v) ==
    /\ ~InJob(v) /\ chain[v.layer] = "skip" /\ v.layer \notin tokens
    /\ Leave(v, FALSE)

JobReturns(v) == InJob(v) /\ Leave(v, FALSE)

(* Without a Recover the panic would end the process.                      *)
JobPanics(v) ==
    /\ InJob(v) /\ \E k \in DOMAIN chain : chain[k] = "recover"
    /\ Leave(v, TRUE)

(* jobWaiter.Wait in the goroutine of Stop, then cancel().                 *)
WaitJobs(i) ==
    /\ waits[i].state = "new"
    /\ waits' = [waits EXCEPT ![i].state = IF wg = 0 THEN "done" ELSE "blocked"]
    /\ UNCHANGED <<clock, chain, running, nextID, entries, run, caller, jobs, removed>>

-----------------------------------------------------------------------------
Scheduler ==
    \/ RunInit \/ RunLoop \/ TimerFires \/ Wake
    \/ RunAdd \/ RunSnapshot \/ RunStop \/ RunRemove

JobSteps ==
    \/ \E v \in invs : EnterWrapper(v) \/ Skip(v) \/ JobReturns(v)
    \/ \E i \in DOMAIN waits : WaitJobs(i)

Next ==
    \/ Tick
    \/ \E s \in Schedules : Schedule(s)
    \/ \E id \in 1 .. nextID : Remove(id)
    \/ Start \/ Entries \/ Stop
    \/ Scheduler
    \/ JobSteps
    \/ \E v \in invs : JobPanics(v)

Spec == Init /\ [][Next]_vars

(* The clock runs, the Go scheduler runs every goroutine, and a job ends.  *)
FairSpec == Spec /\ WF_vars(Tick) /\ WF_vars(Scheduler) /\ WF_vars(JobSteps)

-----------------------------------------------------------------------------
(* Properties.                                                             *)

Entry == [id : Nat, sched : Schedules, next : Nat, prev : Nat]
SchedSteps == {"off", "init", "loop", "select"}
Requests == [op : {"none", "snapshot", "stop"}] \cup [op : {"add"}, entry : Entry]
            \cup [op : {"remove"}, id : Nat]
Invocation == [id : Nat, at : Nat, layer : Nat \ {0}]
WaitStates == {"new", "blocked", "done"}
Wait == [state : WaitStates, owed : SUBSET [id : Nat, at : Nat]]

TypeOK ==
    /\ clock \in 1 .. MaxClock /\ chain \in Chains
    /\ running \in BOOLEAN /\ sched \in SchedSteps
    /\ nextID \in Nat /\ entries \in Seq(Entry) /\ removed \subseteq Nat
    /\ now \in Nat /\ fireAt \in Nat /\ timerC \in Nat
    /\ req \in Requests /\ calls \in 0 .. MaxCalls
    /\ invs \subseteq Invocation /\ tokens \subseteq DOMAIN chain
    /\ wg \in Nat /\ waits \in Seq(Wait)

(* The goroutine run() starts for entry id in this step, if any.           *)
Started == {v \in invs' \ invs : v.layer = 1}

(* What the documentation of Remove and Stop promises for the future and   *)
(* Schedule for the present: a job is only started while the scheduler is  *)
(* running, never after Remove(id) has returned, not before its time, and  *)
(* at most once for each activation of its schedule.                       *)
StartsJustified ==
    [][\A v \in Started :
          /\ running
          /\ v.id \notin removed
          /\ v.at <= clock
          /\ \A i \in DOMAIN entries : entries[i].id = v.id =>
               v.at \in entries[i].sched /\ entries[i].prev < v.at]_vars

(* DelayIfStillRunning serializes the invocations of a job and             *)
(* SkipIfStillRunning never runs two of them at once (chain.go).           *)
NoOverlap ==
    (\E k \in DOMAIN chain : chain[k] \in {"delay", "skip"}) =>
        \A v, w \in invs : v.id = w.id /\ InJob(v) /\ InJob(w) => v = w

(* The context of Stop is not done while a job that was running when Stop  *)
(* was called still runs.                                                  *)
ContextMeansFinished ==
    \A i \in DOMAIN waits : waits[i].state = "done" =>
        \A v \in invs : [id |-> v.id, at |-> v.at] \notin waits[i].owed

(* A due entry is started, whatever requests reset the timer meanwhile,    *)
(* unless it is removed or the scheduler stopped first.                    *)
DueEntryStarts ==
    \A id \in 1 .. MaxEntries, a \in 1 .. MaxClock :
        LET pending == /\ running /\ a <= clock
                       /\ \E i \in DOMAIN entries : entries[i].id = id /\ entries[i].next = a
        IN  pending ~> ~pending

(* Nobody waits for ever: a caller that hands its request to the scheduler *)
(* is answered, and the context of every Stop is eventually done.          *)
EveryoneAnswered ==
    /\ req # NoReq ~> req = NoReq
    /\ \A i \in 1 .. MaxCalls :
          i \in DOMAIN waits ~> i \in DOMAIN waits /\ waits[i].state = "done"

(* The documentation of SkipIfStillRunning: an invocation is skipped if a  *)
(* previous invocation of the Job is still running, and only then.         *)
SkippedOnlyIfRunning ==
    [][\A v \in invs : Skip(v) => \E w \in invs : w.id = v.id /\ w.layer > v.layer]_vars

=============================================================================

--------------------------- MODULE OrmSessionProofs ---------------------------
(***************************************************************************)
(* Proofs about OrmSession: for any number of sessions, rows, operations   *)
(* and faults, a transaction leaves the table alone or adds all its writes *)
(* to it, nothing that was not committed reaches Mongo, and the mirror of  *)
(* closed sessions is the table where the history does not say why not.    *)
(* Then proofs about Pages: for any table and page size, a walk through    *)
(* the pages of FindList shows every row that stays once and in order.     *)
(***************************************************************************)
EXTENDS OrmSession, Pages, FiniteSetTheorems, SequenceTheorems, TLAPS

(* An entry of MGOSyncData with the same content for all its objects.      *)
LEMMA ConstEntry ==
    ASSUME NEW K \in SUBSET Keys, NEW op, NEW v,
           \/ op = "SAVE" /\ v \in Vals
           \/ op \in {"UPDATE", "UPDATE_BY_CND", "DELETE"} /\ v = None
    PROVE  [op |-> op, objs |-> [k \in K |-> v]] \in Entries
<1>1. CASE op = "SAVE" /\ v \in Vals
  <2>1. [k \in K |-> v] \in Objects(Vals)
    BY <1>1 DEF Objects
  <2> QED
    BY <1>1, <2>1 DEF Entries
<1>2. CASE op \in {"UPDATE", "UPDATE_BY_CND", "DELETE"} /\ v = None
  <2>1. [k \in K |-> v] \in Objects({None})
    BY <1>2 DEF Objects
  <2> QED
    BY <1>2, <2>1 DEF Entries
<1> QED
  BY <1>1, <1>2

(* The objects of an entry have keys as their ids.                         *)
LEMMA EntryDomain ==
    ASSUME NEW e \in Entries
    PROVE  DOMAIN e.objs \subseteq Keys
  BY DEF Entries, Objects

(* What a write appends: one entry of its kind, or nothing.                *)
LEMMA SyncEntryShape ==
    ASSUME TypeOK, ReqShape, NEW s \in Sessions
    PROVE  \/ SyncEntry(s) = <<>>
           \/ \E e \in Entries :
                 /\ SyncEntry(s) = <<e>>
                 /\ e.op = "SAVE" => req[s].op = "save" /\ DOMAIN e.objs = req[s].keys
<1> DEFINE objs == [k \in req[s].keys |-> req[s].val]
<1>1. req[s].keys \in SUBSET Keys
  BY DEF TypeOK, Requests
<1>2. NoObjects = [k \in {} |-> None]
  BY DEF NoObjects
<1>3. CASE req[s].op = "save"
  <2>1. [op |-> "SAVE", objs |-> objs] \in Entries
    BY <1>1, <1>3, ConstEntry DEF ReqShape
  <2>2. SyncEntry(s) = <<[op |-> "SAVE", objs |-> objs]>>
    BY <1>3 DEF SyncEntry
  <2> QED
    BY <1>3, <2>1, <2>2
<1>4. CASE req[s].op = "delete"
  <2>1. [op |-> "DELETE", objs |-> objs] \in Entries
    BY <1>1, <1>4, ConstEntry DEF ReqShape
  <2>2. SyncEntry(s) = <<[op |-> "DELETE", objs |-> objs]>>
    BY <1>4 DEF SyncEntry
  <2> QED
    BY <2>1, <2>2
<1>5. ASSUME NEW op \in {"UPDATE", "UPDATE_BY_CND", "DELETE"}
      PROVE  [op |-> op, objs |-> NoObjects] \in Entries
  BY <1>2, ConstEntry
<1>6. CASE req[s].op = "update"
  <2>1. SyncEntry(s) = <<[op |-> "UPDATE", objs |-> NoObjects]>>
    BY <1>6 DEF SyncEntry
  <2> QED
    BY <1>5, <2>1
<1>7. CASE req[s].op = "updateByCnd"
  <2>1. SyncEntry(s) = <<[op |-> "UPDATE_BY_CND", objs |-> NoObjects]>>
    BY <1>7 DEF SyncEntry
  <2> QED
    BY <1>5, <2>1
<1>8. CASE req[s].op = "deleteByCnd"
  <2>1. SyncEntry(s) = <<[op |-> "DELETE", objs |-> NoObjects]>>
    BY <1>8 DEF SyncEntry
  <2> QED
    BY <1>5, <2>1
<1>9. CASE req[s].op \notin {"save", "update", "updateByCnd", "delete", "deleteByCnd"}
  BY <1>9 DEF SyncEntry
<1> QED
  BY <1>3, <1>4, <1>6, <1>7, <1>8, <1>9

(* The rows a session sees and the rows its statement leaves are rows.     *)
LEMMA ViewType ==
    ASSUME TypeOK, NEW s \in Sessions
    PROVE  View(s) \in Rows
<1> SUFFICES ASSUME NEW k \in Keys
             PROVE  (IF pend[s][k] = Same THEN table[k] ELSE pend[s][k]) \in Vals \cup {None}
  BY DEF View, Over, Rows
<1>1. pend[s][k] \in Vals \cup {None, Same} /\ table[k] \in Vals \cup {None}
  BY DEF TypeOK, Rows
<1> QED
  BY <1>1

LEMMA EffectType ==
    ASSUME TypeOK, ReqShape, NEW s \in Sessions
    PROVE  Effect(s) \in Rows
<1> SUFFICES ASSUME NEW k \in Keys
             PROVE  (IF k \in req[s].keys THEN Changed(s, k) ELSE View(s)[k])
                        \in Vals \cup {None}
  BY DEF Effect, Rows
<1>1. View(s)[k] \in Vals \cup {None}
  BY ViewType DEF Rows
<1>2. Changed(s, k) \in Vals \cup {None}
  BY DEF Changed, ReqShape
<1> QED
  BY <1>1, <1>2

(* A write changes the table and the pending rows within their types, and  *)
(* what it changes is touched, in the table at once or by the transaction. *)
LEMMA WriteStep ==
    ASSUME TypeOK, ReqShape, NEW s \in Sessions, Write(s)
    PROVE  /\ table' \in Rows
           /\ pend' \in [Sessions -> [Keys -> Vals \cup {None, Same}]]
           /\ ever' \in SUBSET Keys
           /\ ever \subseteq ever'
           /\ \A u \in Sessions : u # s => pend'[u] = pend[u]
           /\ \A k \in Keys : pend[s][k] # Same => pend'[s][k] # Same
           /\ \A k \in Affected(s) : k \in ever' \/ pend'[s][k] # Same
           /\ ~tx[s] => pend' = pend
           /\ tx[s] => pend' = [pend EXCEPT ![s] = Added(s, pend[s])]
<1>1. Effect(s) \in Rows
  BY EffectType
<1>2. Affected(s) \subseteq Keys
  BY DEF Affected
<1>3. \A k \in Keys : Effect(s)[k] \in Vals \cup {None} /\ Effect(s)[k] # Same
  BY <1>1, OrmAssumption DEF Rows
<1>4. CASE tx[s]
  <2> DEFINE new == [k \in Keys |-> IF k \in Affected(s) THEN Effect(s)[k] ELSE pend[s][k]]
  <2> HIDE DEF new
  <2>1. pend' = [pend EXCEPT ![s] = new] /\ UNCHANGED <<table, ever>>
    BY <1>4 DEF Write, Added, new
  <2>2. pend[s] \in [Keys -> Vals \cup {None, Same}]
    BY DEF TypeOK
  <2>3. new \in [Keys -> Vals \cup {None, Same}]
    BY <1>3, <2>2 DEF new
  <2>4. pend'[s] = new
    BY <2>1 DEF TypeOK
  <2>5. \A k \in Keys : pend[s][k] # Same => new[k] # Same
    BY <1>3 DEF new
  <2>6. \A k \in Affected(s) : new[k] # Same
    BY <1>2, <1>3 DEF new
  <2>7. pend' \in [Sessions -> [Keys -> Vals \cup {None, Same}]]
    BY <2>1, <2>3 DEF TypeOK
  <2>8. table' \in Rows /\ ever' \in SUBSET Keys /\ ever \subseteq ever'
    BY <2>1 DEF TypeOK
  <2>9. pend' = [pend EXCEPT ![s] = Added(s, pend[s])]
    BY <1>4 DEF Write
  <2> QED
    BY <1>4, <2>1, <2>4, <2>5, <2>6, <2>7, <2>8, <2>9 DEF TypeOK
<1>5. CASE ~tx[s]
  <2>1. table' = Effect(s) /\ ever' = ever \cup Affected(s) /\ pend' = pend
    BY <1>5 DEF Write
  <2> QED
    BY <1>1, <1>2, <1>5, <2>1 DEF TypeOK
<1> QED
  BY <1>4, <1>5

(* A Save that can be executed affects all of its rows.                    *)
LEMMA SaveAffects ==
    ASSUME TypeOK, ReqShape, NEW s \in Sessions, req[s].op = "save", Executable(s)
    PROVE  req[s].keys \subseteq Affected(s)
<1> SUFFICES ASSUME NEW k \in req[s].keys
             PROVE  k \in Affected(s)
  OBVIOUS
<1>1. k \in Keys
  BY DEF TypeOK, Requests
<1>2. View(s)[k] = None
  BY DEF Executable, Duplicate
<1>3. Effect(s)[k] = req[s].val
  BY <1>1 DEF Effect, Changed
<1>4. req[s].val # None
  BY OrmAssumption DEF ReqShape
<1> QED
  BY <1>1, <1>2, <1>3, <1>4 DEF Affected

(* The history variable drift stays in its range.                          *)
LEMMA DriftType ==
    ASSUME TypeOK, NEW n \in 0 .. 2, Drift(n)
    PROVE  drift' \in 0 .. 2
  BY DEF TypeOK, Drift

LEMMA FaultType ==
    ASSUME TypeOK, Fault
    PROVE  faults' \in 0 .. MaxFaults
  BY OrmAssumption DEF TypeOK, Fault

(* A step that leaves MGOSyncData alone and takes no touch back.           *)
LEMMA KeepTouched ==
    ASSUME TypeOK, QueueTouched, UNCHANGED queue, ever \subseteq ever',
           \A s \in Sessions, k \in Keys : pend[s][k] # Same => pend'[s][k] # Same
    PROVE  QueueTouched'
<1> SUFFICES ASSUME NEW s \in Sessions, NEW i \in DOMAIN queue[s], queue[s][i].op = "SAVE",
                    NEW k \in DOMAIN queue[s][i].objs
             PROVE  k \in ever' \/ pend'[s][k] # Same
  BY DEF QueueTouched
<1>1. queue[s][i] \in Entries
  BY DEF TypeOK
<1>2. k \in Keys
  BY <1>1, EntryDomain
<1>3. k \in ever \/ pend[s][k] # Same
  BY DEF QueueTouched
<1> QED
  BY <1>2, <1>3

(* A step that appends at most the entry of a write to MGOSyncData.        *)
LEMMA AddTouched ==
    ASSUME IInv, NEW s \in Sessions, Executable(s), Write(s), AddSyncData(s)
    PROVE  queue' \in [Sessions -> Seq(Entries)] /\ QueueTouched'
<1>1. TypeOK /\ ReqShape /\ QueueTouched
  BY DEF IInv
<1>2. /\ ever \subseteq ever'
      /\ \A u \in Sessions : u # s => pend'[u] = pend[u]
      /\ \A k \in Keys : pend[s][k] # Same => pend'[s][k] # Same
      /\ \A k \in Affected(s) : k \in ever' \/ pend'[s][k] # Same
  BY <1>1, WriteStep
<1>3. \A u \in Sessions, k \in Keys : pend[u][k] # Same => pend'[u][k] # Same
  BY <1>2
<1>4. queue \in [Sessions -> Seq(Entries)]
  BY <1>1 DEF TypeOK
<1>5. CASE queue' = queue
  BY <1>1, <1>2, <1>3, <1>4, <1>5, KeepTouched
<1>6. CASE queue' # queue
  <2>1. queue' = [queue EXCEPT ![s] = queue[s] \o SyncEntry(s)] /\ SyncEntry(s) # <<>>
    <3>1. queue' = [queue EXCEPT ![s] = queue[s] \o SyncEntry(s)]
      BY <1>4, <1>6 DEF AddSyncData
    <3>2. queue[s] \o <<>> = queue[s]
      BY <1>4
    <3> QED
      BY <1>4, <1>6, <3>1, <3>2
  <2>2. PICK e \in Entries :
            /\ SyncEntry(s) = <<e>>
            /\ e.op = "SAVE" => req[s].op = "save" /\ DOMAIN e.objs = req[s].keys
    BY <1>1, <2>1, SyncEntryShape
  <2>3. queue' = [queue EXCEPT ![s] = queue[s] \o <<e>>]
    BY <2>1, <2>2
  <2>4. queue[s] \in Seq(Entries)
    BY <1>4
  <2>5. queue[s] \o <<e>> \in Seq(Entries)
    BY <2>4
  <2>6. queue' \in [Sessions -> Seq(Entries)]
    BY <1>4, <2>3, <2>5
  <2>7. ASSUME NEW u \in Sessions, NEW i \in DOMAIN queue'[u], queue'[u][i].op = "SAVE",
               NEW k \in DOMAIN queue'[u][i].objs
        PROVE  k \in ever' \/ pend'[u][k] # Same
    <3>1. k \in Keys
      <4>1. queue'[u][i] \in Entries
        BY <2>6
      <4> QED
        BY <2>7, <4>1, EntryDomain
    <3>2. CASE u # s
      <4>1. queue'[u] = queue[u]
        BY <1>4, <2>3, <3>2
      <4> QED
        BY <1>1, <1>2, <1>3, <2>7, <3>1, <4>1 DEF QueueTouched
    <3>3. CASE u = s /\ i \in DOMAIN queue[s]
      <4>1. queue'[s] = queue[s] \o <<e>>
        BY <1>4, <2>3
      <4>2. queue'[s][i] = queue[s][i]
        BY <2>4, <3>3, <4>1
      <4> QED
        BY <1>1, <1>2, <1>3, <2>7, <3>1, <3>3, <4>2 DEF QueueTouched
    <3>4. CASE u = s /\ i \notin DOMAIN queue[s]
      <4>1. queue'[s] = queue[s] \o <<e>>
        BY <1>4, <2>3
      <4>2. queue'[s][i] = e
        BY <2>4, <2>7, <3>4, <4>1
      <4>3. k \in req[s].keys /\ req[s].op = "save"
        BY <2>2, <2>7, <3>4, <4>2
      <4> QED
        BY <1>1, <1>2, <3>4, <4>3, SaveAffects
    <3> QED
      BY <3>2, <3>3, <3>4
  <2> QED
    BY <2>6, <2>7 DEF QueueTouched
<1> QED
  BY <1>5, <1>6

(* A new content for an object changes no entry's keys.                    *)
LEMMA RefreshTouched ==
    ASSUME TypeOK, QueueTouched, NEW s \in Sessions, NEW k \in Keys, NEW v \in Vals,
           Refresh(s, k, v), UNCHANGED <<ever, pend>>
    PROVE  queue' \in [Sessions -> Seq(Entries)] /\ QueueTouched'
<1> DEFINE upd(e) == IF e.op = "SAVE" /\ k \in DOMAIN e.objs
                     THEN [e EXCEPT !.objs[k] = v] ELSE e
<1>1. queue \in [Sessions -> Seq(Entries)] /\ queue[s] \in Seq(Entries)
  BY DEF TypeOK
<1>2. ASSUME NEW e \in Entries
      PROVE  /\ upd(e) \in Entries
             /\ upd(e).op = e.op
             /\ DOMAIN upd(e).objs = DOMAIN e.objs
  <2>1. CASE e.op = "SAVE" /\ k \in DOMAIN e.objs
    <3>1. e \in [op : {"SAVE"}, objs : Objects(Vals)]
      BY <1>2, <2>1 DEF Entries
    <3>2. PICK K \in SUBSET Keys : e.objs \in [K -> Vals]
      BY <3>1 DEF Objects
    <3>3. [e.objs EXCEPT ![k] = v] \in [K -> Vals]
      BY <3>2
    <3>4. upd(e) = [op |-> "SAVE", objs |-> [e.objs EXCEPT ![k] = v]]
      BY <2>1, <3>1
    <3>5. [e.objs EXCEPT ![k] = v] \in Objects(Vals)
      BY <3>3 DEF Objects
    <3> QED
      BY <2>1, <3>4, <3>5 DEF Entries
  <2>2. CASE ~(e.op = "SAVE" /\ k \in DOMAIN e.objs)
    BY <1>2, <2>2
  <2> QED
    BY <2>1, <2>2
<1>3. queue' = [queue EXCEPT ![s] = [i \in DOMAIN queue[s] |-> upd(queue[s][i])]]
  BY <1>1 DEF Refresh
<1> HIDE DEF upd
<1>4. [i \in DOMAIN queue[s] |-> upd(queue[s][i])] \in Seq(Entries)
  BY <1>1, <1>2
<1>5. queue' \in [Sessions -> Seq(Entries)]
  BY <1>1, <1>3, <1>4
<1>6. ASSUME NEW u \in Sessions, NEW i \in DOMAIN queue'[u], queue'[u][i].op = "SAVE",
             NEW j \in DOMAIN queue'[u][i].objs
      PROVE  j \in ever' \/ pend'[u][j] # Same
  <2>1. CASE u # s
    BY <1>1, <1>3, <1>6, <2>1 DEF QueueTouched
  <2>2. CASE u = s
    <3>1. i \in DOMAIN queue[s] /\ queue'[s][i] = upd(queue[s][i])
      BY <1>1, <1>3, <1>6, <2>2
    <3>2. queue[s][i] \in Entries
      BY <1>1, <3>1
    <3>3. queue[s][i].op = "SAVE" /\ j \in DOMAIN queue[s][i].objs
      BY <1>2, <1>6, <2>2, <3>1, <3>2
    <3> QED
      BY <2>2, <3>1, <3>3 DEF QueueTouched
  <2> QED
    BY <2>1, <2>2
<1> QED
  BY <1>5, <1>6 DEF QueueTouched

(* The manager is given up: its entries are gone.                          *)
LEMMA EndStep ==
    ASSUME IInv, NEW s \in Sessions, End(s), ever \subseteq ever', UNCHANGED <<mirror, req>>
    PROVE  /\ pc' \in [Sessions -> {"none", "open", "exec", "sync", "closed"}]
           /\ tx' \in [Sessions -> BOOLEAN]
           /\ errors' \in [Sessions -> BOOLEAN]
           /\ failed' \in [Sessions -> SUBSET Failures]
           /\ told' \in [Sessions -> [Keys -> Vals \cup {None, Same}]]
           /\ pend' \in [Sessions -> [Keys -> Vals \cup {None, Same}]]
           /\ queue' \in [Sessions -> Seq(Entries)]
           /\ FailuresKept' /\ ToldWritten' /\ QueueTouched' /\ SyncClean' /\ ReqShape' /\ MirrorOnlyCommitted'
<1>1. TypeOK
  BY DEF IInv
<1>2. NoWrites \in [Keys -> Vals \cup {None, Same}]
  BY DEF NoWrites
<1>3. /\ pc' \in [Sessions -> {"none", "open", "exec", "sync", "closed"}]
      /\ tx' \in [Sessions -> BOOLEAN]
      /\ errors' \in [Sessions -> BOOLEAN]
      /\ failed' \in [Sessions -> SUBSET Failures]
      /\ told' \in [Sessions -> [Keys -> Vals \cup {None, Same}]]
  BY <1>1, <1>2 DEF TypeOK, End
<1>4. pend' \in [Sessions -> [Keys -> Vals \cup {None, Same}]]
  BY <1>1, <1>2 DEF TypeOK, End
<1>5. queue' \in [Sessions -> Seq(Entries)]
  BY <1>1 DEF TypeOK, End
<1>6. FailuresKept' /\ ToldWritten'
  BY <1>1 DEF IInv, TypeOK, End, FailuresKept, ToldWritten
<1>7. QueueTouched'
  <2> SUFFICES ASSUME NEW u \in Sessions, NEW i \in DOMAIN queue'[u], queue'[u][i].op = "SAVE",
                      NEW k \in DOMAIN queue'[u][i].objs
               PROVE  k \in ever' \/ pend'[u][k] # Same
    BY DEF QueueTouched
  <2>1. u # s
    BY <1>1 DEF TypeOK, End
  <2>2. queue'[u] = queue[u] /\ pend'[u] = pend[u]
    BY <1>1, <2>1 DEF TypeOK, End
  <2> QED
    BY <2>2 DEF IInv, QueueTouched
<1>8. SyncClean'
  BY <1>1 DEF IInv, TypeOK, End, SyncClean
<1>9. ReqShape' /\ MirrorOnlyCommitted'
  BY DEF IInv, ReqShape, MirrorOnlyCommitted
<1> QED
  BY <1>3, <1>4, <1>5, <1>6, <1>7, <1>8, <1>9

(* The rows a session has pending are touched when they are committed, and *)
(* only then does Close synchronise.                                       *)
LEMMA BeginSyncStep ==
    ASSUME IInv, NEW s \in Sessions, BeginSync(s), ever \subseteq ever', UNCHANGED <<mirror, req>>,
           \A k \in Keys : pend[s][k] # Same => k \in ever'
    PROVE  /\ pc' \in [Sessions -> {"none", "open", "exec", "sync", "closed"}]
           /\ tx' \in [Sessions -> BOOLEAN]
           /\ errors' \in [Sessions -> BOOLEAN]
           /\ failed' \in [Sessions -> SUBSET Failures]
           /\ told' \in [Sessions -> [Keys -> Vals \cup {None, Same}]]
           /\ pend' \in [Sessions -> [Keys -> Vals \cup {None, Same}]]
           /\ queue' \in [Sessions -> Seq(Entries)]
           /\ FailuresKept' /\ ToldWritten' /\ QueueTouched' /\ SyncClean' /\ ReqShape' /\ MirrorOnlyCommitted'
<1>1. CASE End(s)
  BY <1>1, EndStep
<1>2. CASE ~End(s)
  <2>1. /\ pc' = [pc EXCEPT ![s] = "sync"]
        /\ pend' = [pend EXCEPT ![s] = NoWrites]
        /\ UNCHANGED <<tx, errors, failed, told, queue>>
    BY <1>2 DEF BeginSync
  <2>2. TypeOK
    BY DEF IInv
  <2>3. NoWrites \in [Keys -> Vals \cup {None, Same}]
    BY DEF NoWrites
  <2>4. pend' \in [Sessions -> [Keys -> Vals \cup {None, Same}]]
    BY <2>1, <2>2, <2>3 DEF TypeOK
  <2>5. QueueTouched'
    <3> SUFFICES ASSUME NEW u \in Sessions, NEW i \in DOMAIN queue[u], queue[u][i].op = "SAVE",
                        NEW k \in DOMAIN queue[u][i].objs
                 PROVE  k \in ever' \/ pend'[u][k] # Same
      BY <2>1 DEF QueueTouched
    <3>1. queue[u][i] \in Entries
      BY <2>2 DEF TypeOK
    <3>2. k \in Keys
      BY <3>1, EntryDomain
    <3>3. k \in ever \/ pend[u][k] # Same
      BY DEF IInv, QueueTouched
    <3>4. u # s => pend'[u] = pend[u]
      BY <2>1, <2>2 DEF TypeOK
    <3> QED
      BY <3>2, <3>3, <3>4
  <2>6. SyncClean'
    BY <2>1, <2>2 DEF IInv, TypeOK, SyncClean
  <2>7. FailuresKept' /\ ToldWritten' /\ ReqShape' /\ MirrorOnlyCommitted'
    BY <2>1, <2>2 DEF IInv, TypeOK, FailuresKept, ToldWritten, ReqShape, MirrorOnlyCommitted
  <2>8. /\ pc' \in [Sessions -> {"none", "open", "exec", "sync", "closed"}]
        /\ tx' \in [Sessions -> BOOLEAN] /\ errors' \in [Sessions -> BOOLEAN]
        /\ failed' \in [Sessions -> SUBSET Failures] /\ told' \in [Sessions -> [Keys -> Vals \cup {None, Same}]] /\ queue' \in [Sessions -> Seq(Entries)]
    BY <2>1, <2>2 DEF TypeOK
  <2> QED
    BY <2>4, <2>5, <2>6, <2>7, <2>8
<1> QED
  BY <1>1, <1>2

(* Mongo gets documents only of touched rows.                              *)
LEMMA SyncPartStep ==
    ASSUME IInv, NEW s \in Sessions, pc[s] = "sync", queue[s] # <<>>,
           NEW part \in SUBSET DOMAIN Head(queue[s]).objs, SyncPart(s, part),
           UNCHANGED <<pend, ever>>
    PROVE  /\ mirror' \in Rows
           /\ queue' \in [Sessions -> Seq(Entries)]
           /\ QueueTouched' /\ MirrorOnlyCommitted'
<1> DEFINE e == Head(queue[s])
<1>1. TypeOK /\ queue[s] \in Seq(Entries)
  BY DEF IInv, TypeOK
<1>2. e \in Entries /\ e = queue[s][1] /\ 1 \in DOMAIN queue[s] /\ Tail(queue[s]) \in Seq(Entries)
  BY <1>1
<1>3. DOMAIN e.objs \subseteq Keys
  BY <1>2, EntryDomain
<1>4. queue' = [queue EXCEPT ![s] = Tail(queue[s])]
  BY DEF SyncPart
<1>5. queue' \in [Sessions -> Seq(Entries)]
  BY <1>1, <1>2, <1>4 DEF TypeOK
<1>6. QueueTouched'
  <2> SUFFICES ASSUME NEW u \in Sessions, NEW i \in DOMAIN queue'[u], queue'[u][i].op = "SAVE",
                      NEW k \in DOMAIN queue'[u][i].objs
               PROVE  k \in ever \/ pend[u][k] # Same
    BY DEF QueueTouched
  <2>1. CASE u # s
    BY <1>1, <1>4, <2>1 DEF TypeOK, IInv, QueueTouched
  <2>2. CASE u = s
    <3>1. queue'[s] = Tail(queue[s])
      BY <1>1, <1>4 DEF TypeOK
    <3>2. i + 1 \in DOMAIN queue[s] /\ queue'[s][i] = queue[s][i + 1]
      BY <1>1, <2>2, <3>1
    <3> QED
      BY <2>2, <3>2 DEF IInv, QueueTouched
  <2> QED
    BY <2>1, <2>2
<1>7. CASE e.op = "SAVE"
  <2>1. e.objs \in Objects(Vals)
    BY <1>2, <1>7 DEF Entries
  <2>2. \A k \in part : e.objs[k] \in Vals
    BY <2>1 DEF Objects
  <2>3. mirror' = [k \in Keys |-> IF k \in part THEN e.objs[k] ELSE mirror[k]]
    BY <1>7 DEF SyncPart, MongoSave
  <2>4. \A k \in part : k \in ever
    <3>1. \A k \in DOMAIN e.objs : k \in ever \/ pend[s][k] # Same
      BY <1>2, <1>7 DEF IInv, QueueTouched
    <3>2. \A k \in Keys : pend[s][k] = Same
      BY DEF IInv, SyncClean, NoWrites
    <3> QED
      BY <1>3, <3>1, <3>2
  <2> QED
    BY <1>1, <1>5, <1>6, <2>2, <2>3, <2>4 DEF TypeOK, Rows, IInv, MirrorOnlyCommitted
<1>8. CASE e.op # "SAVE"
  <2>1. mirror' = [k \in Keys |-> IF k \in part THEN None ELSE mirror[k]]
    BY <1>8 DEF SyncPart, MongoDelete
  <2> QED
    BY <1>1, <1>5, <1>6, <2>1 DEF TypeOK, Rows, IInv, MirrorOnlyCommitted
<1> QED
  BY <1>7, <1>8

-----------------------------------------------------------------------------
(* Every action preserves the invariant.                                   *)

LEMMA InitIInv == Init => IInv
<1> SUFFICES ASSUME Init PROVE IInv
  OBVIOUS
<1>1. TypeOK
  <2>1. table \in Rows /\ mirror \in Rows
    BY DEF Init, Rows
  <2>2. NoWrites \in [Keys -> Vals \cup {None, Same}] /\ NoReq \in Requests
    BY DEF NoWrites, NoReq, Requests
  <2>3. queue \in [Sessions -> Seq(Entries)]
    BY DEF Init
  <2> QED
    BY <2>1, <2>2, <2>3, OrmAssumption DEF Init, TypeOK
<1>2. FailuresKept /\ ToldWritten /\ QueueTouched /\ SyncClean /\ ReqShape /\ MirrorOnlyCommitted
  BY DEF Init, FailuresKept, ToldWritten, QueueTouched, SyncClean, ReqShape, MirrorOnlyCommitted, NoReq
<1> QED
  BY <1>1, <1>2 DEF IInv

LEMMA GetDBStep ==
    ASSUME IInv, NEW s \in Sessions, NEW openTx \in BOOLEAN, GetDB(s, openTx)
    PROVE  IInv'
<1>1. TypeOK
  BY DEF IInv
<1>2. TypeOK'
  BY <1>1 DEF TypeOK, GetDB
<1>3. QueueTouched'
  BY <1>1, KeepTouched DEF IInv, GetDB
<1>4. FailuresKept' /\ ToldWritten' /\ SyncClean' /\ ReqShape' /\ MirrorOnlyCommitted'
  BY <1>1 DEF IInv, TypeOK, GetDB, FailuresKept, ToldWritten, SyncClean, ReqShape, MirrorOnlyCommitted
<1> QED
  BY <1>2, <1>3, <1>4 DEF IInv

(* All the operations send a statement through Call.                       *)
LEMMA CallStep ==
    ASSUME IInv, NEW s \in Sessions, NEW op \in WriteOps \cup ReadOps, NEW K \in SUBSET Keys,
           NEW v \in Vals \cup {None}, Call(s, op, K, v),
           op \in {"save", "update", "updateByCnd"} => v \in Vals,
           op = "delete" => v = None
    PROVE  IInv'
<1>1. TypeOK
  BY DEF IInv
<1>2. TypeOK'
  <2>1. [op |-> op, keys |-> K, val |-> v] \in Requests
    BY DEF Requests
  <2>2. req' \in [Sessions -> Requests]
    BY <1>1, <2>1 DEF TypeOK, Call
  <2> QED
    BY <1>1, <2>2, OrmAssumption DEF TypeOK, Call
<1>3. QueueTouched'
  BY <1>1, KeepTouched DEF IInv, Call
<1>4. ReqShape'
  BY <1>1 DEF IInv, TypeOK, Call, ReqShape
<1>5. FailuresKept' /\ ToldWritten' /\ SyncClean' /\ MirrorOnlyCommitted'
  BY <1>1 DEF IInv, TypeOK, Call, FailuresKept, ToldWritten, SyncClean, MirrorOnlyCommitted
<1> QED
  BY <1>2, <1>3, <1>4, <1>5 DEF IInv

LEMMA FailsType ==
    ASSUME NEW f \in [Sessions -> SUBSET Failures], NEW s \in Sessions, NEW kind \in Failures
    PROVE  [f EXCEPT ![s] = f[s] \cup {kind}] \in [Sessions -> SUBSET Failures]
<1>1. f[s] \cup {kind} \in SUBSET Failures
  OBVIOUS
<1> HIDE DEF Failures
<1>2. ASSUME NEW S, NEW e \in SUBSET S, NEW g \in [Sessions -> SUBSET S]
      PROVE  [g EXCEPT ![s] = e] \in [Sessions -> SUBSET S]
  OBVIOUS
<1> QED
  BY <1>1, <1>2

LEMMA RefuseStep ==
    ASSUME IInv, NEW s \in Sessions, Refuse(s) \/ RefuseModel(s)
    PROVE  IInv'
<1>1. TypeOK
  BY DEF IInv
<1>2. faults' \in 0 .. MaxFaults
  BY <1>1, FaultType DEF Refuse, RefuseModel, Refused
<1>3. PICK kind \in Failures :
        /\ failed' = [failed EXCEPT ![s] = failed[s] \cup {kind}]
        /\ UNCHANGED <<table, mirror, pc, tx, pend, queue, req, told, ever, drift>>
        /\ ops' = ops + 1 /\ ops < MaxOps
        /\ \/ UNCHANGED errors /\ kind = "primaryKey"
           \/ errors' = [errors EXCEPT ![s] = TRUE]
  BY DEF Refuse, RefuseModel, Refused, Fails, Failures, Error
<1>4. failed' \in [Sessions -> SUBSET Failures]
  <2>1. failed \in [Sessions -> SUBSET Failures]
    BY <1>1 DEF TypeOK
  <2>2. [failed EXCEPT ![s] = failed[s] \cup {kind}] \in [Sessions -> SUBSET Failures]
    BY <2>1, FailsType
  <2> QED
    BY <1>3, <2>2
<1>5. errors' \in [Sessions -> BOOLEAN] /\ ops' \in 0 .. MaxOps
  <2>1. errors \in [Sessions -> BOOLEAN] /\ ops \in 0 .. MaxOps
    BY <1>1 DEF TypeOK
  <2>2. errors' \in [Sessions -> BOOLEAN]
    BY <1>3, <2>1
  <2>3. ops' \in 0 .. MaxOps
    BY <1>3, <2>1, OrmAssumption
  <2> QED
    BY <2>2, <2>3
<1>6. TypeOK'
  BY <1>1, <1>2, <1>3, <1>4, <1>5 DEF TypeOK
<1>7. QueueTouched'
  BY <1>1, <1>3, KeepTouched DEF IInv
<1>8. FailuresKept'
  BY <1>1, <1>3 DEF IInv, TypeOK, FailuresKept
<1>9. ToldWritten' /\ SyncClean' /\ ReqShape' /\ MirrorOnlyCommitted'
  BY <1>1, <1>3 DEF IInv, TypeOK, ToldWritten, SyncClean, ReqShape, MirrorOnlyCommitted
<1> QED
  BY <1>6, <1>7, <1>8, <1>9 DEF IInv

LEMMA SetFieldStep ==
    ASSUME IInv, NEW s \in Sessions, NEW k \in Keys, NEW v \in Vals, SetField(s, k, v)
    PROVE  IInv'
<1>1. TypeOK /\ QueueTouched
  BY DEF IInv
<1>2. queue' \in [Sessions -> Seq(Entries)] /\ QueueTouched'
  BY <1>1, RefreshTouched DEF SetField
<1>3. drift' \in 0 .. 2
  BY <1>1, DriftType DEF SetField
<1>4. TypeOK'
  BY <1>1, <1>2, <1>3 DEF TypeOK, SetField
<1>5. FailuresKept' /\ ToldWritten' /\ SyncClean' /\ ReqShape' /\ MirrorOnlyCommitted'
  BY DEF IInv, SetField, FailuresKept, ToldWritten, SyncClean, ReqShape, MirrorOnlyCommitted
<1> QED
  BY <1>2, <1>4, <1>5 DEF IInv

(* A statement ends: the session is open again and has no request.         *)
LEMMA ReturnStep ==
    ASSUME IInv, NEW s \in Sessions, Return(s)
    PROVE  /\ pc' \in [Sessions -> {"none", "open", "exec", "sync", "closed"}]
           /\ req' \in [Sessions -> Requests]
           /\ ReqShape'
           /\ pc[s] = "exec" => \A u \in Sessions :
                 pc'[u] \notin {"open", "exec"} => pc[u] \notin {"open", "exec"} /\ u # s
<1>1. NoReq \in Requests
  BY DEF NoReq, Requests
<1>2. req' \in [Sessions -> Requests]
  BY <1>1 DEF IInv, TypeOK, Return
<1>3. ReqShape'
  BY DEF IInv, TypeOK, Return, ReqShape, NoReq
<1> QED
  BY <1>2, <1>3 DEF IInv, TypeOK, Return

LEMMA WriteReturnsStep ==
    ASSUME IInv, NEW s \in Sessions, WriteReturns(s)
    PROVE  IInv'
<1>1. TypeOK /\ ReqShape
  BY DEF IInv
<1>2. Write(s) /\ Executable(s) /\ AddSyncData(s) /\ Return(s)
  BY DEF WriteReturns
<1>3. /\ table' \in Rows
      /\ pend' \in [Sessions -> [Keys -> Vals \cup {None, Same}]]
      /\ ever' \in SUBSET Keys
      /\ ever \subseteq ever'
      /\ \A u \in Sessions : u # s => pend'[u] = pend[u]
      /\ ~tx[s] => pend' = pend
      /\ tx[s] => pend' = [pend EXCEPT ![s] = Added(s, pend[s])]
  BY <1>1, <1>2, WriteStep
<1>4. queue' \in [Sessions -> Seq(Entries)] /\ QueueTouched'
  BY <1>2, AddTouched
<1>5. /\ pc' \in [Sessions -> {"none", "open", "exec", "sync", "closed"}]
      /\ req' \in [Sessions -> Requests]
      /\ ReqShape'
      /\ pc[s] = "exec" => \A u \in Sessions :
            pc'[u] \notin {"open", "exec"} => pc[u] \notin {"open", "exec"} /\ u # s
  BY <1>2, ReturnStep
<1>6. drift' \in 0 .. 2
  <2>1. drift' \in {drift, 0, 1, 2}
    BY DEF WriteReturns, Drift
  <2> QED
    BY <1>1, <2>1 DEF TypeOK
<1>7. /\ told' = [told EXCEPT ![s] = IF tx[s] THEN Added(s, told[s]) ELSE told[s]]
      /\ UNCHANGED <<mirror, tx, errors, ops, faults, failed>>
      /\ pc[s] = "exec" /\ pc' = [pc EXCEPT ![s] = "open"]
  BY DEF WriteReturns, Return
<1>8. told' \in [Sessions -> [Keys -> Vals \cup {None, Same}]]
  <2>1. told[s] \in [Keys -> Vals \cup {None, Same}]
    BY <1>1 DEF TypeOK
  <2>2. \A k \in Keys : Effect(s)[k] \in Vals \cup {None}
    BY <1>1, EffectType DEF Rows
  <2>3. Added(s, told[s]) \in [Keys -> Vals \cup {None, Same}]
    BY <2>1, <2>2 DEF Added
  <2> QED
    BY <1>1, <1>7, <2>1, <2>3 DEF TypeOK
<1>9. TypeOK'
  BY <1>1, <1>3, <1>4, <1>5, <1>6, <1>7, <1>8 DEF TypeOK
<1>10. SyncClean'
  BY <1>1, <1>3, <1>5, <1>7 DEF IInv, TypeOK, SyncClean
<1>11. ToldWritten'
  <2> SUFFICES ASSUME NEW u \in Sessions, pc'[u] # "sync", ~errors[u]
               PROVE  told'[u] = pend'[u]
    BY <1>7 DEF ToldWritten
  <2>1. pc[u] # "sync"
    BY <1>1, <1>7 DEF TypeOK
  <2>2. told[u] = pend[u]
    BY <2>1 DEF IInv, ToldWritten
  <2> QED
    BY <1>1, <1>3, <1>7, <2>2 DEF TypeOK
<1>12. FailuresKept' /\ MirrorOnlyCommitted'
  BY <1>3, <1>7 DEF IInv, FailuresKept, MirrorOnlyCommitted
<1> QED
  BY <1>4, <1>5, <1>9, <1>10, <1>11, <1>12 DEF IInv

LEMMA WriteFailsStep ==
    ASSUME IInv, NEW s \in Sessions, WriteFails(s)
    PROVE  IInv'
<1>1. TypeOK /\ ReqShape /\ QueueTouched
  BY DEF IInv
<1>2. /\ pc' \in [Sessions -> {"none", "open", "exec", "sync", "closed"}]
      /\ req' \in [Sessions -> Requests]
      /\ ReqShape'
      /\ pc[s] = "exec" => \A u \in Sessions :
            pc'[u] \notin {"open", "exec"} => pc[u] \notin {"open", "exec"} /\ u # s
  BY ReturnStep DEF WriteFails
<1>3. /\ table' \in Rows
      /\ pend' \in [Sessions -> [Keys -> Vals \cup {None, Same}]]
      /\ ever' \in SUBSET Keys
      /\ ever \subseteq ever'
      /\ \A u \in Sessions : u # s => pend'[u] = pend[u]
      /\ \A k \in Keys : pend[s][k] # Same => pend'[s][k] # Same
      /\ ~tx[s] => pend' = pend
  <2>1. CASE UNCHANGED <<table, pend, ever>>
    BY <1>1, <2>1 DEF TypeOK
  <2>2. CASE Write(s)
    BY <1>1, <2>2, WriteStep
  <2> QED
    BY <2>1, <2>2 DEF WriteFails
<1>4. drift' \in 0 .. 2 /\ faults' \in 0 .. MaxFaults
  <2>1. drift' \in {drift, 0, 1, 2}
    BY DEF WriteFails, Drift
  <2>2. UNCHANGED faults \/ Fault
    BY DEF WriteFails
  <2> QED
    BY <1>1, <2>1, <2>2, FaultType DEF TypeOK
<1>5. TypeOK'
  BY <1>1, <1>2, <1>3, <1>4 DEF TypeOK, WriteFails, Error, Fails, Failures
<1>6. QueueTouched'
  <2>1. \A u \in Sessions, k \in Keys : pend[u][k] # Same => pend'[u][k] # Same
    BY <1>3
  <2> QED
    BY <1>1, <1>3, <2>1, KeepTouched DEF WriteFails
<1>7. SyncClean'
  BY <1>1, <1>2, <1>3 DEF IInv, TypeOK, SyncClean, WriteFails
<1>8. FailuresKept' /\ MirrorOnlyCommitted'
  BY <1>1, <1>3 DEF IInv, TypeOK, WriteFails, Error, Fails, FailuresKept, MirrorOnlyCommitted
<1>9. ToldWritten'
  BY <1>1, <1>3 DEF IInv, TypeOK, WriteFails, Return, Error, ToldWritten
<1> QED
  BY <1>2, <1>5, <1>6, <1>7, <1>8, <1>9 DEF IInv

LEMMA ReadReturnsStep ==
    ASSUME IInv, NEW s \in Sessions, ReadReturns(s)
    PROVE  IInv'
<1>1. TypeOK /\ QueueTouched
  BY DEF IInv
<1>2. /\ pc' \in [Sessions -> {"none", "open", "exec", "sync", "closed"}]
      /\ req' \in [Sessions -> Requests]
      /\ ReqShape'
      /\ pc[s] = "exec" => \A u \in Sessions :
            pc'[u] \notin {"open", "exec"} => pc[u] \notin {"open", "exec"} /\ u # s
  BY ReturnStep DEF ReadReturns
<1>3. queue' \in [Sessions -> Seq(Entries)] /\ QueueTouched'
  <2>1. CASE UNCHANGED queue
    BY <1>1, <2>1, KeepTouched DEF TypeOK, ReadReturns
  <2>2. CASE \E k \in req[s].keys : View(s)[k] # None /\ Refresh(s, k, View(s)[k])
    <3>1. PICK k \in req[s].keys : View(s)[k] # None /\ Refresh(s, k, View(s)[k])
      BY <2>2
    <3>2. k \in Keys
      BY <1>1 DEF TypeOK, Requests
    <3>3. View(s)[k] \in Vals
      BY <1>1, <3>1, <3>2, ViewType DEF Rows
    <3> QED
      BY <1>1, <3>1, <3>2, <3>3, RefreshTouched DEF ReadReturns
  <2> QED
    BY <2>1, <2>2 DEF ReadReturns
<1>4. drift' \in 0 .. 2
  <2>1. drift' \in {drift, 0, 1, 2}
    BY DEF ReadReturns, Drift
  <2> QED
    BY <1>1, <2>1 DEF TypeOK
<1>5. TypeOK'
  BY <1>1, <1>2, <1>3, <1>4 DEF TypeOK, ReadReturns
<1>6. FailuresKept' /\ SyncClean' /\ MirrorOnlyCommitted'
  BY <1>1, <1>2 DEF IInv, TypeOK, ReadReturns, FailuresKept, SyncClean, MirrorOnlyCommitted
<1>7. ToldWritten'
  BY <1>1 DEF IInv, TypeOK, ReadReturns, Return, ToldWritten
<1> QED
  BY <1>2, <1>3, <1>5, <1>6, <1>7 DEF IInv

LEMMA ReadFailsStep ==
    ASSUME IInv, NEW s \in Sessions, ReadFails(s) \/ CountQueryFails(s)
    PROVE  IInv'
<1>1. TypeOK /\ QueueTouched
  BY DEF IInv
<1>2. /\ pc' \in [Sessions -> {"none", "open", "exec", "sync", "closed"}]
      /\ req' \in [Sessions -> Requests]
      /\ ReqShape'
      /\ pc[s] = "exec" => \A u \in Sessions :
            pc'[u] \notin {"open", "exec"} => pc[u] \notin {"open", "exec"} /\ u # s
  BY ReturnStep DEF ReadFails, CountQueryFails
<1>3. /\ UNCHANGED <<table, mirror, tx, pend, queue, ops, told, ever, drift>>
      /\ \/ /\ UNCHANGED errors
            /\ failed' = [failed EXCEPT ![s] = failed[s] \cup {"countQuery"}]
         \/ /\ errors' = [errors EXCEPT ![s] = TRUE]
            /\ failed' = [failed EXCEPT ![s] = failed[s] \cup {"statement"}]
      /\ pc[s] = "exec" /\ pc' = [pc EXCEPT ![s] = "open"]
  BY DEF ReadFails, CountQueryFails, Error, Fails, Return
<1>4. faults' \in 0 .. MaxFaults
  BY <1>1, FaultType DEF ReadFails, CountQueryFails
<1>5. /\ errors' \in [Sessions -> BOOLEAN] /\ failed' \in [Sessions -> SUBSET Failures]
      /\ told' \in [Sessions -> [Keys -> Vals \cup {None, Same}]]
      /\ FailuresKept' /\ ToldWritten'
  <2>1. "countQuery" \in Failures /\ "statement" \in Failures
    BY DEF Failures
  <2>2. \A kind \in Failures :
            [failed EXCEPT ![s] = failed[s] \cup {kind}] \in [Sessions -> SUBSET Failures]
    BY <1>1, FailsType DEF TypeOK
  <2>3. /\ errors' \in [Sessions -> BOOLEAN]
        /\ told' \in [Sessions -> [Keys -> Vals \cup {None, Same}]]
    BY <1>1, <1>3 DEF TypeOK
  <2>4. failed' \in [Sessions -> SUBSET Failures]
    BY <1>3, <2>1, <2>2
  <2>5. FailuresKept'
    <3> SUFFICES ASSUME NEW u \in Sessions, ~errors'[u]
                 PROVE  failed'[u] \subseteq {"primaryKey", "countQuery"}
      BY DEF FailuresKept
    <3>1. ~errors[u] /\ (u = s => UNCHANGED errors)
      BY <1>1, <1>3 DEF TypeOK
    <3>2. failed[u] \subseteq {"primaryKey", "countQuery"}
      BY <3>1 DEF IInv, FailuresKept
    <3>3. failed'[u] = failed[u] \/ failed'[u] = failed[u] \cup {"countQuery"}
      BY <1>1, <1>3 DEF TypeOK
    <3> QED
      BY <3>2, <3>3
  <2>6. ToldWritten'
    BY <1>1, <1>3 DEF IInv, TypeOK, ToldWritten
  <2> QED
    BY <2>3, <2>4, <2>5, <2>6
<1>6. TypeOK'
  BY <1>1, <1>2, <1>3, <1>4, <1>5 DEF TypeOK
<1>7. QueueTouched'
  BY <1>1, <1>3, KeepTouched
<1>8. SyncClean' /\ MirrorOnlyCommitted'
  BY <1>1, <1>2, <1>3 DEF IInv, TypeOK, SyncClean, MirrorOnlyCommitted, ReadFails, CountQueryFails
<1> QED
  BY <1>2, <1>5, <1>6, <1>7, <1>8 DEF IInv

(* The commit makes the pending rows the table's.                          *)
LEMMA CommitStep ==
    ASSUME IInv, NEW s \in Sessions, Commit(s)
    PROVE  /\ table' \in Rows
           /\ ever' \in SUBSET Keys
           /\ ever \subseteq ever'
           /\ \A k \in Keys : pend[s][k] # Same => k \in ever'
<1>1. table' \in Rows
  BY ViewType DEF IInv, Commit
<1> QED
  BY <1>1 DEF IInv, TypeOK, Commit

LEMMA CloseStep ==
    ASSUME IInv, NEW s \in Sessions, Close(s)
    PROVE  IInv'
<1>1. TypeOK
  BY DEF IInv
<1>2. CASE CloseCommits(s)
  <2>1. /\ table' \in Rows /\ ever' \in SUBSET Keys /\ ever \subseteq ever'
        /\ \A k \in Keys : pend[s][k] # Same => k \in ever'
    BY <1>2, CommitStep DEF CloseCommits
  <2>2. drift' \in 0 .. 2
    <3>1. drift' \in {drift, 0, 1, 2}
      BY <1>2 DEF CloseCommits, Drift
    <3> QED
      BY <1>1, <3>1 DEF TypeOK
  <2>3. BeginSync(s) /\ UNCHANGED <<mirror, req, ops, faults>>
    BY <1>2 DEF CloseCommits
  <2> QED
    BY <1>1, <2>1, <2>2, <2>3, BeginSyncStep DEF IInv, TypeOK
<1>3. CASE CloseCommitFails(s)
  <2>1. table' \in Rows /\ ever' \in SUBSET Keys /\ ever \subseteq ever'
    <3>1. CASE UNCHANGED <<table, ever>>
      BY <1>1, <3>1 DEF TypeOK
    <3>2. CASE Commit(s)
      BY <3>2, CommitStep
    <3> QED
      BY <1>3, <3>1, <3>2 DEF CloseCommitFails
  <2>2. drift' \in 0 .. 2 /\ faults' \in 0 .. MaxFaults
    <3>1. drift' \in {drift, 0, 1, 2}
      BY <1>3 DEF CloseCommitFails, Drift
    <3> QED
      BY <1>1, <1>3, <3>1, FaultType DEF TypeOK, CloseCommitFails
  <2>3. End(s) /\ UNCHANGED <<mirror, req, ops>>
    BY <1>3 DEF CloseCommitFails
  <2> QED
    BY <1>1, <2>1, <2>2, <2>3, EndStep DEF IInv, TypeOK
<1>4. CASE CloseRollsBack(s)
  <2>1. End(s) /\ UNCHANGED <<table, mirror, req, ops, faults, ever, drift>>
    BY <1>4 DEF CloseRollsBack
  <2> QED
    BY <1>1, <2>1, EndStep DEF IInv, TypeOK
<1>5. CASE CloseAutoCommit(s)
  <2>1. drift' \in 0 .. 2
    <3>1. drift' \in {drift, 0, 1, 2}
      BY <1>5 DEF CloseAutoCommit, Drift
    <3> QED
      BY <1>1, <3>1 DEF TypeOK
  <2>2. BeginSync(s) /\ UNCHANGED <<table, mirror, req, ops, faults, ever>>
    BY <1>5 DEF CloseAutoCommit
  <2>3. \A k \in Keys : pend[s][k] = Same
    BY <1>5 DEF IInv, SyncClean, NoWrites, CloseAutoCommit
  <2> QED
    BY <1>1, <2>1, <2>2, <2>3, BeginSyncStep DEF IInv, TypeOK
<1> QED
  BY <1>2, <1>3, <1>4, <1>5 DEF Close

LEMMA SyncStep ==
    ASSUME IInv, NEW s \in Sessions, CloseGoesOn(s)
    PROVE  IInv'
<1>1. TypeOK
  BY DEF IInv
<1>2. CASE MongoSyncData(s) \/ MongoSyncFails(s)
  <2>1. /\ pc[s] = "sync" /\ queue[s] # <<>>
        /\ UNCHANGED <<table, pc, tx, errors, pend, req, ops, failed, told, ever>>
    BY <1>2 DEF MongoSyncData, MongoSyncFails
  <2>2. \E part \in SUBSET DOMAIN Head(queue[s]).objs : SyncPart(s, part)
    BY <1>2 DEF MongoSyncData, MongoSyncFails
  <2>3. mirror' \in Rows /\ queue' \in [Sessions -> Seq(Entries)] /\ QueueTouched'
           /\ MirrorOnlyCommitted'
    BY <2>1, <2>2, SyncPartStep
  <2>4. drift' \in 0 .. 2 /\ faults' \in 0 .. MaxFaults
    <3>1. drift' \in {drift, 0, 1, 2}
      BY <1>2 DEF MongoSyncData, MongoSyncFails, Drift
    <3>2. UNCHANGED faults \/ Fault
      BY <1>2 DEF MongoSyncData, MongoSyncFails
    <3> QED
      BY <1>1, <3>1, <3>2, FaultType DEF TypeOK
  <2>5. TypeOK'
    BY <1>1, <2>1, <2>3, <2>4 DEF TypeOK
  <2>6. FailuresKept' /\ ToldWritten' /\ SyncClean' /\ ReqShape'
    BY <2>1 DEF IInv, FailuresKept, ToldWritten, SyncClean, ReqShape
  <2> QED
    BY <2>3, <2>5, <2>6 DEF IInv
<1>3. CASE CloseReturns(s)
  <2>1. End(s) /\ UNCHANGED <<table, mirror, req, ops, faults, ever, drift>>
    BY <1>3 DEF CloseReturns
  <2> QED
    BY <1>1, <2>1, EndStep DEF IInv, TypeOK
<1> QED
  BY <1>2, <1>3 DEF CloseGoesOn

LEMMA OperationStep ==
    ASSUME IInv, NEW s \in Sessions, Operation(s)
    PROVE  IInv'
<1>1. CASE \E openTx \in BOOLEAN : GetDB(s, openTx)
  BY <1>1, GetDBStep
<1>2. CASE \E K \in SUBSET Keys, v \in Vals : Save(s, K, v) \/ UpdateByCnd(s, K, v)
  BY <1>2, CallStep DEF Save, UpdateByCnd, WriteOps
<1>3. CASE \E K \in SUBSET Keys : Delete(s, K) \/ DeleteById(s, K) \/ DeleteByCnd(s, K)
  BY <1>3, CallStep DEF Delete, DeleteById, DeleteByCnd, WriteOps
<1>4. CASE \E k \in Keys : FindById(s, k) \/ FindOne(s, k) \/ FindOneComplex(s, k)
  BY <1>4, CallStep DEF FindById, FindOne, FindOneComplex, ReadOps
<1>5. CASE FindList(s) \/ FindListComplex(s) \/ Count(s) \/ Exists(s)
  BY <1>5, CallStep DEF FindList, FindListComplex, Count, Exists, ReadOps
<1>6. CASE Refuse(s) \/ RefuseModel(s)
  BY <1>6, RefuseStep
<1>7. CASE \E k \in Keys, v \in Vals : Update(s, k, v)
  BY <1>7, CallStep DEF Update, WriteOps
<1>8. CASE \E k \in Keys, v \in Vals : SetField(s, k, v)
  BY <1>8, SetFieldStep
<1> QED
  BY <1>1, <1>2, <1>3, <1>4, <1>5, <1>6, <1>7, <1>8 DEF Operation

LEMMA NextIInv == IInv /\ [Next]_vars => IInv'
<1> SUFFICES ASSUME IInv, [Next]_vars PROVE IInv'
  OBVIOUS
<1>1. ASSUME NEW s \in Sessions, Operation(s) PROVE IInv'
  BY <1>1, OperationStep
<1>2. ASSUME NEW s \in Sessions, StatementEnds(s) PROVE IInv'
  BY <1>2, WriteReturnsStep, WriteFailsStep, ReadReturnsStep, ReadFailsStep DEF StatementEnds
<1>3. ASSUME NEW s \in Sessions, Close(s) PROVE IInv'
  BY <1>3, CloseStep
<1>4. ASSUME NEW s \in Sessions, CloseGoesOn(s) PROVE IInv'
  BY <1>4, SyncStep
<1>5. CASE UNCHANGED vars
  BY <1>5 DEF vars, session, IInv, TypeOK, FailuresKept, ToldWritten, QueueTouched, SyncClean, ReqShape,
              MirrorOnlyCommitted
<1> QED
  BY <1>1, <1>2, <1>3, <1>4, <1>5 DEF Next

(* The invariant: what failed is in Errors, only an open transaction has   *)
(* uncommitted rows, and every SAVE that waits for Close is of a row whose *)
(* write is committed or will be before the synchronisation.               *)
THEOREM Invariance == Spec => []IInv
  BY InitIInv, NextIInv, PTL DEF Spec

(* Every variable keeps its type.                                          *)
THEOREM TypeCorrect == Spec => []TypeOK
  BY Invariance, PTL DEF IInv

(* Nothing reaches Mongo that was not committed to MySQL (Close,           *)
(* 1586-1607).                                                             *)
THEOREM MirrorIsCommitted == Spec => []MirrorOnlyCommitted
  BY Invariance, PTL DEF IInv

(* The table changes in a step of a session in a transaction only by its   *)
(* commit, which needs Errors to be nil and adds the pending rows.         *)
LEMMA ClosedStep ==
    ASSUME IInv, [Next]_vars, NEW s \in Sessions, tx[s], pc'[s] # pc[s]
    PROVE  \/ table' = table
           \/ /\ failed[s] \subseteq {"primaryKey", "countQuery"}
              /\ table' = Over(table, told[s])
<1>1. pc \in [Sessions -> {"none", "open", "exec", "sync", "closed"}]
  BY DEF IInv, TypeOK
<1>2. PICK u \in Sessions : Operation(u) \/ StatementEnds(u) \/ Close(u) \/ CloseGoesOn(u)
  BY DEF Next, vars, session
<1>3. u = s
  <2>1. \E v : pc' = [pc EXCEPT ![u] = v]
    <3>1. CASE Operation(u)
      BY <1>1, <3>1 DEF Operation, GetDB, Call, Save, UpdateByCnd, Delete, DeleteById, DeleteByCnd,
         FindById, FindOne, FindOneComplex, FindList, FindListComplex, Count, Exists, Refuse,
         RefuseModel, Refused, Update, SetField
    <3>2. CASE StatementEnds(u)
      BY <3>2 DEF StatementEnds, WriteReturns, WriteFails, ReadReturns, ReadFails,
         CountQueryFails, Return
    <3>3. CASE Close(u)
      BY <3>3 DEF Close, CloseCommits, CloseCommitFails, CloseRollsBack, CloseAutoCommit,
         BeginSync, End
    <3>4. CASE CloseGoesOn(u)
      BY <1>1, <3>4 DEF CloseGoesOn, MongoSyncData, MongoSyncFails, CloseReturns, End
    <3> QED
      BY <1>2, <3>1, <3>2, <3>3, <3>4
  <2> QED
    BY <1>1, <2>1
<1>4. CASE Operation(s)
  BY <1>4 DEF Operation, GetDB, Call, Save, UpdateByCnd, Delete, DeleteById, DeleteByCnd,
     FindById, FindOne, FindOneComplex, FindList, FindListComplex, Count, Exists, Refuse,
     RefuseModel, Refused, Update, SetField
<1>5. CASE StatementEnds(s)
  BY <1>5 DEF StatementEnds, WriteReturns, WriteFails, ReadReturns, ReadFails,
     CountQueryFails, Write
<1>6. CASE Close(s)
  <2>1. CASE table' = table
    BY <2>1
  <2>2. CASE Commit(s) /\ pc[s] = "open" /\ ~errors[s]
    <3>1. told[s] = pend[s] /\ failed[s] \subseteq {"primaryKey", "countQuery"}
      BY <2>2 DEF IInv, ToldWritten, FailuresKept
    <3> QED
      BY <2>2, <3>1 DEF Commit, View
  <2> QED
    BY <1>6, <2>1, <2>2
       DEF Close, CloseCommits, CloseCommitFails, CloseRollsBack, CloseAutoCommit
<1>7. CASE CloseGoesOn(s)
  BY <1>7 DEF CloseGoesOn, MongoSyncData, MongoSyncFails, CloseReturns
<1> QED
  BY <1>2, <1>3, <1>4, <1>5, <1>6, <1>7

(* A transaction leaves the table alone or adds exactly the writes that    *)
(* returned no error, the latter only if no statement of it failed and no  *)
(* arguments were refused.                                                 *)
THEOREM TransactionsAreAtomic == Spec => AllOrNothing
<1>1. IInv /\ [Next]_vars
        => [\A s \in Sessions : tx[s] /\ pc'[s] # pc[s] =>
              \/ table' = table
              \/ /\ failed[s] \subseteq {"primaryKey", "countQuery"}
                 /\ table' = Over(table, told[s])]_vars
  BY ClosedStep
<1> QED
  BY <1>1, Invariance, PTL DEF Spec, AllOrNothing

-----------------------------------------------------------------------------
(* The mirror.  What MongoSync still has to repeat is in MGOSyncData; of   *)
(* the entries that name a row the last one decides.                       *)

Named(s, i, k) == k \in DOMAIN queue[s][i].objs
Waits(s, k) == \E i \in DOMAIN queue[s] : Named(s, i, k)
Last(s, i, k) == Named(s, i, k) /\ \A j \in DOMAIN queue[s] : j > i => ~Named(s, j, k)
Outcome(e, k) == IF e.op = "SAVE" THEN e.objs[k] ELSE None

(* A session that will be rolled back; one whose writes are in the table.  *)
Doomed(s) == tx[s] /\ errors[s]
Exposed(s) == ~tx[s] \/ pc[s] = "sync"

(* The queue of a session leaves a row as the session sees it.             *)
QueueEnds ==
    \A s \in Sessions, k \in Keys : \A i \in DOMAIN queue[s] :
        ~Doomed(s) /\ Last(s, i, k) => Outcome(queue[s][i], k) = View(s)[k]

(* A row that Mongo does not show as it is waits to be repeated.           *)
MirrorWaits ==
    \A k \in Keys : mirror[k] = table[k] \/ \E s \in Sessions : Exposed(s) /\ Waits(s, k)

(* A row that is written and not committed waits to be repeated.           *)
PendWaits ==
    \A s \in Sessions, k \in Keys : ~errors[s] /\ pend[s][k] # Same => Waits(s, k)

(* The places of a session without a queue, and of one that repeats it.    *)
Phases ==
    \A s \in Sessions :
        /\ pc[s] \in {"none", "closed"} => queue[s] = <<>>
        /\ pc[s] = "sync" => ~errors[s]

Repeats == QueueEnds /\ MirrorWaits /\ PendWaits

SyncInv == IInv /\ Phases /\ (drift = 0 => Repeats)

(* A step without drift had none before and adds none.                     *)
LEMMA DriftZero ==
    ASSUME TypeOK, NEW n \in 0 .. 2, Drift(n), drift' = 0
    PROVE  drift = 0 /\ n = 0
  BY DEF TypeOK, Drift

(* A step of one session and its place.                                    *)
LEMMA PhaseFrame ==
    ASSUME Phases, NEW s \in Sessions,
           \A u \in Sessions : u # s => /\ pc'[u] = pc[u] /\ queue'[u] = queue[u]
                                        /\ errors'[u] = errors[u],
           pc'[s] \in {"none", "closed"} => queue'[s] = <<>>,
           pc'[s] = "sync" => ~errors'[s]
    PROVE  Phases'
  BY DEF Phases

(* A step that leaves the rows and the queues alone: no session that can   *)
(* still commit sees other rows, and none with a queue hides it.           *)
LEMMA SameRows ==
    ASSUME Repeats, UNCHANGED <<table, mirror, queue>>,
           \A s \in Sessions : pend'[s] = pend[s] \/ Doomed(s)',
           \A s \in Sessions : Doomed(s) => Doomed(s)' \/ queue[s] = <<>>,
           \A s \in Sessions : Exposed(s) => Exposed(s)' \/ queue[s] = <<>>,
           \A s \in Sessions : errors[s] => errors'[s]
    PROVE  Repeats'
<1>1. \A s \in Sessions, k \in Keys : Waits(s, k)' = Waits(s, k)
  BY DEF Waits, Named
<1>2. \A s \in Sessions, k \in Keys : Waits(s, k) => queue[s] # <<>>
  BY DEF Waits
<1>3. QueueEnds'
  <2> SUFFICES ASSUME NEW s \in Sessions, NEW k \in Keys, NEW i \in DOMAIN queue[s],
                      ~Doomed(s)', Last(s, i, k)'
               PROVE  Outcome(queue[s][i], k) = View(s)'[k]
    BY DEF QueueEnds
  <2>1. Last(s, i, k) /\ queue[s] # <<>>
    BY DEF Last, Named
  <2>2. ~Doomed(s) /\ View(s)' = View(s)
    BY <2>1 DEF View, Over
  <2> QED
    BY <2>1, <2>2 DEF Repeats, QueueEnds
<1>4. MirrorWaits'
  <2> SUFFICES ASSUME NEW k \in Keys, mirror[k] # table[k]
               PROVE  \E s \in Sessions : Exposed(s)' /\ Waits(s, k)'
    BY DEF MirrorWaits
  <2>1. PICK s \in Sessions : Exposed(s) /\ Waits(s, k)
    BY DEF Repeats, MirrorWaits
  <2>2. Exposed(s)' /\ Waits(s, k)'
    BY <1>1, <1>2, <2>1
  <2> QED
    BY <2>2
<1>5. PendWaits'
  <2> SUFFICES ASSUME NEW s \in Sessions, NEW k \in Keys, ~errors'[s], pend'[s][k] # Same
               PROVE  Waits(s, k)'
    BY DEF PendWaits
  <2>1. ~errors[s] /\ pend'[s] = pend[s]
    BY DEF Doomed
  <2> QED
    BY <1>1, <2>1 DEF Repeats, PendWaits
<1> QED
  BY <1>3, <1>4, <1>5 DEF Repeats

(* Close returns: the session had nothing more to repeat, or nothing of it *)
(* is in the table.                                                        *)
LEMMA EndRepeats ==
    ASSUME IInv, Repeats, NEW s \in Sessions, End(s), UNCHANGED <<table, mirror>>,
           queue[s] = <<>> \/ ~Exposed(s)
    PROVE  Repeats'
<1>1. /\ \A u \in Sessions : u # s => /\ pc'[u] = pc[u] /\ tx'[u] = tx[u] /\ errors'[u] = errors[u]
                                      /\ pend'[u] = pend[u] /\ queue'[u] = queue[u]
      /\ queue'[s] = <<>> /\ pend'[s] = NoWrites
  BY DEF IInv, TypeOK, End
<1>2. \A u \in Sessions : u # s => /\ View(u)' = View(u) /\ (Doomed(u)' <=> Doomed(u))
                                   /\ (Exposed(u)' <=> Exposed(u))
                                   /\ \A k \in Keys : Waits(u, k)' <=> Waits(u, k)
  BY <1>1 DEF View, Over, Doomed, Exposed, Waits, Named
<1>3. QueueEnds'
  <2> SUFFICES ASSUME NEW u \in Sessions, NEW k \in Keys, NEW i \in DOMAIN queue'[u],
                      ~Doomed(u)', Last(u, i, k)'
               PROVE  Outcome(queue'[u][i], k) = View(u)'[k]
    BY DEF QueueEnds
  <2>1. u # s
    BY <1>1
  <2>2. Last(u, i, k) /\ queue'[u] = queue[u]
    BY <1>1, <2>1 DEF Last, Named
  <2> QED
    BY <1>2, <2>1, <2>2 DEF Repeats, QueueEnds
<1>4. MirrorWaits'
  <2> SUFFICES ASSUME NEW k \in Keys, mirror[k] # table[k]
               PROVE  \E u \in Sessions : Exposed(u)' /\ Waits(u, k)'
    BY DEF MirrorWaits
  <2>1. PICK u \in Sessions : Exposed(u) /\ Waits(u, k)
    BY DEF Repeats, MirrorWaits
  <2>2. u # s
    BY <2>1 DEF Waits
  <2>3. Exposed(u)' /\ Waits(u, k)'
    BY <1>2, <2>1, <2>2
  <2> QED
    BY <2>3
<1>5. PendWaits'
  <2> SUFFICES ASSUME NEW u \in Sessions, NEW k \in Keys, ~errors'[u], pend'[u][k] # Same
               PROVE  Waits(u, k)'
    BY DEF PendWaits
  <2>1. u # s
    BY <1>1 DEF NoWrites
  <2> QED
    BY <1>1, <1>2, <2>1 DEF Repeats, PendWaits
<1> QED
  BY <1>3, <1>4, <1>5 DEF Repeats

(* What a session sees after its write is what the statement makes.        *)
LEMMA ViewAfterWrite ==
    ASSUME IInv, NEW s \in Sessions, pc[s] = "exec", Write(s), NEW k \in Keys
    PROVE  /\ View(s)'[k] = Effect(s)[k]
           /\ k \in Affected(s) => k \in req[s].keys
           /\ k \notin Affected(s) => Effect(s)[k] = View(s)[k] /\ table'[k] = table[k]
           /\ tx[s] => table' = table
<1>1. TypeOK /\ ReqShape
  BY DEF IInv
<1>2. Effect(s)[k] \in Vals \cup {None} /\ Effect(s)[k] # Same
  BY <1>1, EffectType, OrmAssumption DEF Rows
<1>3. k \in Affected(s) <=> Effect(s)[k] # View(s)[k]
  BY DEF Affected
<1>4. k \notin req[s].keys => Effect(s)[k] = View(s)[k]
  BY DEF Effect
<1>5. View(s)[k] = IF pend[s][k] = Same THEN table[k] ELSE pend[s][k]
  BY DEF View, Over
<1>6. View(s)'[k] = IF pend'[s][k] = Same THEN table'[k] ELSE pend'[s][k]
  BY DEF View, Over
<1>7. CASE tx[s]
  <2>1. table' = table /\ pend' = [pend EXCEPT ![s] = [l \in Keys |->
                            IF l \in Affected(s) THEN Effect(s)[l] ELSE pend[s][l]]]
    BY <1>7 DEF Write, Added
  <2>2. pend'[s][k] = IF k \in Affected(s) THEN Effect(s)[k] ELSE pend[s][k]
    BY <1>1, <2>1 DEF TypeOK
  <2> QED
    BY <1>2, <1>3, <1>4, <1>5, <1>6, <2>1, <2>2
<1>8. CASE ~tx[s]
  <2>1. table' = Effect(s) /\ pend' = pend
    BY <1>8 DEF Write
  <2>2. pend[s][k] = Same
    BY <1>8 DEF IInv, SyncClean, NoWrites
  <2> QED
    BY <1>3, <1>4, <1>5, <1>6, <1>8, <2>1, <2>2
<1> QED
  BY <1>7, <1>8
(* A step of one session that touches no row that another one has still to *)
(* repeat.                                                                 *)
LEMMA OneRepeats ==
    ASSUME Repeats, NEW s \in Sessions,
           \A u \in Sessions : u # s => /\ pc'[u] = pc[u] /\ tx'[u] = tx[u] /\ errors'[u] = errors[u]
                                        /\ pend'[u] = pend[u] /\ queue'[u] = queue[u],
           \A u \in Sessions, k \in Keys : u # s /\ Waits(u, k) => table'[k] = table[k],
           \A k \in Keys : \A i \in DOMAIN queue'[s] :
              ~Doomed(s)' /\ Last(s, i, k)' => Outcome(queue'[s][i], k) = View(s)'[k],
           \A k \in Keys :
              \/ mirror'[k] = table'[k]
              \/ Exposed(s)' /\ Waits(s, k)'
              \/ /\ mirror'[k] = mirror[k] /\ table'[k] = table[k]
                 /\ Exposed(s) /\ Waits(s, k) => Exposed(s)' /\ Waits(s, k)',
           \A k \in Keys : ~errors'[s] /\ pend'[s][k] # Same => Waits(s, k)'
    PROVE  Repeats'
<1>1. \A u \in Sessions : u # s => /\ (Doomed(u)' <=> Doomed(u))
                                   /\ (Exposed(u)' <=> Exposed(u))
                                   /\ \A k \in Keys : Waits(u, k)' <=> Waits(u, k)
  BY DEF Doomed, Exposed, Waits, Named
<1>2. QueueEnds'
  <2> SUFFICES ASSUME NEW u \in Sessions, NEW k \in Keys, NEW i \in DOMAIN queue'[u],
                      ~Doomed(u)', Last(u, i, k)'
               PROVE  Outcome(queue'[u][i], k) = View(u)'[k]
    BY DEF QueueEnds
  <2>1. CASE u = s
    BY <2>1
  <2>2. CASE u # s
    <3>1. Last(u, i, k) /\ i \in DOMAIN queue[u] /\ queue'[u] = queue[u]
      BY <2>2 DEF Last, Named
    <3>2. Waits(u, k)
      BY <3>1 DEF Last, Waits
    <3>3. table'[k] = table[k] /\ pend'[u] = pend[u]
      BY <2>2, <3>2
    <3>4. View(u)'[k] = View(u)[k]
      BY <3>3 DEF View, Over
    <3> QED
      BY <1>1, <2>2, <3>1, <3>4 DEF Repeats, QueueEnds
  <2> QED
    BY <2>1, <2>2
<1>3. MirrorWaits'
  <2> SUFFICES ASSUME NEW k \in Keys, mirror'[k] # table'[k]
               PROVE  \E u \in Sessions : Exposed(u)' /\ Waits(u, k)'
    BY DEF MirrorWaits
  <2>1. CASE Exposed(s)' /\ Waits(s, k)'
    BY <2>1
  <2>2. CASE ~(Exposed(s)' /\ Waits(s, k)')
    <3>1. mirror[k] # table[k] /\ ~(Exposed(s) /\ Waits(s, k))
      BY <2>2
    <3>2. PICK u \in Sessions : Exposed(u) /\ Waits(u, k)
      BY <3>1 DEF Repeats, MirrorWaits
    <3>3. Exposed(u)' /\ Waits(u, k)'
      BY <1>1, <3>1, <3>2
    <3> QED
      BY <3>3
  <2> QED
    BY <2>1, <2>2
<1>4. PendWaits'
  <2> SUFFICES ASSUME NEW u \in Sessions, NEW k \in Keys, ~errors'[u], pend'[u][k] # Same
               PROVE  Waits(u, k)'
    BY DEF PendWaits
  <2>1. CASE u = s
    BY <2>1
  <2>2. CASE u # s
    BY <1>1, <2>2 DEF Repeats, PendWaits
  <2> QED
    BY <2>1, <2>2
<1> QED
  BY <1>2, <1>3, <1>4 DEF Repeats

(* An operation begins: MGOSyncData is as it was, or the caller has        *)
(* changed an object that waits in it.                                     *)
LEMMA OperationRepeats ==
    ASSUME IInv, Phases, drift = 0 => Repeats, NEW s \in Sessions, Operation(s)
    PROVE  Phases' /\ (drift' = 0 => Repeats')
<1>1. TypeOK
  BY DEF IInv
<1>2. CASE \E openTx \in BOOLEAN : GetDB(s, openTx)
  <2>1. PICK openTx \in BOOLEAN : GetDB(s, openTx)
    BY <1>2
  <2>2. /\ UNCHANGED <<table, mirror, errors, pend, queue, drift>>
        /\ pc[s] = "none" /\ pc' = [pc EXCEPT ![s] = "open"] /\ tx' = [tx EXCEPT ![s] = openTx]
    BY <2>1 DEF GetDB
  <2>3. /\ pc'[s] = "open" /\ queue[s] = <<>>
        /\ \A u \in Sessions : u # s => pc'[u] = pc[u] /\ tx'[u] = tx[u]
    BY <1>1, <2>2 DEF TypeOK, Phases
  <2>4. Phases'
    BY <2>2, <2>3, PhaseFrame
  <2>5. \A u \in Sessions : u # s => (Doomed(u) => Doomed(u)') /\ (Exposed(u) => Exposed(u)')
    BY <2>2, <2>3 DEF Doomed, Exposed
  <2>6. Repeats => Repeats'
    BY <2>2, <2>3, <2>5, SameRows
  <2> QED
    BY <2>2, <2>4, <2>6
<1>3. CASE \/ \E op, keys, val : Call(s, op, keys, val)
           \/ Refuse(s) \/ RefuseModel(s)
  <2>1. /\ UNCHANGED <<table, mirror, tx, pend, queue, drift>>
        /\ pc[s] = "open" /\ (UNCHANGED pc \/ pc' = [pc EXCEPT ![s] = "exec"])
        /\ UNCHANGED errors \/ errors' = [errors EXCEPT ![s] = TRUE]
    BY <1>3 DEF Call, Refuse, RefuseModel, Refused, Error
  <2>2. /\ pc'[s] \in {"open", "exec"}
        /\ \A u \in Sessions : u # s => pc'[u] = pc[u] /\ errors'[u] = errors[u]
        /\ \A u \in Sessions : errors[u] => errors'[u]
    BY <1>1, <2>1 DEF TypeOK
  <2>3. Phases'
    BY <2>1, <2>2, PhaseFrame
  <2>4. \A u \in Sessions : (Doomed(u) => Doomed(u)') /\ (Exposed(u) => Exposed(u)')
    BY <2>1, <2>2 DEF Doomed, Exposed
  <2>5. Repeats => Repeats'
    BY <2>1, <2>2, <2>4, SameRows
  <2> QED
    BY <2>1, <2>3, <2>5
<1>4. CASE \E k \in Keys, v \in Vals : SetField(s, k, v)
  <2>1. PICK k \in Keys, v \in Vals : SetField(s, k, v)
    BY <1>4
  <2>2. /\ pc[s] = "open" /\ UNCHANGED <<pc, errors>> /\ Drift(2)
        /\ Refresh(s, k, v)
    BY <2>1 DEF SetField
  <2>3. \A u \in Sessions : u # s => queue'[u] = queue[u]
    BY <1>1, <2>2 DEF TypeOK, Refresh
  <2>4. Phases'
    BY <2>2, <2>3, PhaseFrame
  <2>5. drift' # 0
    BY <1>1, <2>2, DriftZero
  <2> QED
    BY <2>4, <2>5
<1>5. \/ \E openTx \in BOOLEAN : GetDB(s, openTx)
      \/ \E op, keys, val : Call(s, op, keys, val)
      \/ Refuse(s) \/ RefuseModel(s)
      \/ \E k \in Keys, v \in Vals : SetField(s, k, v)
  BY DEF Operation, Save, Update, UpdateByCnd, Delete, DeleteById, DeleteByCnd, FindById,
         FindOne, FindOneComplex, FindList, FindListComplex, Count, Exists
<1> QED
  BY <1>2, <1>3, <1>4, <1>5

(* A read, or a write that fails: its rows are not in the table, or the    *)
(* transaction they are in will be rolled back.                            *)
LEMMA NothingWritten ==
    ASSUME IInv, Phases, drift = 0 => Repeats, NEW s \in Sessions,
           WriteFails(s) \/ ReadReturns(s) \/ ReadFails(s) \/ CountQueryFails(s)
    PROVE  Phases' /\ (drift' = 0 => Repeats')
<1>1. TypeOK
  BY DEF IInv
<1>2. /\ pc[s] = "exec" /\ Return(s) /\ UNCHANGED <<mirror, tx>>
      /\ UNCHANGED errors \/ errors' = [errors EXCEPT ![s] = TRUE]
  BY DEF WriteFails, ReadReturns, ReadFails, CountQueryFails, Error
<1>3. /\ pc'[s] = "open"
      /\ \A u \in Sessions : u # s => pc'[u] = pc[u] /\ errors'[u] = errors[u]
      /\ \A u \in Sessions : errors[u] => errors'[u]
  BY <1>1, <1>2 DEF TypeOK, Return
<1>4. \A u \in Sessions : u # s => queue'[u] = queue[u]
  BY <1>1 DEF TypeOK, WriteFails, ReadReturns, ReadFails, CountQueryFails, Refresh
<1>5. Phases'
  BY <1>3, <1>4, PhaseFrame
<1>6. ASSUME drift' = 0
      PROVE  /\ drift = 0 /\ UNCHANGED <<table, queue>>
             /\ \A u \in Sessions : pend'[u] = pend[u] \/ Doomed(u)'
  <2>1. CASE WriteFails(s)
    <3>1. UNCHANGED queue /\ errors' = [errors EXCEPT ![s] = TRUE]
      BY <2>1 DEF WriteFails, Error
    <3>2. CASE UNCHANGED <<table, pend, drift>>
      BY <1>6, <3>1, <3>2
    <3>3. CASE Write(s) /\ Drift(IF tx[s] THEN 0 ELSE 2)
      <4>1. drift = 0 /\ tx[s]
        <5>1. CASE tx[s]
          BY <1>1, <1>6, <3>3, <5>1, DriftZero
        <5>2. CASE ~tx[s]
          BY <1>1, <1>6, <3>3, <5>2, DriftZero
        <5> QED
          BY <5>1, <5>2
      <4>2. table' = table /\ \A u \in Sessions : u # s => pend'[u] = pend[u]
        BY <1>1, <3>3, <4>1 DEF Write, TypeOK
      <4>3. Doomed(s)'
        BY <1>1, <1>2, <3>1, <4>1 DEF TypeOK, Doomed
      <4> QED
        BY <3>1, <4>1, <4>2, <4>3
    <3> QED
      BY <2>1, <3>2, <3>3 DEF WriteFails
  <2>2. CASE ReadReturns(s)
    <3>1. Drift(IF queue' # queue THEN 2 ELSE 0) /\ UNCHANGED <<table, pend>>
      BY <2>2 DEF ReadReturns
    <3>2. CASE queue' = queue
      BY <1>1, <1>6, <3>1, <3>2, DriftZero
    <3>3. CASE queue' # queue
      BY <1>1, <1>6, <3>1, <3>3, DriftZero
    <3> QED
      BY <3>2, <3>3
  <2>3. CASE ReadFails(s) \/ CountQueryFails(s)
    BY <1>6, <2>3 DEF ReadFails, CountQueryFails
  <2> QED
    BY <2>1, <2>2, <2>3
<1>7. ASSUME drift' = 0 PROVE Repeats'
  <2>1. \A u \in Sessions : (Doomed(u) => Doomed(u)') /\ (Exposed(u) => Exposed(u)')
    BY <1>2, <1>3 DEF Doomed, Exposed
  <2>2. Repeats
    BY <1>6, <1>7
  <2> QED
    BY <1>2, <1>3, <1>6, <1>7, <2>1, <2>2, SameRows
<1> QED
  BY <1>5, <1>7
(* A save or a delete appends what it made of its rows.                    *)
LEMMA MirroredEntry ==
    ASSUME IInv, NEW s \in Sessions, req[s].op \in {"save", "delete"}
    PROVE  \E e \in Entries :
              /\ SyncEntry(s) = <<e>>
              /\ DOMAIN e.objs = req[s].keys
              /\ \A k \in req[s].keys : k \in Keys /\ Outcome(e, k) = Effect(s)[k]
<1> DEFINE objs == [k \in req[s].keys |-> req[s].val]
<1>1. req[s].keys \in SUBSET Keys /\ ReqShape
  BY DEF IInv, TypeOK, Requests
<1>2. \A k \in req[s].keys : Effect(s)[k] = Changed(s, k)
  BY <1>1 DEF Effect
<1>3. CASE req[s].op = "save"
  <2>1. [op |-> "SAVE", objs |-> objs] \in Entries
    BY <1>1, <1>3, ConstEntry DEF ReqShape
  <2>2. SyncEntry(s) = <<[op |-> "SAVE", objs |-> objs]>>
    BY <1>3 DEF SyncEntry
  <2>3. \A k \in req[s].keys : Changed(s, k) = req[s].val
    BY <1>3 DEF Changed
  <2> QED
    BY <1>1, <1>2, <2>1, <2>2, <2>3 DEF Outcome
<1>4. CASE req[s].op = "delete"
  <2>1. [op |-> "DELETE", objs |-> objs] \in Entries
    BY <1>1, <1>4, ConstEntry DEF ReqShape
  <2>2. SyncEntry(s) = <<[op |-> "DELETE", objs |-> objs]>>
    BY <1>4 DEF SyncEntry
  <2>3. \A k \in req[s].keys : Changed(s, k) = None
    BY <1>4 DEF Changed
  <2> QED
    BY <1>1, <1>2, <2>1, <2>2, <2>3 DEF Outcome
<1> QED
  BY <1>3, <1>4

(* What an entry at the end of MGOSyncData changes.                        *)
LEMMA Appended ==
    ASSUME IInv, NEW s \in Sessions, NEW e \in Entries, queue'[s] = queue[s] \o <<e>>, NEW k \in Keys
    PROVE  /\ Waits(s, k)' <=> Waits(s, k) \/ k \in DOMAIN e.objs
           /\ \A i \in DOMAIN queue'[s] : Last(s, i, k)' =>
                 IF k \in DOMAIN e.objs
                 THEN queue'[s][i] = e
                 ELSE /\ i \in DOMAIN queue[s] /\ Last(s, i, k)
                      /\ queue'[s][i] = queue[s][i]
<1>1. queue[s] \in Seq(Entries)
  BY DEF IInv, TypeOK
<1>0. PICK n \in Nat : n = Len(queue[s])
  BY <1>1
<1>2. /\ n \in Nat /\ DOMAIN queue[s] = 1 .. n
      /\ DOMAIN queue'[s] = 1 .. (n + 1)
      /\ queue'[s][n + 1] = e
      /\ \A i \in 1 .. n : queue'[s][i] = queue[s][i]
  BY <1>0, <1>1
<1>3. /\ Named(s, n + 1, k)' <=> k \in DOMAIN e.objs
      /\ \A i \in 1 .. n : Named(s, i, k)' <=> Named(s, i, k)
  BY <1>2 DEF Named
<1>4. \A i \in 1 .. (n + 1) : i = n + 1 \/ i \in 1 .. n
  BY <1>2
<1>5. n + 1 \in 1 .. (n + 1) /\ \A i \in 1 .. n : i \in 1 .. (n + 1) /\ n + 1 > i
  BY <1>2
<1>6. Waits(s, k)' <=> Waits(s, k) \/ k \in DOMAIN e.objs
  BY <1>2, <1>3, <1>4, <1>5 DEF Waits
<1>7. ASSUME NEW i \in DOMAIN queue'[s], Last(s, i, k)'
      PROVE  IF k \in DOMAIN e.objs
             THEN queue'[s][i] = e
             ELSE i \in DOMAIN queue[s] /\ Last(s, i, k) /\ queue'[s][i] = queue[s][i]
  <2>1. Named(s, i, k)' /\ \A j \in DOMAIN queue'[s] : j > i => ~Named(s, j, k)'
    BY <1>7 DEF Last
  <2>2. CASE k \in DOMAIN e.objs
    BY <1>2, <1>3, <1>4, <1>5, <2>1, <2>2
  <2>3. CASE k \notin DOMAIN e.objs
    <3>1. i \in 1 .. n
      BY <1>2, <1>3, <1>4, <2>1, <2>3
    <3>2. Last(s, i, k)
      BY <1>2, <1>3, <1>5, <2>1, <3>1 DEF Last
    <3> QED
      BY <1>2, <2>3, <3>1, <3>2
  <2> QED
    BY <2>2, <2>3
<1> QED
  BY <1>6, <1>7

LEMMA WriteRepeats ==
    ASSUME MongoSync, IInv, Phases, drift = 0 => Repeats, NEW s \in Sessions, WriteReturns(s)
    PROVE  Phases' /\ (drift' = 0 => Repeats')
<1>1. TypeOK
  BY DEF IInv
<1>2. /\ pc[s] = "exec" /\ Write(s) /\ AddSyncData(s) /\ Return(s)
      /\ UNCHANGED <<mirror, tx, errors>>
  BY DEF WriteReturns
<1>3. /\ pc'[s] = "open"
      /\ \A u \in Sessions : u # s => pc'[u] = pc[u] /\ pend'[u] = pend[u] /\ queue'[u] = queue[u]
  BY <1>1, <1>2 DEF TypeOK, Return, Write, AddSyncData
<1>4. Phases'
  BY <1>2, <1>3, PhaseFrame
<1>5. \A u \in Sessions : (Doomed(u)' <=> Doomed(u)) /\ (Exposed(u)' <=> Exposed(u))
  BY <1>2, <1>3 DEF Doomed, Exposed
<1>6. CASE Affected(s) = {}
  <2>1. Drift(0) /\ UNCHANGED queue
    BY <1>1, <1>2, <1>6 DEF WriteReturns, AddSyncData, TypeOK
  <2>2. \A k \in Keys : table'[k] = table[k]
    BY <1>2, <1>6, ViewAfterWrite
  <2>3. table' \in Rows /\ table \in Rows
    BY <1>1, <1>2, WriteStep DEF TypeOK, IInv
  <2>4. table' = table
    BY <2>2, <2>3 DEF Rows
  <2>5. pend'[s] = pend[s]
    <3>1. CASE tx[s]
      <4>1. pend' = [pend EXCEPT ![s] = [k \in Keys |->
                        IF k \in Affected(s) THEN Effect(s)[k] ELSE pend[s][k]]]
        BY <1>2, <3>1 DEF Write, Added
      <4>2. pend'[s] = [k \in Keys |-> pend[s][k]]
        BY <1>1, <1>6, <4>1 DEF TypeOK
      <4> QED
        BY <1>1, <4>2 DEF TypeOK
    <3>2. CASE ~tx[s]
      BY <1>2, <3>2 DEF Write
    <3> QED
      BY <3>1, <3>2
  <2>6. ASSUME drift' = 0 PROVE Repeats'
    <3>1. Repeats
      BY <1>1, <2>1, <2>6, DriftZero
    <3> QED
      BY <1>2, <1>3, <1>5, <2>1, <2>4, <2>5, <3>1, SameRows
  <2> QED
    BY <1>4, <2>6
<1>7. CASE Affected(s) # {}
  <2> SUFFICES ASSUME drift' = 0 PROVE Repeats'
    BY <1>4
  <2>1. /\ drift = 0 /\ ~(~tx[s] /\ Raced(s, Affected(s)))
        /\ req[s].op \in {"save", "delete"}
    <3>1. Drift(IF ~tx[s] /\ Raced(s, Affected(s)) THEN 2
                ELSE IF req[s].op \notin {"save", "delete"} THEN 1 ELSE 0)
      BY <1>7 DEF WriteReturns
    <3>2. CASE ~tx[s] /\ Raced(s, Affected(s))
      BY <1>1, <3>1, <3>2, DriftZero
    <3>3. CASE ~(~tx[s] /\ Raced(s, Affected(s))) /\ req[s].op \notin {"save", "delete"}
      BY <1>1, <3>1, <3>3, DriftZero
    <3>4. CASE ~(~tx[s] /\ Raced(s, Affected(s))) /\ req[s].op \in {"save", "delete"}
      BY <1>1, <3>1, <3>4, DriftZero
    <3> QED
      BY <3>2, <3>3, <3>4
  <2>2. Repeats
    BY <2>1
  <2>3. PICK e \in Entries :
              /\ SyncEntry(s) = <<e>>
              /\ DOMAIN e.objs = req[s].keys
              /\ \A k \in req[s].keys : k \in Keys /\ Outcome(e, k) = Effect(s)[k]
    BY <2>1, MirroredEntry
  <2>4. queue'[s] = queue[s] \o <<e>>
    BY <1>1, <1>2, <1>7, <2>3 DEF AddSyncData, TypeOK
  <2>5. \A u \in Sessions, k \in Keys : u # s /\ Waits(u, k) => table'[k] = table[k]
    <3> SUFFICES ASSUME NEW u \in Sessions, NEW k \in Keys, u # s, Waits(u, k)
                 PROVE  table'[k] = table[k]
      OBVIOUS
    <3>1. CASE tx[s]
      BY <1>2, <3>1, ViewAfterWrite
    <3>2. CASE ~tx[s]
      <4>1. k \notin Affected(s)
        BY <2>1, <3>2 DEF Raced, Waits, Named
      <4> QED
        BY <1>2, <4>1, ViewAfterWrite
    <3> QED
      BY <3>1, <3>2
  <2>6. ASSUME NEW k \in Keys, NEW i \in DOMAIN queue'[s], ~Doomed(s)', Last(s, i, k)'
        PROVE  Outcome(queue'[s][i], k) = View(s)'[k]
    <3>1. View(s)'[k] = Effect(s)[k] /\ (k \notin Affected(s) => Effect(s)[k] = View(s)[k])
          /\ (k \in Affected(s) => k \in req[s].keys)
      BY <1>2, ViewAfterWrite
    <3>2. CASE k \in req[s].keys
      BY <2>3, <2>4, <2>6, <3>1, <3>2, Appended, SMTT(90)
    <3>3. CASE k \notin req[s].keys
      <4>1. i \in DOMAIN queue[s] /\ Last(s, i, k) /\ queue'[s][i] = queue[s][i]
        BY <2>3, <2>4, <2>6, <3>3, Appended
      <4>2. Outcome(queue[s][i], k) = View(s)[k]
        BY <1>5, <2>2, <2>6, <4>1 DEF Repeats, QueueEnds
      <4> QED
        BY <3>1, <3>3, <4>1, <4>2
    <3> QED
      BY <3>2, <3>3
  <2>7. \A k \in Keys : Waits(s, k)' <=> Waits(s, k) \/ k \in req[s].keys
    BY <2>3, <2>4, Appended
  <2>8. ASSUME NEW k \in Keys
        PROVE  \/ Exposed(s)' /\ Waits(s, k)'
               \/ /\ mirror'[k] = mirror[k] /\ table'[k] = table[k]
                  /\ Exposed(s) /\ Waits(s, k) => Exposed(s)' /\ Waits(s, k)'
    <3>1. CASE tx[s] \/ k \notin Affected(s)
      <4>1. table'[k] = table[k]
        BY <1>2, <3>1, ViewAfterWrite
      <4> QED
        BY <1>2, <1>5, <2>7, <4>1
    <3>2. CASE ~tx[s] /\ k \in Affected(s)
      <4>1. k \in req[s].keys
        BY <1>2, <3>2, ViewAfterWrite
      <4>2. Exposed(s)'
        BY <1>5, <3>2 DEF Exposed
      <4> QED
        BY <2>7, <4>1, <4>2
    <3> QED
      BY <3>1, <3>2
  <2>9. ASSUME NEW k \in Keys, ~errors'[s], pend'[s][k] # Same
        PROVE  Waits(s, k)'
    <3>1. CASE k \in Affected(s)
      BY <1>2, <2>7, <3>1, ViewAfterWrite
    <3>2. CASE k \notin Affected(s)
      <4>1. pend'[s][k] = pend[s][k]
        BY <1>1, <1>2, <3>2 DEF Write, Added, TypeOK
      <4> QED
        BY <1>2, <2>2, <2>7, <2>9, <4>1 DEF Repeats, PendWaits
    <3> QED
      BY <3>1, <3>2
  <2> QED
    BY <1>2, <1>3, <2>2, <2>5, <2>6, <2>8, <2>9, OneRepeats
<1> QED
  BY <1>6, <1>7
(* Close begins.                                                           *)
LEMMA CloseRepeats ==
    ASSUME MongoSync, IInv, Phases, drift = 0 => Repeats, NEW s \in Sessions, Close(s)
    PROVE  Phases' /\ (drift' = 0 => Repeats')
<1>1. TypeOK /\ SyncClean
  BY DEF IInv
<1>2. /\ pc[s] = "open" /\ UNCHANGED mirror
      /\ \/ End(s)
         \/ /\ ~errors[s] /\ queue[s] # <<>> /\ pc' = [pc EXCEPT ![s] = "sync"]
            /\ pend' = [pend EXCEPT ![s] = NoWrites]
            /\ UNCHANGED <<tx, errors, queue>>
  BY DEF Close, CloseCommits, CloseCommitFails, CloseRollsBack, CloseAutoCommit, BeginSync
<1>3. /\ \A u \in Sessions : u # s => /\ pc'[u] = pc[u] /\ tx'[u] = tx[u] /\ errors'[u] = errors[u]
                                      /\ pend'[u] = pend[u] /\ queue'[u] = queue[u]
      /\ pend'[s] = NoWrites
      /\ pc'[s] = "sync" => ~errors'[s]
      /\ pc'[s] # "sync" => pc'[s] = "closed" /\ queue'[s] = <<>>
  BY <1>1, <1>2 DEF TypeOK, End
<1>4. Phases'
  BY <1>3, PhaseFrame
<1>5. CASE CloseCommits(s)
  <2> SUFFICES ASSUME drift' = 0 PROVE Repeats'
    BY <1>4
  <2>1. /\ tx[s] /\ ~errors[s] /\ table' = View(s)
        /\ Drift(IF Raced(s, {k \in Keys : table'[k] # table[k]}) THEN 2 ELSE 0)
        /\ UNCHANGED mirror
        /\ IF queue[s] # <<>>
           THEN pc' = [pc EXCEPT ![s] = "sync"] /\ UNCHANGED <<tx, errors, queue>>
           ELSE End(s)
    BY <1>5 DEF CloseCommits, Commit, BeginSync
  <2>2. drift = 0 /\ ~Raced(s, {k \in Keys : table'[k] # table[k]})
    <3>1. CASE Raced(s, {k \in Keys : table'[k] # table[k]})
      BY <1>1, <2>1, <3>1, DriftZero
    <3>2. CASE ~Raced(s, {k \in Keys : table'[k] # table[k]})
      BY <1>1, <2>1, <3>2, DriftZero
    <3> QED
      BY <3>1, <3>2
  <2>3. Repeats
    BY <2>2
  <2>4. \A k \in Keys : table'[k] # table[k] => pend[s][k] # Same
    BY <2>1 DEF View, Over
  <2>5. \A k \in Keys : table'[k] # table[k] => Waits(s, k)
    BY <2>1, <2>3, <2>4 DEF Repeats, PendWaits
  <2>6. CASE queue[s] = <<>>
    <3>1. \A k \in Keys : table'[k] = table[k]
      BY <2>5, <2>6 DEF Waits
    <3>2. table' \in Rows /\ table \in Rows
      BY <1>1, <2>1, ViewType DEF TypeOK
    <3>3. table' = table
      BY <3>1, <3>2 DEF Rows
    <3> QED
      BY <2>1, <2>3, <2>6, <3>3, EndRepeats
  <2>7. CASE queue[s] # <<>>
    <3>1. UNCHANGED queue /\ pc'[s] = "sync" /\ Exposed(s)' /\ ~Doomed(s)
      BY <1>1, <2>1, <2>7 DEF TypeOK, Exposed, Doomed
    <3>2. \A u \in Sessions, k \in Keys : u # s /\ Waits(u, k) => table'[k] = table[k]
      BY <2>2 DEF Raced, Waits, Named
    <3>3. \A k \in Keys : View(s)'[k] = View(s)[k]
      <4>1. \A k \in Keys : View(s)'[k] = table'[k]
        BY <1>3 DEF View, Over, NoWrites
      <4> QED
        BY <2>1, <4>1
    <3>4. \A k \in Keys : Waits(s, k)' <=> Waits(s, k)
      BY <3>1 DEF Waits, Named
    <3>5. ASSUME NEW k \in Keys, NEW i \in DOMAIN queue'[s], ~Doomed(s)', Last(s, i, k)'
          PROVE  Outcome(queue'[s][i], k) = View(s)'[k]
      <4>1. Last(s, i, k) /\ i \in DOMAIN queue[s]
        BY <3>1, <3>5 DEF Last, Named
      <4> QED
        BY <2>3, <3>1, <3>3, <4>1 DEF Repeats, QueueEnds
    <3>6. \A k \in Keys :
             \/ Exposed(s)' /\ Waits(s, k)'
             \/ /\ mirror'[k] = mirror[k] /\ table'[k] = table[k]
                /\ Exposed(s) /\ Waits(s, k) => Exposed(s)' /\ Waits(s, k)'
      BY <2>1, <2>5, <3>1, <3>4
    <3>7. \A k \in Keys : pend'[s][k] = Same
      BY <1>3 DEF NoWrites
    <3> QED
      BY <1>3, <2>3, <3>2, <3>5, <3>6, <3>7, OneRepeats
  <2> QED
    BY <2>6, <2>7
<1>6. CASE CloseCommitFails(s)
  <2> SUFFICES ASSUME drift' = 0 PROVE Repeats'
    BY <1>4
  <2>1. /\ tx[s] /\ End(s) /\ UNCHANGED mirror
        /\ UNCHANGED <<table, drift>> \/ Drift(2)
    BY <1>6 DEF CloseCommitFails
  <2>2. UNCHANGED <<table, drift>>
    BY <1>1, <2>1, DriftZero
  <2>3. ~Exposed(s)
    BY <1>2, <2>1 DEF Exposed
  <2> QED
    BY <2>1, <2>2, <2>3, EndRepeats
<1>7. CASE CloseRollsBack(s)
  <2>1. tx[s] /\ End(s) /\ UNCHANGED <<table, mirror, drift>>
    BY <1>7 DEF CloseRollsBack
  <2>2. ~Exposed(s)
    BY <1>2, <2>1 DEF Exposed
  <2> QED
    BY <1>4, <2>1, <2>2, EndRepeats
<1>8. CASE CloseAutoCommit(s)
  <2> SUFFICES ASSUME drift' = 0 PROVE Repeats'
    BY <1>4
  <2>1. /\ ~tx[s] /\ BeginSync(s) /\ UNCHANGED <<table, mirror>>
        /\ Drift(IF errors[s] /\ queue[s] # <<>> THEN 2 ELSE 0)
    BY <1>8 DEF CloseAutoCommit
  <2>2. drift = 0 /\ ~(errors[s] /\ queue[s] # <<>>)
    <3>1. CASE errors[s] /\ queue[s] # <<>>
      BY <1>1, <2>1, <3>1, DriftZero
    <3>2. CASE ~(errors[s] /\ queue[s] # <<>>)
      BY <1>1, <2>1, <3>2, DriftZero
    <3> QED
      BY <3>1, <3>2
  <2>3. CASE queue[s] = <<>>
    <3>1. End(s)
      BY <2>1, <2>3 DEF BeginSync
    <3> QED
      BY <2>1, <2>2, <2>3, <3>1, EndRepeats
  <2>4. CASE queue[s] # <<>>
    <3>1. UNCHANGED <<tx, errors, queue>>
      BY <2>1, <2>2, <2>4 DEF BeginSync
    <3>2. pend'[s] = pend[s]
      BY <1>1, <1>3, <2>1 DEF SyncClean
    <3>3. \A u \in Sessions : Doomed(u) => Doomed(u)'
      BY <3>1 DEF Doomed
    <3>4. \A u \in Sessions : Exposed(u) => Exposed(u)'
      BY <1>3, <2>1, <3>1 DEF Exposed
    <3> QED
      BY <1>3, <2>1, <2>2, <3>1, <3>2, <3>3, <3>4, SameRows
  <2> QED
    BY <2>3, <2>4
<1> QED
  BY <1>5, <1>6, <1>7, <1>8 DEF Close

(* What the first entry of MGOSyncData leaves to be done.                  *)
LEMMA Taken ==
    ASSUME IInv, NEW s \in Sessions, queue[s] # <<>>, queue'[s] = Tail(queue[s]), NEW k \in Keys
    PROVE  /\ 1 \in DOMAIN queue[s] /\ queue[s][1] = Head(queue[s])
           /\ Named(s, 1, k) /\ ~Waits(s, k)' => Last(s, 1, k)
           /\ ~Named(s, 1, k) /\ Waits(s, k) => Waits(s, k)'
           /\ \A i \in DOMAIN queue'[s] : Last(s, i, k)' =>
                 /\ i + 1 \in DOMAIN queue[s] /\ Last(s, i + 1, k)
                 /\ queue'[s][i] = queue[s][i + 1]
<1>1. queue[s] \in Seq(Entries)
  BY DEF IInv, TypeOK
<1>2. PICK n \in Nat : Len(queue[s]) = n + 1
  <2>1. Len(queue[s]) \in Nat /\ Len(queue[s]) # 0
    BY <1>1
  <2>2. Len(queue[s]) - 1 \in Nat /\ Len(queue[s]) = (Len(queue[s]) - 1) + 1
    BY <2>1
  <2> QED
    BY <2>2
<1>3. /\ DOMAIN queue[s] = 1 .. (n + 1)
      /\ DOMAIN queue'[s] = 1 .. n
      /\ \A i \in 1 .. n : queue'[s][i] = queue[s][i + 1]
      /\ queue[s][1] = Head(queue[s])
  BY <1>1, <1>2
<1>4. \A i \in 1 .. n : Named(s, i, k)' <=> Named(s, i + 1, k)
  BY <1>3 DEF Named
<1>5. \A j \in 1 .. (n + 1) : j > 1 => j - 1 \in 1 .. n /\ (j - 1) + 1 = j
  BY <1>2
<1>6. 1 \in 1 .. (n + 1) /\ \A i \in 1 .. n : i + 1 \in 1 .. (n + 1)
  BY <1>2
<1>7. \A j \in 1 .. (n + 1) : j > 1 /\ Named(s, j, k) => Waits(s, k)'
  <2> SUFFICES ASSUME NEW j \in 1 .. (n + 1), j > 1, Named(s, j, k) PROVE Waits(s, k)'
    OBVIOUS
  <2>1. PICK i \in 1 .. n : i + 1 = j
    BY <1>5
  <2>2. Named(s, i, k)'
    BY <1>4, <2>1
  <2> QED
    BY <1>3, <2>2 DEF Waits
<1>8. Named(s, 1, k) /\ ~Waits(s, k)' => Last(s, 1, k)
  BY <1>3, <1>7 DEF Last
<1>9. ~Named(s, 1, k) /\ Waits(s, k) => Waits(s, k)'
  <2> SUFFICES ASSUME ~Named(s, 1, k), Waits(s, k) PROVE Waits(s, k)'
    OBVIOUS
  <2>1. PICK j \in 1 .. (n + 1) : Named(s, j, k)
    BY <1>3 DEF Waits
  <2>2. j # 1
    BY <2>1
  <2> QED
    BY <1>2, <1>7, <2>1, <2>2
<1>10. ASSUME NEW i \in DOMAIN queue'[s], Last(s, i, k)'
       PROVE  i + 1 \in DOMAIN queue[s] /\ Last(s, i + 1, k) /\ queue'[s][i] = queue[s][i + 1]
  <2>1. i \in 1 .. n /\ i + 1 \in 1 .. (n + 1)
    BY <1>3, <1>6
  <2>2. Named(s, i, k)' /\ \A j \in 1 .. n : j > i => ~Named(s, j, k)'
    BY <1>3, <1>10 DEF Last
  <2>3. ASSUME NEW j \in 1 .. (n + 1), j > i + 1 PROVE ~Named(s, j, k)
    <3>1. PICK l \in 1 .. n : l + 1 = j
      BY <1>2, <1>5, <2>1, <2>3
    <3>2. l > i
      BY <1>2, <2>1, <2>3, <3>1
    <3> QED
      BY <1>4, <2>2, <3>1, <3>2
  <2> QED
    BY <1>3, <1>4, <2>1, <2>2, <2>3 DEF Last
<1> QED
  BY <1>3, <1>6, <1>8, <1>9, <1>10

(* Close repeats an entry, or returns.                                     *)
LEMMA SyncRepeats ==
    ASSUME IInv, Phases, drift = 0 => Repeats, NEW s \in Sessions, CloseGoesOn(s)
    PROVE  Phases' /\ (drift' = 0 => Repeats')
<1>1. TypeOK /\ SyncClean
  BY DEF IInv
<1>2. CASE MongoSyncData(s)
  <2> DEFINE e == Head(queue[s])
  <2>1. /\ pc[s] = "sync" /\ queue[s] # <<>> /\ queue' = [queue EXCEPT ![s] = Tail(queue[s])]
        /\ UNCHANGED <<table, pc, tx, errors, pend, drift>>
        /\ IF e.op = "SAVE" THEN MongoSave(e.objs, DOMAIN e.objs) ELSE MongoDelete(e.objs, DOMAIN e.objs)
    BY <1>2 DEF MongoSyncData, SyncPart
  <2>2. /\ queue'[s] = Tail(queue[s])
        /\ \A u \in Sessions : u # s => queue'[u] = queue[u]
    BY <1>1, <2>1 DEF TypeOK
  <2>3. Phases'
    BY <2>1, <2>2, PhaseFrame DEF Phases
  <2>4. ~errors[s] /\ ~Doomed(s) /\ Exposed(s) /\ Exposed(s)'
    BY <2>1 DEF Phases, Doomed, Exposed
  <2>5. \A k \in Keys : pend[s][k] = Same /\ View(s)[k] = table[k]
    BY <1>1, <2>1 DEF SyncClean, NoWrites, View, Over
  <2>6. \A k \in Keys : View(s)'[k] = View(s)[k]
    BY <2>1 DEF View, Over
  <2>7. \A k \in Keys : mirror'[k] = IF Named(s, 1, k) THEN Outcome(e, k) ELSE mirror[k]
    <3>1. \A k \in Keys : Named(s, 1, k) <=> k \in DOMAIN e.objs
      BY <2>1, <2>2, Taken DEF Named
    <3>2. CASE e.op = "SAVE"
      BY <2>1, <3>1, <3>2 DEF MongoSave, Outcome
    <3>3. CASE e.op # "SAVE"
      BY <2>1, <3>1, <3>3 DEF MongoDelete, Outcome
    <3> QED
      BY <3>2, <3>3
  <2> HIDE DEF e
  <2>8. ASSUME Repeats PROVE Repeats'
    <3>1. ASSUME NEW k \in Keys, NEW i \in DOMAIN queue'[s], ~Doomed(s)', Last(s, i, k)'
          PROVE  Outcome(queue'[s][i], k) = View(s)'[k]
      <4>1. i + 1 \in DOMAIN queue[s] /\ Last(s, i + 1, k) /\ queue'[s][i] = queue[s][i + 1]
        BY <2>1, <2>2, <3>1, Taken
      <4> QED
        BY <2>4, <2>6, <2>8, <4>1 DEF Repeats, QueueEnds
    <3>2. ASSUME NEW k \in Keys
          PROVE  \/ mirror'[k] = table'[k]
                 \/ Exposed(s)' /\ Waits(s, k)'
                 \/ /\ mirror'[k] = mirror[k] /\ table'[k] = table[k]
                    /\ Exposed(s) /\ Waits(s, k) => Exposed(s)' /\ Waits(s, k)'
      <4>1. CASE ~Named(s, 1, k)
        <5>1. Waits(s, k) => Waits(s, k)'
          BY <2>1, <2>2, <4>1, Taken
        <5> QED
          BY <2>1, <2>4, <2>7, <4>1, <5>1
      <4>2. CASE Named(s, 1, k) /\ ~Waits(s, k)'
        <5>1. 1 \in DOMAIN queue[s] /\ queue[s][1] = e /\ Last(s, 1, k)
          BY <2>1, <2>2, <4>2, Taken DEF e
        <5>2. Outcome(e, k) = View(s)[k]
          BY <2>4, <2>8, <5>1 DEF Repeats, QueueEnds
        <5> QED
          BY <2>1, <2>5, <2>7, <4>2, <5>2
      <4>3. CASE Waits(s, k)'
        BY <2>4, <4>3
      <4> QED
        BY <4>1, <4>2, <4>3
    <3>3. \A k \in Keys : pend'[s][k] = Same
      BY <2>1, <2>5
    <3> QED
      BY <2>1, <2>2, <2>8, <3>1, <3>2, <3>3, OneRepeats
  <2> QED
    BY <2>1, <2>3, <2>8
<1>3. CASE MongoSyncFails(s)
  <2>1. /\ pc[s] = "sync" /\ UNCHANGED <<pc, errors>> /\ Drift(2)
        /\ queue' = [queue EXCEPT ![s] = Tail(queue[s])]
    BY <1>3 DEF MongoSyncFails, SyncPart
  <2>2. \A u \in Sessions : u # s => queue'[u] = queue[u]
    BY <1>1, <2>1 DEF TypeOK
  <2>3. Phases'
    BY <2>1, <2>2, PhaseFrame DEF Phases
  <2>4. drift' # 0
    BY <1>1, <2>1, DriftZero
  <2> QED
    BY <2>3, <2>4
<1>4. CASE CloseReturns(s)
  <2>1. queue[s] = <<>> /\ End(s) /\ UNCHANGED <<table, mirror, drift>>
    BY <1>4 DEF CloseReturns
  <2>2. /\ pc'[s] = "closed" /\ queue'[s] = <<>>
        /\ \A u \in Sessions : u # s => pc'[u] = pc[u] /\ errors'[u] = errors[u] /\ queue'[u] = queue[u]
    BY <1>1, <2>1 DEF End, TypeOK
  <2>3. Phases'
    BY <2>2, PhaseFrame
  <2> QED
    BY <2>1, <2>3, EndRepeats
<1> QED
  BY <1>2, <1>3, <1>4 DEF CloseGoesOn

LEMMA InitSync == Init => SyncInv
<1> SUFFICES ASSUME Init PROVE Phases /\ QueueEnds /\ MirrorWaits /\ PendWaits
  BY InitIInv DEF SyncInv, Repeats
<1>1. \A s \in Sessions : queue[s] = <<>> /\ pc[s] = "none" /\ pend[s] = NoWrites
  BY DEF Init
<1>2. Phases
  BY <1>1 DEF Phases
<1>3. QueueEnds /\ PendWaits
  BY <1>1 DEF QueueEnds, PendWaits, NoWrites
<1>4. MirrorWaits
  BY DEF Init, MirrorWaits
<1> QED
  BY <1>2, <1>3, <1>4

LEMMA NextSync ==
    ASSUME MongoSync
    PROVE  SyncInv /\ [Next]_vars => SyncInv'
<1> SUFFICES ASSUME SyncInv, [Next]_vars PROVE SyncInv'
  OBVIOUS
<1>1. IInv /\ Phases /\ (drift = 0 => Repeats)
  BY DEF SyncInv
<1>2. IInv'
  BY <1>1, NextIInv
<1>3. Phases' /\ (drift' = 0 => Repeats')
  <2>1. CASE UNCHANGED vars
    BY <1>1, <2>1 DEF vars, session, Phases, Repeats, QueueEnds, MirrorWaits, PendWaits, Doomed,
                      Exposed, Waits, Last, Named, View, Over
  <2>2. CASE Next
    <3>1. PICK s \in Sessions : Operation(s) \/ StatementEnds(s) \/ Close(s) \/ CloseGoesOn(s)
      BY <2>2 DEF Next
    <3>2. CASE Operation(s)
      BY <1>1, <3>2, OperationRepeats
    <3>3. CASE StatementEnds(s)
      BY <1>1, <3>3, WriteRepeats, NothingWritten DEF StatementEnds
    <3>4. CASE Close(s)
      BY <1>1, <3>4, CloseRepeats
    <3>5. CASE CloseGoesOn(s)
      BY <1>1, <3>5, SyncRepeats
    <3> QED
      BY <3>1, <3>2, <3>3, <3>4, <3>5
  <2> QED
    BY <2>1, <2>2
<1> QED
  BY <1>2, <1>3 DEF SyncInv

(* With the option MongoSync, once all sessions are closed the mirror is   *)
(* the table, unless a write of a kind that is not mirrored, a fault, a    *)
(* change to a waiting object or a race of two sessions for a row came in  *)
(* between: the saves and deletes of a session reach Mongo in their order  *)
(* and all of them (Close, 1586-1607).                                     *)
THEOREM MirrorIsTable ==
    ASSUME MongoSync
    PROVE  Spec => []MirrorAgrees
<1>1. SyncInv => MirrorAgrees
  <2> SUFFICES ASSUME SyncInv, \A s \in Sessions : pc[s] \in {"none", "closed"}, drift = 0
               PROVE  mirror = table
    BY DEF MirrorAgrees
  <2>1. \A s \in Sessions, k \in Keys : ~Waits(s, k)
    BY DEF SyncInv, Phases, Waits
  <2>2. \A k \in Keys : mirror[k] = table[k]
    BY <2>1 DEF SyncInv, Repeats, MirrorWaits
  <2>3. mirror \in Rows /\ table \in Rows
    BY DEF SyncInv, IInv, TypeOK
  <2> QED
    BY <2>2, <2>3 DEF Rows
<1> QED
  BY <1>1, InitSync, NextSync, PTL DEF Spec

-----------------------------------------------------------------------------
(* Pages *)

(* The directions of a walk, the order by the id that each stands for, and *)
(* what that order means for two rows; a row that a sequence of rows has,  *)
(* and a sequence in that order.                                           *)
Sorts == {"ASC", "DESC"}
IdOrder(sort) == <<[key |-> "id", dir |-> sort]>>
Before(sort, r, s) == IF sort = "DESC" THEN s.id < r.id ELSE r.id < s.id
Occurs(r, seq) == \E i \in 1..Len(seq) : seq[i] = r
Ascends(sort, seq) == \A i, j \in 1..Len(seq) : i < j => Before(sort, seq[i], seq[j])

(* The values of the walk.                                                 *)
PagesType ==
  /\ rows \subseteq Table
  /\ changes \in Nat
  /\ walk \in [pc : {"first", "on", "end", "back"}, kind : {"fast", "sql", "mongo"}, sort : Sorts,
               size : Int, page : Seq(Table), shown : Seq(Table), steady : SUBSET Table,
               no : Nat, count : Nat]

(* After a page back: it holds the rows nearest before the id it started   *)
(* from, as many as fit.                                                   *)
BackInv ==
  LET before == {r \in rows : IF walk.sort = "DESC" THEN r.id > walk.no ELSE r.id < walk.no}
      back == {walk.page[i] : i \in DOMAIN walk.page}
  IN  /\ back \subseteq before
      /\ Cardinality(back) = IF Cardinality(before) < PageSize(walk.size)
                             THEN Cardinality(before) ELSE PageSize(walk.size)
      /\ \A r \in back, s \in before \ back : Before(walk.sort, s, r)

(* Through fast pages: what was shown is in order, and a row that has been *)
(* there all the time was shown or comes after the last row shown, from    *)
(* which the next cursor starts; at the end it was shown.                  *)
FastInv ==
  /\ walk.steady \subseteq rows
  /\ Ascends(walk.sort, walk.shown)
  /\ walk.pc = "first" => walk.shown = <<>>
  /\ walk.pc = "on" =>
       /\ walk.page # <<>> /\ walk.shown # <<>>
       /\ walk.shown[Len(walk.shown)] = walk.page[Len(walk.page)]
       /\ \A r \in walk.steady : Occurs(r, walk.shown) \/ Before(walk.sort, walk.shown[Len(walk.shown)], r)
  /\ walk.pc = "end" => \A r \in walk.steady : Occurs(r, walk.shown)
  /\ walk.pc = "back" => BackInv

(* The rows that pages by number count as shown.                           *)
Seen == walk.no * PageSize(walk.size)

(* Through numbered pages with no change: what was shown is the beginning  *)
(* of the sorted table, Seen rows of it or all, and the walk goes on       *)
(* exactly while there are more.                                           *)
NumberedInv ==
  LET all == Sorted(Table, IdOrder(walk.sort))
  IN  /\ rows = Table
      /\ walk.pc # "back"
      /\ Len(walk.shown) = IF Seen < Cardinality(Table) THEN Seen ELSE Cardinality(Table)
      /\ \A i \in 1..Len(walk.shown) : walk.shown[i] = all[i]
      /\ walk.pc = "first" => walk.no = 0
      /\ walk.pc = "on" => Seen < Cardinality(Table)
      /\ walk.pc = "end" => Seen >= Cardinality(Table)

(* The inductive invariant.                                                *)
PagesInv ==
  /\ PagesType
  /\ walk.kind = "fast" => FastInv
  /\ walk.kind # "fast" /\ changes = 0 => NumberedInv

(* With the order by the id alone that every page of a walk asks for, a    *)
(* row comes earlier when its id is smaller, or larger when descending.    *)
LEMMA OrderIsById ==
  ASSUME NEW sort \in Sorts, NEW r \in Table, NEW s \in Table
  PROVE  Earlier(r, s, IdOrder(sort)) <=> Before(sort, r, s)
<1>1. r.id \in Nat /\ s.id \in Nat
  BY TableAssumption
<1>2. DOMAIN IdOrder(sort) = {1} /\ IdOrder(sort)[1].key = "id" /\ IdOrder(sort)[1].dir = sort
  BY DEF IdOrder
<1>3. QED
  BY <1>1, <1>2 DEF Earlier, Before, Column, Sorts

(* Ids are unique, so this order of the rows is total and strict.          *)
LEMMA BeforeOrders ==
  ASSUME NEW sort \in Sorts
  PROVE  /\ \A r, s \in Table : r = s \/ Before(sort, r, s) \/ Before(sort, s, r)
         /\ \A r, s \in Table : Before(sort, r, s) => r # s /\ ~Before(sort, s, r)
         /\ \A r, s, t \in Table : Before(sort, r, s) /\ Before(sort, s, t) => Before(sort, r, t)
<1>1. \A r \in Table : r.id \in Nat
  BY TableAssumption
<1>2. \A r, s \in Table : r.id = s.id => r = s
  BY TableAssumption
<1>3. QED
  BY <1>1, <1>2 DEF Before, Sorts

(* The rows of a set ahead of a row.                                       *)
Ahead(sort, S, r) == {s \in S : Before(sort, s, r)}

(* A row further on has more rows ahead of it.                             *)
LEMMA AheadGrows ==
  ASSUME NEW sort \in Sorts, NEW S \in SUBSET Table, NEW r \in S, NEW t \in S, Before(sort, r, t)
  PROVE  Cardinality(Ahead(sort, S, r)) < Cardinality(Ahead(sort, S, t))
<1>1. IsFiniteSet(S)
  BY TableAssumption, FS_Subset
<1>2. Ahead(sort, S, r) \in SUBSET S /\ Ahead(sort, S, t) \in SUBSET S
  BY DEF Ahead
<1>3. IsFiniteSet(Ahead(sort, S, t)) /\ IsFiniteSet(Ahead(sort, S, r))
  BY <1>1, <1>2, FS_Subset
<1>4. Ahead(sort, S, r) \subseteq Ahead(sort, S, t)
  BY BeforeOrders DEF Ahead
<1>5. r \in Ahead(sort, S, t) /\ r \notin Ahead(sort, S, r)
  BY BeforeOrders DEF Ahead
<1>6. Cardinality(Ahead(sort, S, t)) \in Nat /\ Cardinality(Ahead(sort, S, r)) \in Nat
  BY <1>3, FS_CardinalityType
<1>7. /\ Cardinality(Ahead(sort, S, r)) <= Cardinality(Ahead(sort, S, t))
      /\ Cardinality(Ahead(sort, S, t)) # Cardinality(Ahead(sort, S, r))
  BY <1>3, <1>4, <1>5, FS_Subset
<1>8. QED
  BY <1>6, <1>7

(* Every rank below the size of a set is the rank of one of its rows: the  *)
(* ranks are an injection of a finite set into an interval of the same     *)
(* size.                                                                   *)
LEMMA SortedIsRanked ==
  ASSUME NEW sort \in Sorts, NEW S \in SUBSET Table
  PROVE  /\ Cardinality(S) \in Nat
         /\ \A n \in 1..Cardinality(S) : \E r \in S : Cardinality(Ahead(sort, S, r)) = n - 1
<1> DEFINE N == Cardinality(S)
           f == [r \in S |-> Cardinality(Ahead(sort, S, r)) + 1]
<1>1. IsFiniteSet(S)
  BY TableAssumption, FS_Subset
<1>2. N \in Nat
  BY <1>1, FS_CardinalityType
<1>3. ASSUME NEW r \in S PROVE Cardinality(Ahead(sort, S, r)) \in 0..N - 1
  <2>1. Ahead(sort, S, r) \in SUBSET S
    BY DEF Ahead
  <2>2. IsFiniteSet(Ahead(sort, S, r))
    BY <1>1, <2>1, FS_Subset
  <2>3. r \notin Ahead(sort, S, r)
    BY BeforeOrders DEF Ahead
  <2>4. Cardinality(Ahead(sort, S, r)) <= N /\ N # Cardinality(Ahead(sort, S, r))
    BY <1>1, <2>1, <2>3, FS_Subset
  <2>5. Cardinality(Ahead(sort, S, r)) \in Nat
    BY <2>2, FS_CardinalityType
  <2>6. QED
    BY <1>2, <2>4, <2>5
<1>4. f \in [S -> 1..N]
  BY <1>2, <1>3
<1>5. ASSUME NEW r \in S, NEW t \in S, f[r] = f[t] PROVE r = t
  <2>1. Cardinality(Ahead(sort, S, r)) = Cardinality(Ahead(sort, S, t))
    BY <1>2, <1>3, <1>5
  <2>2. ~Before(sort, r, t) /\ ~Before(sort, t, r)
    BY <1>2, <1>3, <2>1, AheadGrows
  <2>3. QED
    BY <2>2, BeforeOrders
<1>6. f \in Injection(S, 1..N)
  BY <1>4, <1>5 DEF Injection, IsInjective
<1>7. IsFiniteSet(1..N) /\ Cardinality(1..N) = N
  BY <1>2, FS_Interval
<1>8. f \in Surjection(S, 1..N)
  BY <1>6, <1>7, FS_Injection
<1>9. ASSUME NEW n \in 1..N PROVE \E r \in S : Cardinality(Ahead(sort, S, r)) = n - 1
  <2>1. PICK r \in S : f[r] = n
    BY <1>8, Zenon DEF Surjection
  <2>2. Cardinality(Ahead(sort, S, r)) = n - 1
    BY <1>2, <1>3, <2>1
  <2>3. QED
    BY <2>2
<1>10. QED
  BY <1>2, <1>9

(* So Sorted lists every row of the set once, in the order of the ids.     *)
LEMMA SortedEnumerates ==
  ASSUME NEW sort \in Sorts, NEW S \in SUBSET Table
  PROVE  /\ Sorted(S, IdOrder(sort)) \in Seq(S)
         /\ Len(Sorted(S, IdOrder(sort))) = Cardinality(S) /\ Cardinality(S) \in Nat
         /\ Ascends(sort, Sorted(S, IdOrder(sort)))
         /\ \A r \in S : Occurs(r, Sorted(S, IdOrder(sort)))
<1> DEFINE N == Cardinality(S)
           all == Sorted(S, IdOrder(sort))
           At(n) == CHOOSE r \in S : Cardinality(Ahead(sort, S, r)) = n - 1
<1>1. N \in Nat
  BY SortedIsRanked
<1>2. ASSUME NEW r \in S PROVE {s \in S : Earlier(s, r, IdOrder(sort))} = Ahead(sort, S, r)
  BY OrderIsById DEF Ahead
<1>3. all = [n \in 1..N |-> CHOOSE r \in S : Cardinality({s \in S : Earlier(s, r, IdOrder(sort))}) = n - 1]
  BY DEF Sorted
<1>4. ASSUME NEW n \in 1..N PROVE all[n] \in S /\ Cardinality(Ahead(sort, S, all[n])) = n - 1
  <2>1. PICK r \in S : Cardinality(Ahead(sort, S, r)) = n - 1
    BY SortedIsRanked
  <2>2. Cardinality({s \in S : Earlier(s, r, IdOrder(sort))}) = n - 1
    BY <1>2, <2>1
  <2>3. all[n] = CHOOSE t \in S : Cardinality({s \in S : Earlier(s, t, IdOrder(sort))}) = n - 1
    BY <1>3
  <2>4. all[n] \in S /\ Cardinality({s \in S : Earlier(s, all[n], IdOrder(sort))}) = n - 1
    BY <2>2, <2>3
  <2>5. QED
    BY <1>2, <2>4
<1> HIDE DEF all
<1>5. all \in [1..N -> S]
  BY <1>3, <1>4
<1>6. all \in Seq(S) /\ Len(all) = N
  BY <1>1, <1>5
<1>7. ASSUME NEW i \in 1..N, NEW j \in 1..N, i < j PROVE Before(sort, all[i], all[j])
  <2>1. all[i] \in S /\ all[j] \in S
    BY <1>4
  <2>2. Cardinality(Ahead(sort, S, all[i])) = i - 1 /\ Cardinality(Ahead(sort, S, all[j])) = j - 1
    BY <1>4
  <2>3. all[i] # all[j] /\ ~Before(sort, all[j], all[i])
    BY <1>1, <1>7, <2>1, <2>2, AheadGrows
  <2>4. QED
    BY <2>1, <2>3, BeforeOrders
<1>8. ASSUME NEW r \in S PROVE \E n \in 1..N : all[n] = r
  <2>1. IsFiniteSet(S)
    BY TableAssumption, FS_Subset
  <2>2. Ahead(sort, S, r) \in SUBSET S /\ r \notin Ahead(sort, S, r)
    BY BeforeOrders DEF Ahead
  <2>3. IsFiniteSet(Ahead(sort, S, r))
    BY <2>1, <2>2, FS_Subset
  <2>4. Cardinality(Ahead(sort, S, r)) \in Nat
    BY <2>3, FS_CardinalityType
  <2>5. Cardinality(Ahead(sort, S, r)) <= N /\ N # Cardinality(Ahead(sort, S, r))
    BY <2>1, <2>2, FS_Subset
  <2> DEFINE n == Cardinality(Ahead(sort, S, r)) + 1
  <2>6. n \in 1..N
    BY <1>1, <2>4, <2>5
  <2>7. all[n] \in S /\ Cardinality(Ahead(sort, S, all[n])) = Cardinality(Ahead(sort, S, r))
    BY <1>1, <1>4, <2>4, <2>6
  <2>8. ~Before(sort, all[n], r) /\ ~Before(sort, r, all[n])
    BY <2>4, <2>7, AheadGrows
  <2>9. all[n] = r
    BY <2>7, <2>8, BeforeOrders
  <2>10. QED
    BY <2>6, <2>9
<1>9. QED
  BY <1>1, <1>6, <1>7, <1>8 DEF Ascends, Occurs, all

(* The size of a page is positive and at most the maximum, whatever the    *)
(* caller asks for (Limit, FastPage: cnd.go 325-327, 460-465).             *)
LEMMA SizeIsPositive ==
  ASSUME NEW size \in Int
  PROVE  PageSize(size) \in 1..MaxPageSize /\ PageSize(PageSize(size)) = PageSize(size)
BY TableAssumption DEF PageSize

(* What a limit clause cuts out of the rows found, also past their end.    *)
LEMMA SliceIsPart ==
  ASSUME NEW S, NEW seq \in Seq(S), NEW from \in Nat, NEW size \in Nat
  PROVE  /\ Slice(seq, <<from, size>>) \in Seq(S)
         /\ Len(Slice(seq, <<from, size>>)) =
              IF from + size <= Len(seq) THEN size ELSE IF from <= Len(seq) THEN Len(seq) - from ELSE 0
         /\ \A i \in 1..Len(Slice(seq, <<from, size>>)) : Slice(seq, <<from, size>>)[i] = seq[from + i]
<1> DEFINE end == IF from + size > Len(seq) THEN Len(seq) ELSE from + size
           part == Slice(seq, <<from, size>>)
<1>1. end \in Int /\ end <= Len(seq) /\ from + 1 \in Int /\ Len(seq) \in Nat
  OBVIOUS
<1>2. part = SubSeq(seq, from + 1, end)
  BY DEF Slice
<1>3. \A i \in (from + 1)..end : seq[i] \in S
  BY <1>1
<1> HIDE DEF end, part
<1>4. /\ SubSeq(seq, from + 1, end) \in Seq(S)
      /\ Len(SubSeq(seq, from + 1, end)) = IF from + 1 <= end THEN end - (from + 1) + 1 ELSE 0
      /\ \A i \in 1..end - (from + 1) + 1 : SubSeq(seq, from + 1, end)[i] = seq[from + 1 + i - 1]
  BY <1>1, <1>3, SubSeqProperties
<1>5. part \in Seq(S) /\ Len(part) = IF from <= end THEN end - from ELSE 0
  BY <1>1, <1>2, <1>4
<1>6. \A i \in 1..Len(part) : part[i] = seq[from + i]
  BY <1>1, <1>2, <1>4, <1>5
<1>7. Len(part) = IF from + size <= Len(seq) THEN size ELSE IF from <= Len(seq) THEN Len(seq) - from ELSE 0
  BY <1>1, <1>5 DEF end
<1>8. QED
  BY <1>5, <1>6, <1>7 DEF part

(* The first rows of a set in an order.                                    *)
FirstOf(sort, S, size) == Slice(Sorted(S, IdOrder(sort)), <<0, size>>)

(* The first page of a set: as many of its rows as fit, in order; a row    *)
(* that is not on it means that the page is full and comes after all of    *)
(* it.                                                                     *)
LEMMA FirstOfIsNearest ==
  ASSUME NEW sort \in Sorts, NEW S \in SUBSET Table, NEW size \in Nat \ {0}
  PROVE  /\ FirstOf(sort, S, size) \in Seq(S)
         /\ Cardinality(S) \in Nat
         /\ Len(FirstOf(sort, S, size)) = IF Cardinality(S) < size THEN Cardinality(S) ELSE size
         /\ Ascends(sort, FirstOf(sort, S, size))
         /\ \A r \in S : ~Occurs(r, FirstOf(sort, S, size)) =>
              /\ Len(FirstOf(sort, S, size)) = size
              /\ \A i \in 1..Len(FirstOf(sort, S, size)) : Before(sort, FirstOf(sort, S, size)[i], r)
<1> DEFINE all == Sorted(S, IdOrder(sort))
           page == FirstOf(sort, S, size)
<1>1. /\ all \in Seq(S)
      /\ Len(all) = Cardinality(S) /\ Cardinality(S) \in Nat
      /\ Ascends(sort, all)
      /\ \A r \in S : Occurs(r, all)
  BY SortedEnumerates
<1>2. page = Slice(all, <<0, size>>)
  BY DEF FirstOf
<1> HIDE DEF all, page
<1>3. /\ page \in Seq(S)
      /\ Len(page) = IF 0 + size <= Len(all) THEN size ELSE IF 0 <= Len(all) THEN Len(all) - 0 ELSE 0
      /\ \A i \in 1..Len(page) : page[i] = all[0 + i]
  <2>1. all \in Seq(S) /\ 0 \in Nat /\ size \in Nat
    BY <1>1
  <2>2. QED
    BY <1>2, <2>1, SliceIsPart
<1>4. Len(page) \in Nat /\ Len(page) <= Len(all) /\ \A i \in 1..Len(page) : page[i] = all[i]
  BY <1>1, <1>3
<1>5. Ascends(sort, page)
  BY <1>1, <1>4 DEF Ascends
<1>6. ASSUME NEW r \in S, ~Occurs(r, page)
      PROVE  Len(page) = size /\ \A i \in 1..Len(page) : Before(sort, page[i], r)
  <2>1. PICK n \in 1..Len(all) : all[n] = r
    BY <1>1 DEF Occurs
  <2>2. ~(n \in 1..Len(page))
    BY <1>4, <1>6, <2>1 DEF Occurs
  <2>3. n > Len(page) /\ Len(page) = size
    BY <1>1, <1>3, <1>4, <2>1, <2>2
  <2>4. QED
    BY <1>1, <1>4, <2>1, <2>3 DEF Ascends
<1>7. Len(page) = IF Cardinality(S) < size THEN Cardinality(S) ELSE size
  BY <1>1, <1>3
<1>8. QED
  BY <1>1, <1>3, <1>5, <1>6, <1>7 DEF page

\* The records of a Cnd and of its page, written out, and their fields one by one.
PageOf(w1, w2, w3, w4, w5, w6, w7, w8, w9, w10, w11) ==
  [no |-> w1, size |-> w2, isOffset |-> w3, isPage |-> w4, isFast |-> w5, sort |-> w6, prev |-> w7,
   last |-> w8, sortParam |-> w9, total |-> w10, count |-> w11]
CndOf(conditions, orders, page, limitSize) ==
  [conditions |-> conditions, orders |-> orders, page |-> page, limitSize |-> limitSize]

(* The page of a fast walk.                                                *)
FastPageOf(sort, prev, last, size, param) ==
  PageOf(0, PageSize(size), FALSE, FALSE, TRUE, sort, prev, last, param, 0, 0)

(* The Cnd that FastPage leaves, before and after FindList sets its result *)
(* size (cnd.go 459-475, mongo_manager.go 595).                            *)
LEMMA FastPageIs ==
  ASSUME NEW sort, NEW prev, NEW last, NEW size \in Int
  PROVE  /\ FastPage(M, sort, prev, last, size) = CndOf(<<>>, <<>>, FastPageOf(sort, prev, last, size, ""), 0)
         /\ ResultSize(FastPage(M, sort, prev, last, size), PageSize(size))
              = CndOf(<<>>, <<>>, FastPageOf(sort, prev, last, size, ""), PageSize(size))
<1>1. PICK p0, z : p0 = NoPage /\ z = PageSize(size)
  OBVIOUS
<1>a1. PICK p1 : p1 = [p0 EXCEPT !.size = z]
  OBVIOUS
<1>a2. PICK p2 : p2 = [p1 EXCEPT !.isFast = TRUE]
  OBVIOUS
<1>a3. PICK p3 : p3 = [p2 EXCEPT !.sort = sort]
  OBVIOUS
<1>a4. PICK p4 : p4 = [p3 EXCEPT !.prev = prev]
  OBVIOUS
<1>a5. PICK p5 : p5 = [p4 EXCEPT !.last = last]
  OBVIOUS
<1>3. [p0 EXCEPT !.size = z, !.isFast = TRUE, !.sort = sort, !.prev = prev, !.last = last]
       = [[[[[p0 EXCEPT !.size = z] EXCEPT !.isFast = TRUE] EXCEPT !.sort = sort] EXCEPT !.prev = prev] EXCEPT !.last = last]
  OBVIOUS
<1>4. p0 = PageOf(0, 0, FALSE, FALSE, FALSE, "", 0, 0, "", 0, 0)
  BY <1>1 DEF NoPage, PageOf
<1>5. p1 = PageOf(0, z, FALSE, FALSE, FALSE, "", 0, 0, "", 0, 0)
  BY <1>a1, <1>4 DEF PageOf
<1>6. p2 = PageOf(0, z, FALSE, FALSE, TRUE, "", 0, 0, "", 0, 0)
  BY <1>a2, <1>5 DEF PageOf
<1>7. p3 = PageOf(0, z, FALSE, FALSE, TRUE, sort, 0, 0, "", 0, 0)
  BY <1>a3, <1>6 DEF PageOf
<1>8. p4 = PageOf(0, z, FALSE, FALSE, TRUE, sort, prev, 0, "", 0, 0)
  BY <1>a4, <1>7 DEF PageOf
<1>9. p5 = PageOf(0, z, FALSE, FALSE, TRUE, sort, prev, last, "", 0, 0)
  BY <1>a5, <1>8 DEF PageOf
<1>10. [NoPage EXCEPT !.size = PageSize(size), !.isFast = TRUE, !.sort = sort, !.prev = prev, !.last = last]
         = FastPageOf(sort, prev, last, size, "")
  BY <1>1, <1>a1, <1>a2, <1>a3, <1>a4, <1>a5, <1>3, <1>9, Zenon DEF FastPageOf
<1>11. M = CndOf(<<>>, <<>>, NoPage, 0)
  BY DEF M, CndOf
<1>12. PICK q, m : q = FastPageOf(sort, prev, last, size, "") /\ m = M
  OBVIOUS
<1>c. PICK f : f = [m EXCEPT !.page = q]
  OBVIOUS
<1>d. PICK h : h = [f EXCEPT !.limitSize = z]
  OBVIOUS
<1>e. m = CndOf(<<>>, <<>>, NoPage, 0)
  BY <1>11, <1>12, Zenon
<1>13. f = CndOf(<<>>, <<>>, q, 0)
  BY <1>c, <1>e DEF CndOf
<1>14. h = CndOf(<<>>, <<>>, q, z)
  BY <1>d, <1>13 DEF CndOf
<1>15. FastPage(M, sort, prev, last, size) = f
  BY <1>10, <1>12, <1>c, Zenon DEF FastPage
<1>f. PageSize(PageSize(size)) = z
  BY <1>1, SizeIsPositive
<1>b. ResultSize(FastPage(M, sort, prev, last, size), PageSize(size)) = h
  BY <1>d, <1>15, <1>f, Zenon DEF ResultSize
<1>16. QED
  BY <1>1, <1>12, <1>13, <1>14, <1>15, <1>b, Zenon

(* The fields of a Cnd for a fast page.                                    *)
FastCnd(c, conditions, orders, sort, prev, last, size, param, limitSize) ==
  /\ c.conditions = conditions /\ c.orders = orders /\ c.limitSize = limitSize
  /\ c.page.prev = prev /\ c.page.last = last /\ c.page.sort = sort /\ c.page.size = PageSize(size)
  /\ c.page.isFast = TRUE /\ c.page.sortParam = param

(* Its fields one by one.                                                  *)
LEMMA FastPageFields ==
  ASSUME NEW sort, NEW prev, NEW last, NEW size, NEW param, NEW w1, NEW w2, NEW w4
  PROVE  FastCnd(CndOf(w1, w2, FastPageOf(sort, prev, last, size, param), w4), w1, w2,
                 sort, prev, last, size, param, w4)
<1>1. PICK q, c, z : /\ z = PageSize(size) /\ q = PageOf(0, z, FALSE, FALSE, TRUE, sort, prev, last, param, 0, 0)
                     /\ c = CndOf(w1, w2, q, w4)
  OBVIOUS
<1>2. q = FastPageOf(sort, prev, last, size, param)
  BY <1>1, Zenon DEF FastPageOf
<1>3. c.conditions = w1 /\ c.orders = w2 /\ c.limitSize = w4 /\ c.page = q
  BY <1>1 DEF CndOf
<1>4. /\ q.prev = prev /\ q.last = last /\ q.sort = sort /\ q.size = z
      /\ q.isFast = TRUE /\ q.sortParam = param
  BY <1>1 DEF PageOf
<1>5. QED
  BY <1>1, <1>2, <1>3, <1>4, Zenon DEF FastCnd

(* FindList's assignment to the sort parameter.                            *)
SetParam(c, param) == [c EXCEPT !.page.sortParam = param]
ParamIs(c, param, d) == SetParam(c, param) = d

(* The sort parameter that FindList writes into the page changes nothing   *)
(* else.                                                                   *)
LEMMA ParamOf ==
  ASSUME NEW cs, NEW os, NEW sort, NEW prev, NEW last, NEW size, NEW ls, NEW param
  PROVE  ParamIs(CndOf(cs, os, FastPageOf(sort, prev, last, size, ""), ls), param,
                 CndOf(cs, os, FastPageOf(sort, prev, last, size, param), ls))
<1>1. PICK z, q : z = PageSize(size) /\ q = PageOf(0, z, FALSE, FALSE, TRUE, sort, prev, last, "", 0, 0)
  OBVIOUS
<1>a. PICK c, p : c = CndOf(cs, os, q, ls) /\ p = [q EXCEPT !.sortParam = param]
  OBVIOUS
<1>b. PICK d : d = [c EXCEPT !.page.sortParam = param]
  OBVIOUS
<1>2. p = PageOf(0, z, FALSE, FALSE, TRUE, sort, prev, last, param, 0, 0)
  BY <1>1, <1>a DEF PageOf
<1>3. d = CndOf(cs, os, p, ls)
  BY <1>a, <1>b DEF CndOf
<1>4. QED
  BY <1>1, <1>2, <1>3, <1>a, <1>b, Zenon DEF FastPageOf, SetParam, ParamIs

(* A condition on the id.                                                  *)
IdIs(logic, id) == Condition(logic, "id", <<id>>, <<>>)

(* The one order or condition that FindList adds to an empty Cnd.          *)
LEMMA Built ==
  ASSUME NEW p, NEW ls, NEW dir, NEW logic, NEW id \in Nat
  PROVE  /\ Orderby(CndOf(<<>>, <<>>, p, ls), "id", dir) = CndOf(<<>>, IdOrder(dir), p, ls)
         /\ Compared(CndOf(<<>>, <<>>, p, ls), logic, "id", id) = CndOf(<<IdIs(logic, id)>>, <<>>, p, ls)
<1>1. PICK c, x, y : c = CndOf(<<>>, <<>>, p, ls) /\ x = IdIs(logic, id) /\ y = [key |-> "id", dir |-> dir]
  OBVIOUS
<1>2. PICK d, e : d = [c EXCEPT !.orders = <<y>>] /\ e = [c EXCEPT !.conditions = <<x>>]
  OBVIOUS
<1>3. d = CndOf(<<>>, <<y>>, p, ls)
  BY <1>1, <1>2 DEF CndOf
<1>4. e = CndOf(<<x>>, <<>>, p, ls)
  BY <1>1, <1>2 DEF CndOf
<1>5. c.orders = <<>> /\ c.conditions = <<>>
  BY <1>1 DEF CndOf
<1>6. Append(c.orders, y) = <<y>> /\ Append(c.conditions, x) = <<x>>
  BY <1>5
<1>7. Orderby(c, "id", dir) = d
  BY <1>1, <1>2, <1>6, Zenon DEF Orderby
<1>8. id # Nil
  BY DEF Nil
<1>9. Compared(c, logic, "id", id) = e
  BY <1>1, <1>2, <1>6, <1>8, Zenon DEF Compared, addDefaultCondit, IdIs
<1>10. QED
  BY <1>1, <1>3, <1>4, <1>7, <1>9, Zenon DEF IdOrder

(* The first fast page has no condition and the caller's order             *)
(* (mongo_manager.go 596-599).                                             *)
LEMMA FirstCursor ==
  ASSUME NEW sort \in Sorts, NEW size \in Int
  PROVE  FastCursor(FastPage(M, sort, 0, 0, size))
           = CndOf(<<>>, IdOrder(sort), FastPageOf(sort, 0, 0, size, sort), PageSize(size))
<1>1. PICK f : f = FastPage(M, sort, 0, 0, size)
  OBVIOUS
<1>2. /\ f = CndOf(<<>>, <<>>, FastPageOf(sort, 0, 0, size, ""), 0)
      /\ ResultSize(f, PageSize(size)) = CndOf(<<>>, <<>>, FastPageOf(sort, 0, 0, size, ""), PageSize(size))
  BY <1>1, FastPageIs, Zenon
<1>3. f.page.prev = 0 /\ f.page.last = 0 /\ f.page.sort = sort /\ f.page.size = PageSize(size)
  <2>1. FastCnd(CndOf(<<>>, <<>>, FastPageOf(sort, 0, 0, size, ""), 0), <<>>, <<>>, sort, 0, 0, size, "", 0)
    BY FastPageFields, Zenon
  <2>2. QED
    BY <1>2, <2>1, Zenon DEF FastCnd
<1>4. Orderby(ResultSize(f, PageSize(size)), "id", sort)
        = CndOf(<<>>, IdOrder(sort), FastPageOf(sort, 0, 0, size, ""), PageSize(size))
  <2>1. Orderby(CndOf(<<>>, <<>>, FastPageOf(sort, 0, 0, size, ""), PageSize(size)), "id", sort)
          = CndOf(<<>>, IdOrder(sort), FastPageOf(sort, 0, 0, size, ""), PageSize(size))
    BY Built, 0 \in Nat, Zenon
  <2>2. QED
    BY <1>2, <2>1, Zenon
<1>5. FastCursor(f) = SetParam(Orderby(ResultSize(f, PageSize(size)), "id", sort), sort)
  BY <1>3, Zenon DEF FastCursor, SetParam
<1>6. ParamIs(CndOf(<<>>, IdOrder(sort), FastPageOf(sort, 0, 0, size, ""), PageSize(size)), sort,
                CndOf(<<>>, IdOrder(sort), FastPageOf(sort, 0, 0, size, sort), PageSize(size)))
  BY ParamOf, Zenon
<1>7. QED
  BY <1>1, <1>4, <1>5, <1>6, Zenon DEF ParamIs

(* The page after an id selects the ids beyond it (mongo_manager.go        *)
(* 605-608, 614-617).                                                      *)
LEMMA NextCursor ==
  ASSUME NEW sort \in Sorts, NEW last \in Nat \ {0}, NEW size \in Int
  PROVE  FastCursor(FastPage(M, sort, 0, last, size))
           = CndOf(<<IdIs(IF sort = "DESC" THEN "LT" ELSE "GT", last)>>, <<>>,
                   FastPageOf(sort, 0, last, size, sort), PageSize(size))
<1>1. PICK f : f = FastPage(M, sort, 0, last, size)
  OBVIOUS
<1>2. /\ f = CndOf(<<>>, <<>>, FastPageOf(sort, 0, last, size, ""), 0)
      /\ ResultSize(f, PageSize(size)) = CndOf(<<>>, <<>>, FastPageOf(sort, 0, last, size, ""), PageSize(size))
  BY <1>1, FastPageIs, Zenon
<1>3. f.page.prev = 0 /\ f.page.last = last /\ f.page.sort = sort /\ f.page.size = PageSize(size)
  <2>1. FastCnd(CndOf(<<>>, <<>>, FastPageOf(sort, 0, last, size, ""), 0), <<>>, <<>>, sort, 0, last, size, "", 0)
    BY FastPageFields, Zenon
  <2>2. QED
    BY <1>2, <2>1, Zenon DEF FastCnd
<1>4. PICK l : l = IF sort = "DESC" THEN "LT" ELSE "GT"
  OBVIOUS
<1>5. last \in Nat /\ last # 0
  OBVIOUS
<1>6. Compared(ResultSize(f, PageSize(size)), l, "id", last)
        = CndOf(<<IdIs(l, last)>>, <<>>, FastPageOf(sort, 0, last, size, ""), PageSize(size))
  <2>1. Compared(CndOf(<<>>, <<>>, FastPageOf(sort, 0, last, size, ""), PageSize(size)), l, "id", last)
          = CndOf(<<IdIs(l, last)>>, <<>>, FastPageOf(sort, 0, last, size, ""), PageSize(size))
    BY <1>5, Built, ZenonT(120)
  <2>2. QED
    BY <1>2, <2>1, Zenon
<1>7. FastCursor(f) = SetParam(Compared(ResultSize(f, PageSize(size)), l, "id", last), sort)
  BY <1>3, <1>4, <1>5, Zenon DEF FastCursor, SetParam
<1>8. FastCursor(f) = CndOf(<<IdIs(l, last)>>, <<>>, FastPageOf(sort, 0, last, size, sort), PageSize(size))
  <2>1. ParamIs(CndOf(<<IdIs(l, last)>>, <<>>, FastPageOf(sort, 0, last, size, ""), PageSize(size)), sort,
                CndOf(<<IdIs(l, last)>>, <<>>, FastPageOf(sort, 0, last, size, sort), PageSize(size)))
    BY ParamOf, Zenon
  <2>2. QED
    BY <1>6, <1>7, <2>1, Zenon DEF ParamIs
<1>9. QED
  BY <1>1, <1>4, <1>8, Zenon

(* The page before an id selects the ids on its other side, nearest first  *)
(* (mongo_manager.go 601-604, 610-613).                                    *)
LEMMA PrevCursor ==
  ASSUME NEW sort \in Sorts, NEW prev \in Nat \ {0}, NEW size \in Int
  PROVE  FastCursor(FastPage(M, sort, prev, 0, size))
           = CndOf(<<IdIs(IF sort = "DESC" THEN "GT" ELSE "LT", prev)>>, <<>>,
                   FastPageOf(sort, prev, 0, size, IF sort = "DESC" THEN "ASC" ELSE "DESC"), PageSize(size))
<1>1. PICK f : f = FastPage(M, sort, prev, 0, size)
  OBVIOUS
<1>2. /\ f = CndOf(<<>>, <<>>, FastPageOf(sort, prev, 0, size, ""), 0)
      /\ ResultSize(f, PageSize(size)) = CndOf(<<>>, <<>>, FastPageOf(sort, prev, 0, size, ""), PageSize(size))
  BY <1>1, FastPageIs, Zenon
<1>3. f.page.prev = prev /\ f.page.last = 0 /\ f.page.sort = sort /\ f.page.size = PageSize(size)
  <2>1. FastCnd(CndOf(<<>>, <<>>, FastPageOf(sort, prev, 0, size, ""), 0), <<>>, <<>>, sort, prev, 0, size, "", 0)
    BY FastPageFields, Zenon
  <2>2. QED
    BY <1>2, <2>1, Zenon DEF FastCnd
<1>4. PICK l, back : l = (IF sort = "DESC" THEN "GT" ELSE "LT") /\ back = IF sort = "DESC" THEN "ASC" ELSE "DESC"
  OBVIOUS
<1>5. prev \in Nat /\ prev # 0
  OBVIOUS
<1>6. Compared(ResultSize(f, PageSize(size)), l, "id", prev)
        = CndOf(<<IdIs(l, prev)>>, <<>>, FastPageOf(sort, prev, 0, size, ""), PageSize(size))
  <2>1. Compared(CndOf(<<>>, <<>>, FastPageOf(sort, prev, 0, size, ""), PageSize(size)), l, "id", prev)
          = CndOf(<<IdIs(l, prev)>>, <<>>, FastPageOf(sort, prev, 0, size, ""), PageSize(size))
    BY <1>5, Built, ZenonT(120)
  <2>2. QED
    BY <1>2, <2>1, Zenon
<1>7. FastCursor(f) = SetParam(Compared(ResultSize(f, PageSize(size)), l, "id", prev), back)
  BY <1>3, <1>4, <1>5, Zenon DEF FastCursor, SetParam
<1>8. FastCursor(f) = CndOf(<<IdIs(l, prev)>>, <<>>, FastPageOf(sort, prev, 0, size, back), PageSize(size))
  <2>1. ParamIs(CndOf(<<IdIs(l, prev)>>, <<>>, FastPageOf(sort, prev, 0, size, ""), PageSize(size)), back,
                CndOf(<<IdIs(l, prev)>>, <<>>, FastPageOf(sort, prev, 0, size, back), PageSize(size)))
    BY ParamOf, Zenon
  <2>2. QED
    BY <1>6, <1>7, <2>1, Zenon DEF ParamIs
<1>9. QED
  BY <1>1, <1>4, <1>8, Zenon

(* The fields of a Cnd for a numbered page with its totals.                *)
NumberedCnd(c, sort, no, size, n) ==
  /\ c.conditions = <<>> /\ c.orders = IdOrder(sort) /\ c.limitSize = 0
  /\ c.page.no = no + 1 /\ c.page.size = PageSize(size) /\ ~c.page.isOffset /\ ~c.page.isFast
  /\ c.page.count = IF n > 0 THEN (n + PageSize(size) - 1) \div PageSize(size) ELSE 0

(* The Cnd of a numbered page once Count has filled in its totals.         *)
LEMMA NumberedCursor ==
  ASSUME NEW sort \in Sorts, NEW no \in Nat, NEW size \in Int, NEW n \in Nat
  PROVE  NumberedCnd(Counted(Orderby(Limit(M, no + 1, size), "id", sort), n), sort, no, size, n)
<1>0. PICK c : c = Counted(Orderby(Limit(M, no + 1, size), "id", sort), n)
  OBVIOUS
<1>1. PICK p0, y, z : p0 = NoPage /\ y = no + 1 /\ z = PageSize(size)
  OBVIOUS
<1>a1. PICK p1 : p1 = [p0 EXCEPT !.no = y]
  OBVIOUS
<1>a2. PICK p2 : p2 = [p1 EXCEPT !.size = z]
  OBVIOUS
<1>a3. PICK q : q = [p2 EXCEPT !.isPage = TRUE]
  OBVIOUS
<1>a4. PICK m : m = M
  OBVIOUS
<1>a5. PICK l : l = [m EXCEPT !.page = q]
  OBVIOUS
<1>3. [p0 EXCEPT !.no = y, !.size = z, !.isPage = TRUE] = [[[p0 EXCEPT !.no = y] EXCEPT !.size = z] EXCEPT !.isPage = TRUE]
  OBVIOUS
<1>4. p0 = PageOf(0, 0, FALSE, FALSE, FALSE, "", 0, 0, "", 0, 0)
  BY <1>1 DEF NoPage, PageOf
<1>5. p1 = PageOf(y, 0, FALSE, FALSE, FALSE, "", 0, 0, "", 0, 0)
  BY <1>a1, <1>4 DEF PageOf
<1>6. p2 = PageOf(y, z, FALSE, FALSE, FALSE, "", 0, 0, "", 0, 0)
  BY <1>a2, <1>5 DEF PageOf
<1>7. q = PageOf(y, z, FALSE, TRUE, FALSE, "", 0, 0, "", 0, 0)
  BY <1>a3, <1>6 DEF PageOf
<1>8. (IF no + 1 <= 0 THEN 1 ELSE no + 1) = y
  BY <1>1
<1>9. m = CndOf(<<>>, <<>>, NoPage, 0)
  BY <1>a4 DEF M, CndOf
<1>10. Limit(M, no + 1, size) = l
  BY <1>1, <1>a1, <1>a2, <1>a3, <1>a4, <1>a5, <1>3, <1>8, Zenon DEF Limit
<1>11. l = CndOf(<<>>, <<>>, q, 0)
  BY <1>a5, <1>9 DEF CndOf
<1>12. PICK d : d = Orderby(Limit(M, no + 1, size), "id", sort)
  OBVIOUS
<1>13. d = CndOf(<<>>, IdOrder(sort), q, 0)
  <2>1. Orderby(CndOf(<<>>, <<>>, q, 0), "id", sort) = CndOf(<<>>, IdOrder(sort), q, 0)
    BY Built, 0 \in Nat, Zenon
  <2>2. QED
    BY <1>10, <1>11, <1>12, <2>1, Zenon
<1>14. d.page = q
  BY <1>13 DEF CndOf
<1>15. q.size = z
  BY <1>7 DEF PageOf
<1>16. PICK k : k = IF n > 0 /\ d.page.size > 0 THEN (n + d.page.size - 1) \div d.page.size ELSE 0
  OBVIOUS
<1>17. k = IF n > 0 THEN (n + PageSize(size) - 1) \div PageSize(size) ELSE 0
  BY <1>1, <1>14, <1>15, <1>16, SizeIsPositive
<1>18. [d EXCEPT !.page.total = n, !.page.count = k] = [[d EXCEPT !.page.total = n] EXCEPT !.page.count = k]
  OBVIOUS
<1>b1. PICK e : e = [d EXCEPT !.page.total = n]
  OBVIOUS
<1>b2. PICK g : g = [e EXCEPT !.page.count = k]
  OBVIOUS
<1>b3. PICK q1 : q1 = [q EXCEPT !.total = n]
  OBVIOUS
<1>b4. PICK q2 : q2 = [q1 EXCEPT !.count = k]
  OBVIOUS
<1>b5. PICK w : w = IdOrder(sort)
  OBVIOUS
<1>19. d = CndOf(<<>>, w, q, 0)
  BY <1>13, <1>b5, Zenon
<1>20. c = g
  BY <1>0, <1>12, <1>16, <1>18, <1>b1, <1>b2, Zenon DEF Counted
<1>21. e = CndOf(<<>>, w, q1, 0)
  BY <1>19, <1>b1, <1>b3 DEF CndOf
<1>22. g = CndOf(<<>>, w, q2, 0)
  BY <1>b2, <1>b4, <1>21 DEF CndOf
<1>23. q1 = PageOf(y, z, FALSE, TRUE, FALSE, "", 0, 0, "", n, 0)
  BY <1>7, <1>b3 DEF PageOf
<1>24. q2 = PageOf(y, z, FALSE, TRUE, FALSE, "", 0, 0, "", n, k)
  BY <1>b4, <1>23 DEF PageOf
<1>25. c.conditions = <<>> /\ c.orders = w /\ c.limitSize = 0 /\ c.page = q2
  BY <1>20, <1>22 DEF CndOf
<1>26. q2.no = y /\ q2.size = z /\ q2.isOffset = FALSE /\ q2.isFast = FALSE /\ q2.count = k
  BY <1>24 DEF PageOf
<1>27. QED
  BY <1>0, <1>1, <1>17, <1>b5, <1>25, <1>26, Zenon DEF NumberedCnd

(* An order by the id is not repeated behind the cursor's own.             *)
LEMMA NoOtherOrders ==
  ASSUME NEW sort, NEW orders, orders = <<>> \/ orders = IdOrder(sort)
  PROVE  OtherOrders(orders) = <<>>
<1> DEFINE others == {i \in DOMAIN orders : orders[i].key # "id"}
<1>1. others = {}
  BY DEF IdOrder
<1>2. Cardinality(others) = 0
  BY <1>1, FS_EmptySet
<1>3. PICK n : n = Cardinality(others)
  OBVIOUS
<1>4. OtherOrders(orders) = [k \in 1..n |-> orders[CHOOSE i \in others : Cardinality({j \in others : j < i}) = k - 1]]
  BY <1>3, Zenon DEF OtherOrders
<1>5. n = 0
  BY <1>2, <1>3, Zenon
<1>6. 1..n = {}
  BY <1>5
<1>7. QED
  BY <1>4, <1>6

(* A fast page is sorted by the id in the direction of its sort parameter  *)
(* and limited to its size, with nothing skipped.                          *)
LEMMA CursorSort ==
  ASSUME NEW c, NEW cs, NEW os, NEW by, NEW sort, NEW prev, NEW last, NEW size \in Int, NEW param \in Sorts,
         FastCnd(c, cs, os, sort, prev, last, size, param, PageSize(size)), os = <<>> \/ os = IdOrder(by)
  PROVE  buildMongoSortBy(c) = IdOrder(param) /\ buildMongoLimit(c) = <<0, PageSize(size)>>
<1>1. c.page.isFast = TRUE /\ c.page.sortParam = param /\ c.orders = os /\ c.limitSize = PageSize(size)
  BY Zenon DEF FastCnd
<1>2. OtherOrders(os) = <<>>
  <2>1. CASE os = <<>>
    BY <2>1, NoOtherOrders, Zenon
  <2>2. CASE os = IdOrder(by)
    BY <2>2, NoOtherOrders, Zenon
  <2>3. QED
    BY <2>1, <2>2, Zenon
<1>3. (IF c.page.sortParam = "DESC" THEN "DESC" ELSE "ASC") = param
  BY <1>1 DEF Sorts
<1>4. buildMongoSortBy(c) = <<[key |-> "id", dir |-> param]>> \o <<>>
  BY <1>1, <1>2, <1>3, Zenon DEF buildMongoSortBy
<1>5. PICK o : o = [key |-> "id", dir |-> param]
  OBVIOUS
<1>6. <<o>> \o <<>> = <<o>>
  OBVIOUS
<1>7. buildMongoSortBy(c) = IdOrder(param)
  BY <1>4, <1>5, <1>6, Zenon DEF IdOrder
<1>8. c.limitSize > 0
  BY <1>1, SizeIsPositive
<1>9. QED
  BY <1>1, <1>7, <1>8, Zenon DEF buildMongoLimit

\* The rows that the filter of a fast page selects.
Chosen(cs) == {r \in rows : MongoMatches(buildMongoMatch(cs), r)}

(* So it holds the first rows that its filter selects.                     *)
LEMMA FetchedFast ==
  ASSUME NEW c, NEW cs, NEW os, NEW by, NEW sort, NEW prev, NEW last, NEW size \in Int, NEW param \in Sorts,
         FastCnd(c, cs, os, sort, prev, last, size, param, PageSize(size)), os = <<>> \/ os = IdOrder(by),
         walk.kind = "fast"
  PROVE  Fetched(c) = FirstOf(param, Chosen(cs), PageSize(size))
<1>1. buildMongoSortBy(c) = IdOrder(param) /\ buildMongoLimit(c) = <<0, PageSize(size)>>
  BY CursorSort, ZenonT(120)
<1>2. c.conditions = cs
  BY Zenon DEF FastCnd
<1>3. walk.kind # "sql"
  OBVIOUS
<1>4. Fetched(c) = MongoRows(c, Chosen(cs))
  BY <1>2, <1>3, Zenon DEF Fetched, Chosen
<1>5. QED
  BY <1>1, <1>4, Zenon DEF MongoRows, FirstOf

(* The filter of no conditions selects all.                                *)
LEMMA EmptyFilter == \A r : MongoMatches(buildMongoMatch(<<>>), r)
<1>1. DOMAIN buildMongoMatch(<<>>) = {}
  BY DEF buildMongoMatch, Kept
<1>2. QED
  BY <1>1 DEF MongoMatches

(* The filter of one condition has its form under its key.                 *)
LEMMA SingleFilter ==
  ASSUME NEW x, x.logic \notin Unsupported
  PROVE  buildMongoMatch(<<x>>) = [key \in {x.key} |-> MongoForm(x)]
<1>1. PICK cs : cs = <<x>>
  OBVIOUS
<1>2. DOMAIN cs = {1} /\ cs[1] = x
  BY <1>1
<1>3. Kept(cs) = {1}
  BY <1>2, Zenon DEF Kept
<1>4. {cs[n].key : n \in Kept(cs)} = {x.key}
  BY <1>2, <1>3, Zenon
<1>5. LastOn(cs, x.key) = 1
  BY <1>2, <1>3 DEF LastOn
<1>6. \A key \in {x.key} : MongoForm(cs[LastOn(cs, key)]) = MongoForm(x)
  BY <1>2, <1>5, Zenon
<1>7. [key \in {x.key} |-> MongoForm(cs[LastOn(cs, key)])] = [key \in {x.key} |-> MongoForm(x)]
  BY <1>6
<1>8. buildMongoMatch(cs) = [key \in {x.key} |-> MongoForm(cs[LastOn(cs, key)])]
  BY <1>4, Zenon DEF buildMongoMatch
<1>9. QED
  BY <1>1, <1>7, <1>8, Zenon

(* What the filter of a cursor selects.                                    *)
LEMMA ChosenRows ==
  ASSUME rows \subseteq Table, NEW id \in Nat
  PROVE  /\ Chosen(<<>>) = rows
         /\ Chosen(<<IdIs("LT", id)>>) = {r \in rows : r.id < id}
         /\ Chosen(<<IdIs("GT", id)>>) = {r \in rows : r.id > id}
<1>1. \A r : MongoMatches(buildMongoMatch(<<>>), r)
  BY EmptyFilter, Zenon
<1>2. ASSUME NEW l \in {"LT", "GT"}, NEW r \in Table
      PROVE  MongoMatches(buildMongoMatch(<<IdIs(l, id)>>), r) <=> IF l = "LT" THEN r.id < id ELSE r.id > id
  <2>1. r.id \in Nat \ {0}
    BY TableAssumption
  <2>2. PICK x : x = IdIs(l, id)
    OBVIOUS
  <2>3. x.logic = l /\ x.key = "id" /\ x.values = <<id>>
    BY <2>2 DEF IdIs, Condition
  <2>4. PICK op : op = IF l = "LT" THEN "$lt" ELSE "$gt"
    OBVIOUS
  <2>5. MongoOperator(l) = op
    BY <2>4 DEF MongoOperator
  <2>6. PICK test : test = Test(op, <<id>>)
    OBVIOUS
  <2>7. test.op = op /\ test.args = <<id>> /\ test.args[1] = id
    BY <2>6 DEF Test
  <2>8. MongoForm(x) = {test}
    BY <2>3, <2>5, <2>6 DEF MongoForm
  <2>9. buildMongoMatch(<<x>>) = [key \in {"id"} |-> {test}]
    <3>1. x.logic \notin Unsupported
      BY <2>3 DEF Unsupported
    <3>2. buildMongoMatch(<<x>>) = [key \in {x.key} |-> MongoForm(x)]
      BY <3>1, SingleFilter, Zenon
    <3>3. QED
      BY <2>3, <2>8, <3>2, Zenon
  <2>10. MongoMatches([key \in {"id"} |-> {test}], r) <=> MongoHolds(Column(r, "id"), test)
    BY DEF MongoMatches
  <2>11. Column(r, "id") = r.id /\ r.id # Null
    BY <2>1 DEF Column, Null
  <2>12. MongoHolds(r.id, test) <=> IF l = "LT" THEN r.id < id ELSE r.id > id
    <3>1. CASE l = "LT"
      BY <3>1, <2>4, <2>7, <2>11 DEF MongoHolds
    <3>2. CASE l = "GT"
      BY <3>2, <2>4, <2>7, <2>11 DEF MongoHolds
    <3>3. QED
      BY <3>1, <3>2
  <2>13. QED
    BY <2>2, <2>9, <2>10, <2>11, <2>12, Zenon
<1>3. Chosen(<<>>) = rows
  BY <1>1, Zenon DEF Chosen
<1>4. ASSUME NEW r \in rows
      PROVE  /\ MongoMatches(buildMongoMatch(<<IdIs("LT", id)>>), r) <=> r.id < id
             /\ MongoMatches(buildMongoMatch(<<IdIs("GT", id)>>), r) <=> r.id > id
  BY <1>2
<1>5. Chosen(<<IdIs("LT", id)>>) = {r \in rows : r.id < id}
  BY <1>4, Zenon DEF Chosen
<1>6. Chosen(<<IdIs("GT", id)>>) = {r \in rows : r.id > id}
  BY <1>4, Zenon DEF Chosen
<1>7. QED
  BY <1>3, <1>5, <1>6

\* The rows on the far side of an id, and on the near side.
After(sort, id) == {r \in rows : IF sort = "DESC" THEN r.id < id ELSE r.id > id}
NearSide(sort, id) == {r \in rows : IF sort = "DESC" THEN r.id > id ELSE r.id < id}
Reverse(sort) == IF sort = "DESC" THEN "ASC" ELSE "DESC"

(* The page FindList returns when it is asked for the first.               *)
LEMMA FirstPageIs ==
  ASSUME PagesType, walk.kind = "fast"
  PROVE  Fetched(FastCursor(FastPage(M, walk.sort, 0, 0, walk.size)))
           = FirstOf(walk.sort, rows, PageSize(walk.size))
<1>1. walk.sort \in Sorts /\ walk.size \in Int /\ rows \subseteq Table
  BY DEF PagesType
<1>2. PICK sort, size, c : /\ sort = walk.sort /\ size = walk.size
                           /\ c = CndOf(<<>>, IdOrder(sort), FastPageOf(sort, 0, 0, size, sort), PageSize(size))
  OBVIOUS
<1>3. sort \in Sorts /\ size \in Int
  BY <1>1, <1>2
<1>4. FastCursor(FastPage(M, sort, 0, 0, size)) = c
  BY <1>2, <1>3, FirstCursor, Zenon
<1>5. FastCnd(CndOf(<<>>, IdOrder(sort), FastPageOf(sort, 0, 0, size, sort), PageSize(size)),
              <<>>, IdOrder(sort), sort, 0, 0, size, sort, PageSize(size))
  BY FastPageFields, Zenon
<1>6. FastCnd(c, <<>>, IdOrder(sort), sort, 0, 0, size, sort, PageSize(size))
  BY <1>2, <1>5, Zenon
<1>7. Fetched(c) = FirstOf(sort, Chosen(<<>>), PageSize(size))
  BY <1>3, <1>6, FetchedFast, Zenon
<1>8. Chosen(<<>>) = rows
  BY <1>1, ChosenRows, 0 \in Nat, Zenon
<1>9. QED
  BY <1>2, <1>4, <1>7, <1>8, Zenon

(* The page it returns when it is asked for the one after an id.           *)
LEMMA NextPageIs ==
  ASSUME PagesType, walk.kind = "fast", NEW last \in Nat \ {0}
  PROVE  Fetched(FastCursor(FastPage(M, walk.sort, 0, last, walk.size)))
           = FirstOf(walk.sort, After(walk.sort, last), PageSize(walk.size))
<1>1. walk.sort \in Sorts /\ walk.size \in Int /\ rows \subseteq Table /\ last \in Nat
  BY DEF PagesType
<1>2. PICK sort, size, l : sort = walk.sort /\ size = walk.size /\ l = IF sort = "DESC" THEN "LT" ELSE "GT"
  OBVIOUS
<1>3. PICK c : c = CndOf(<<IdIs(l, last)>>, <<>>, FastPageOf(sort, 0, last, size, sort), PageSize(size))
  OBVIOUS
<1>4. sort \in Sorts /\ size \in Int
  BY <1>1, <1>2
<1>5. FastCursor(FastPage(M, sort, 0, last, size)) = c
  BY <1>2, <1>3, <1>4, NextCursor, Zenon
<1>6. FastCnd(CndOf(<<IdIs(l, last)>>, <<>>, FastPageOf(sort, 0, last, size, sort), PageSize(size)),
              <<IdIs(l, last)>>, <<>>, sort, 0, last, size, sort, PageSize(size))
  BY FastPageFields, Zenon
<1>7. FastCnd(c, <<IdIs(l, last)>>, <<>>, sort, 0, last, size, sort, PageSize(size))
  BY <1>3, <1>6, Zenon
<1>8. Fetched(c) = FirstOf(sort, Chosen(<<IdIs(l, last)>>), PageSize(size))
  BY <1>4, <1>7, FetchedFast, Zenon
<1>9. /\ Chosen(<<IdIs("LT", last)>>) = {r \in rows : r.id < last}
      /\ Chosen(<<IdIs("GT", last)>>) = {r \in rows : r.id > last}
  BY <1>1, ChosenRows, Zenon
<1>10. Chosen(<<IdIs(l, last)>>) = After(sort, last)
  BY <1>2, <1>9, Zenon DEF After
<1>11. QED
  BY <1>2, <1>5, <1>8, <1>10, Zenon

(* The page it returns when it is asked for the one before an id: the      *)
(* nearest rows, in the reverse order.                                     *)
LEMMA PrevPageIs ==
  ASSUME PagesType, walk.kind = "fast", NEW prev \in Nat \ {0}
  PROVE  Fetched(FastCursor(FastPage(M, walk.sort, prev, 0, walk.size)))
           = FirstOf(Reverse(walk.sort), NearSide(walk.sort, prev), PageSize(walk.size))
<1>1. walk.sort \in Sorts /\ walk.size \in Int /\ rows \subseteq Table /\ prev \in Nat
  BY DEF PagesType
<1>2. PICK sort, size, l, back : /\ sort = walk.sort /\ size = walk.size /\ back = Reverse(sort)
                                 /\ l = IF sort = "DESC" THEN "GT" ELSE "LT"
  OBVIOUS
<1>3. PICK c : c = CndOf(<<IdIs(l, prev)>>, <<>>, FastPageOf(sort, prev, 0, size, back), PageSize(size))
  OBVIOUS
<1>4. sort \in Sorts /\ size \in Int /\ back \in Sorts
  BY <1>1, <1>2 DEF Sorts, Reverse
<1>5. FastCursor(FastPage(M, sort, prev, 0, size)) = c
  BY <1>2, <1>3, <1>4, PrevCursor, Zenon DEF Reverse
<1>6. FastCnd(CndOf(<<IdIs(l, prev)>>, <<>>, FastPageOf(sort, prev, 0, size, back), PageSize(size)),
              <<IdIs(l, prev)>>, <<>>, sort, prev, 0, size, back, PageSize(size))
  BY FastPageFields, Zenon
<1>7. FastCnd(c, <<IdIs(l, prev)>>, <<>>, sort, prev, 0, size, back, PageSize(size))
  BY <1>3, <1>6, Zenon
<1>8. Fetched(c) = FirstOf(back, Chosen(<<IdIs(l, prev)>>), PageSize(size))
  BY <1>4, <1>7, FetchedFast, Zenon
<1>9. /\ Chosen(<<IdIs("LT", prev)>>) = {r \in rows : r.id < prev}
      /\ Chosen(<<IdIs("GT", prev)>>) = {r \in rows : r.id > prev}
  BY <1>1, ChosenRows, Zenon
<1>10. Chosen(<<IdIs(l, prev)>>) = NearSide(sort, prev)
  BY <1>2, <1>9, Zenon DEF NearSide
<1>11. QED
  BY <1>2, <1>5, <1>8, <1>10, Zenon

(* A page by number, in both engines: the rows from the first one not      *)
(* counted by the pages before it, and the number of pages                 *)
(* (BuildPagination, buildMongoLimit, Count).                              *)
LEMMA NumberedPageIs ==
  ASSUME PagesType, walk.kind \in {"sql", "mongo"}, NEW c, NEW n \in Nat,
         c = Counted(Orderby(Limit(M, walk.no + 1, walk.size), "id", walk.sort), n)
  PROVE  /\ Fetched(c) = Slice(Sorted(rows, IdOrder(walk.sort)), <<Seen, PageSize(walk.size)>>)
         /\ c.page.count = IF n > 0 THEN (n + PageSize(walk.size) - 1) \div PageSize(walk.size) ELSE 0
<1>1. walk.sort \in Sorts /\ walk.size \in Int /\ walk.no \in Nat
  BY DEF PagesType
<1>2. /\ c.conditions = <<>> /\ c.orders = IdOrder(walk.sort) /\ c.limitSize = 0
      /\ c.page.no = walk.no + 1 /\ c.page.size = PageSize(walk.size) /\ ~c.page.isOffset /\ ~c.page.isFast
      /\ c.page.count = IF n > 0 THEN (n + PageSize(walk.size) - 1) \div PageSize(walk.size) ELSE 0
  <2>1. NumberedCnd(Counted(Orderby(Limit(M, walk.no + 1, walk.size), "id", walk.sort), n),
                    walk.sort, walk.no, walk.size, n)
    BY <1>1, NumberedCursor, Zenon
  <2>2. QED
    BY <2>1, Zenon DEF NumberedCnd
<1>3. \A r : MongoMatches(buildMongoMatch(<<>>), r)
  BY EmptyFilter, Zenon
<1>4. Fetched(c) = IF walk.kind = "sql" THEN SqlRows(c, rows) ELSE MongoRows(c, rows)
  BY <1>2, <1>3, Zenon DEF Fetched
<1>5. c.page.no # 0 /\ c.page.no - 1 = walk.no /\ ~(c.limitSize > 0)
  BY <1>1, <1>2
<1>6. BuildPagination(c) = <<Seen, PageSize(walk.size)>> /\ buildMongoLimit(c) = <<Seen, PageSize(walk.size)>>
  BY <1>2, <1>5, Zenon DEF BuildPagination, buildMongoLimit, Seen
<1>7. BuildSortBy(c) = IdOrder(walk.sort) /\ buildMongoSortBy(c) = IdOrder(walk.sort)
  BY <1>2, Zenon DEF BuildSortBy, buildMongoSortBy
<1>8. QED
  BY <1>2, <1>4, <1>6, <1>7, Zenon DEF SqlRows, MongoRows

(* What showing a page does to the walk.                                   *)
LEMMA ShowFields ==
  ASSUME PagesType, NEW page \in Seq(Table), NEW more \in Nat, Show(page, more)
  PROVE  /\ PagesType' /\ rows' = rows /\ changes' = changes
         /\ walk'.kind = walk.kind /\ walk'.sort = walk.sort /\ walk'.size = walk.size
         /\ walk'.steady = walk.steady /\ walk'.page = page /\ walk'.shown = walk.shown \o page
         /\ walk'.no = walk.no + 1
         /\ walk'.pc = IF walk.kind = "fast" THEN IF Len(page) < PageSize(walk.size) THEN "end" ELSE "on"
                       ELSE IF walk.no + 1 >= more THEN "end" ELSE "on"
<1>1. PICK shown, at, no :
        /\ shown = walk.shown \o page /\ no = walk.no + 1
        /\ at = IF walk.kind = "fast" THEN IF Len(page) < PageSize(walk.size) THEN "end" ELSE "on"
                ELSE IF walk.no + 1 >= more THEN "end" ELSE "on"
  OBVIOUS
<1>2. /\ walk \in [pc : {"first", "on", "end", "back"}, kind : {"fast", "sql", "mongo"}, sort : Sorts,
                   size : Int, page : Seq(Table), shown : Seq(Table), steady : SUBSET Table,
                   no : Nat, count : Nat]
      /\ rows \subseteq Table /\ changes \in Nat
  BY DEF PagesType
<1>3. walk.shown \in Seq(Table) /\ walk.no \in Nat
  BY <1>2
<1>4. shown \in Seq(Table) /\ no \in Nat /\ at \in {"first", "on", "end", "back"}
  BY <1>1, <1>3, ConcatProperties
<1>5. walk' = [walk EXCEPT !.page = page, !.shown = shown, !.no = no, !.count = more, !.pc = at]
  BY <1>1, Zenon DEF Show
<1>6. rows' = rows /\ changes' = changes
  BY DEF Show
<1>7. /\ walk' \in [pc : {"first", "on", "end", "back"}, kind : {"fast", "sql", "mongo"}, sort : Sorts,
                   size : Int, page : Seq(Table), shown : Seq(Table), steady : SUBSET Table,
                   no : Nat, count : Nat]
      /\ walk'.kind = walk.kind /\ walk'.sort = walk.sort /\ walk'.size = walk.size
      /\ walk'.steady = walk.steady /\ walk'.page = page /\ walk'.shown = shown
      /\ walk'.no = no /\ walk'.pc = at
  BY <1>2, <1>4, <1>5
<1>8. PagesType'
  BY <1>2, <1>6, <1>7 DEF PagesType
<1>9. QED
  BY <1>1, <1>6, <1>7, <1>8, Zenon

(* All that was shown comes before the rows S, and what a page of S adds   *)
(* to it.                                                                  *)
Leads(sort, shown, S) == \A i \in 1..Len(shown) : \A r \in S : Before(sort, shown[i], r)
GoesOn(sort, S, size, shown, page, new) ==
  /\ page \in Seq(Table)
  /\ Ascends(sort, new)
  /\ \A r : Occurs(r, shown) => Occurs(r, new)
  /\ Len(page) < size => \A r \in S : Occurs(r, new)
  /\ Len(page) >= size => /\ page # <<>> /\ new # <<>> /\ new[Len(new)] = page[Len(page)]
                          /\ \A r \in S : Occurs(r, new) \/ Before(sort, new[Len(new)], r)

(* A page of rows that come after all that was shown keeps the order; when *)
(* it is not full, all of those rows are shown, and when it is, the rest   *)
(* comes after its last row.                                               *)
LEMMA FastAppended ==
  ASSUME NEW sort \in Sorts, NEW S \in SUBSET Table, NEW size \in Nat \ {0}, NEW shown \in Seq(Table),
         Ascends(sort, shown), Leads(sort, shown, S)
  PROVE  GoesOn(sort, S, size, shown, FirstOf(sort, S, size), shown \o FirstOf(sort, S, size))
<1>0. PICK page, new : page = FirstOf(sort, S, size) /\ new = shown \o page
  OBVIOUS
<1>1. /\ page \in Seq(S)
      /\ Ascends(sort, page)
      /\ \A r \in S : ~Occurs(r, page) =>
              /\ Len(page) = size
              /\ \A i \in 1..Len(page) : Before(sort, page[i], r)
  BY <1>0, FirstOfIsNearest
<1>2. page \in Seq(Table)
  BY <1>1, SeqMonotonic
<1>3. /\ Len(new) = Len(shown) + Len(page)
      /\ \A i \in 1..Len(shown) + Len(page) : new[i] = IF i <= Len(shown) THEN shown[i] ELSE page[i - Len(shown)]
  BY <1>0, <1>2, ConcatProperties
<1>4. Len(shown) \in Nat /\ Len(page) \in Nat
  BY <1>2
<1>5. \A i \in 1..Len(shown) : new[i] = shown[i]
  BY <1>3, <1>4
<1>6. ASSUME NEW i \in 1..Len(page) PROVE i + Len(shown) \in 1..Len(new) /\ new[i + Len(shown)] = page[i]
  BY <1>3, <1>4
<1>7. ASSUME NEW i \in 1..Len(new), NEW j \in 1..Len(new), i < j PROVE Before(sort, new[i], new[j])
  <2>1. CASE j <= Len(shown)
    BY <1>3, <1>4, <1>5, <1>7, <2>1 DEF Ascends
  <2>2. CASE i <= Len(shown) /\ j > Len(shown)
    <3>1. new[i] = shown[i] /\ i \in 1..Len(shown)
      BY <1>3, <1>4, <1>5, <2>2
    <3>2. j - Len(shown) \in 1..Len(page) /\ new[j] = page[j - Len(shown)]
      BY <1>3, <1>4, <2>2
    <3>3. page[j - Len(shown)] \in S
      BY <1>1, <3>2
    <3>4. QED
      BY <3>1, <3>2, <3>3 DEF Leads
  <2>3. CASE i > Len(shown)
    <3>1. /\ j - Len(shown) \in 1..Len(page) /\ new[j] = page[j - Len(shown)]
          /\ i - Len(shown) \in 1..Len(page) /\ new[i] = page[i - Len(shown)]
          /\ i - Len(shown) < j - Len(shown)
      BY <1>3, <1>4, <1>7, <2>3
    <3>2. QED
      BY <1>1, <3>1 DEF Ascends
  <2>4. QED
    BY <1>4, <2>1, <2>2, <2>3
<1>8. ASSUME NEW r, Occurs(r, shown) PROVE Occurs(r, new)
  <2>1. PICK i \in 1..Len(shown) : shown[i] = r
    BY <1>8 DEF Occurs
  <2>2. i \in 1..Len(new) /\ new[i] = r
    BY <1>3, <1>4, <1>5, <2>1
  <2>3. QED
    BY <2>2 DEF Occurs
<1>9. ASSUME NEW r, Occurs(r, page) PROVE Occurs(r, new)
  <2>1. PICK i \in 1..Len(page) : page[i] = r
    BY <1>9 DEF Occurs
  <2>2. QED
    BY <1>6, <2>1 DEF Occurs
<1>10. ASSUME Len(page) < size, NEW r \in S PROVE Occurs(r, new)
  BY <1>1, <1>4, <1>9, <1>10
<1>11. ASSUME Len(page) >= size
       PROVE  /\ page # <<>> /\ new # <<>> /\ new[Len(new)] = page[Len(page)]
              /\ \A r \in S : Occurs(r, new) \/ Before(sort, new[Len(new)], r)
  <2>1. Len(page) \in 1..Len(page)
    BY <1>4, <1>11
  <2>2. Len(page) + Len(shown) = Len(new) /\ Len(new) # 0 /\ Len(page) # 0
    BY <1>3, <1>4, <1>11
  <2>3. new[Len(page) + Len(shown)] = page[Len(page)]
    BY <1>6, <2>1
  <2>4. new[Len(new)] = page[Len(page)]
    BY <2>2, <2>3
  <2>5. page # <<>> /\ new # <<>>
    BY <2>2
  <2>6. ASSUME NEW r \in S PROVE Occurs(r, new) \/ Before(sort, new[Len(new)], r)
    BY <1>1, <1>9, <2>1, <2>4
  <2>7. QED
    BY <2>4, <2>5, <2>6
<1>12. GoesOn(sort, S, size, shown, page, new)
  BY <1>2, <1>7, <1>8, <1>10, <1>11 DEF Ascends, GoesOn
<1>13. QED
  BY <1>0, <1>12, Zenon

(* A fast page that holds the first of the rows S keeps the invariant if S *)
(* comes after all that was shown and has every steady row that was not.   *)
LEMMA FastStep ==
  ASSUME PagesInv, walk.kind = "fast", NEW S \in SUBSET rows,
         \A i \in 1..Len(walk.shown) : \A r \in S : Before(walk.sort, walk.shown[i], r),
         \A r \in walk.steady : Occurs(r, walk.shown) \/ r \in S,
         Show(FirstOf(walk.sort, S, PageSize(walk.size)), 0)
  PROVE  PagesInv'
<1>1. /\ PagesType /\ walk.sort \in Sorts /\ walk.size \in Int /\ walk.shown \in Seq(Table) /\ rows \subseteq Table
      /\ walk.steady \subseteq rows /\ Ascends(walk.sort, walk.shown)
  BY DEF PagesInv, PagesType, FastInv
<1>2. PICK size, page, new : /\ size = PageSize(walk.size) /\ page = FirstOf(walk.sort, S, size)
                             /\ new = walk.shown \o page
  OBVIOUS
<1>3. size \in Nat \ {0} /\ S \in SUBSET Table
  BY <1>1, <1>2, SizeIsPositive
<1>4. /\ page \in Seq(Table)
      /\ Ascends(walk.sort, new)
      /\ \A r : Occurs(r, walk.shown) => Occurs(r, new)
      /\ Len(page) < size => \A r \in S : Occurs(r, new)
      /\ Len(page) >= size => /\ page # <<>> /\ new # <<>> /\ new[Len(new)] = page[Len(page)]
                              /\ \A r \in S : Occurs(r, new) \/ Before(walk.sort, new[Len(new)], r)
  <2>1. Leads(walk.sort, walk.shown, S)
    BY DEF Leads
  <2>2. GoesOn(walk.sort, S, size, walk.shown, FirstOf(walk.sort, S, size), walk.shown \o FirstOf(walk.sort, S, size))
    BY <1>1, <1>3, <2>1, FastAppended, Zenon
  <2>3. GoesOn(walk.sort, S, size, walk.shown, page, new)
    BY <1>2, <2>2, Zenon
  <2>4. QED
    BY <2>3, Zenon DEF GoesOn
<1>5. Show(page, 0) /\ 0 \in Nat
  BY <1>2
<1>6. /\ PagesType' /\ rows' = rows
      /\ walk'.kind = "fast" /\ walk'.sort = walk.sort
      /\ walk'.steady = walk.steady /\ walk'.page = page /\ walk'.shown = new
      /\ walk'.pc = IF Len(page) < size THEN "end" ELSE "on"
  BY <1>1, <1>2, <1>4, <1>5, ShowFields
<1>7. Len(page) \in Nat
  BY <1>4
<1>8. CASE Len(page) < size
  <2>1. walk'.pc = "end"
    BY <1>6, <1>8
  <2>2. \A r \in walk.steady : Occurs(r, new)
    BY <1>4, <1>8
  <2>3. FastInv'
    BY <1>1, <1>4, <1>6, <2>1, <2>2 DEF FastInv
  <2>4. QED
    BY <1>6, <2>3 DEF PagesInv
<1>9. CASE ~(Len(page) < size)
  <2>1. walk'.pc = "on" /\ Len(page) >= size
    BY <1>3, <1>6, <1>7, <1>9
  <2>2. \A r \in walk.steady : Occurs(r, new) \/ Before(walk.sort, new[Len(new)], r)
    BY <1>4, <2>1
  <2>3. FastInv'
    BY <1>1, <1>4, <1>6, <2>1, <2>2 DEF FastInv
  <2>4. QED
    BY <1>6, <2>3 DEF PagesInv
<1>10. QED
  BY <1>8, <1>9

(* The first fast page keeps the invariant.                                *)
LEMMA FirstStep ==
  ASSUME PagesInv, FastFirstPage
  PROVE  PagesInv'
<1>1. /\ PagesType /\ walk.kind = "fast" /\ walk.pc = "first" /\ walk.shown = <<>> /\ walk.steady \subseteq rows
  BY DEF PagesInv, FastInv, FastFirstPage
<1>2. Fetched(FastCursor(FastPage(M, walk.sort, 0, 0, walk.size))) = FirstOf(walk.sort, rows, PageSize(walk.size))
  BY <1>1, FirstPageIs, Zenon
<1>3. Show(FirstOf(walk.sort, rows, PageSize(walk.size)), 0)
  BY <1>2, Zenon DEF FastFirstPage
<1>4. \A i \in 1..Len(walk.shown) : \A r \in rows : Before(walk.sort, walk.shown[i], r)
  BY <1>1
<1>5. \A r \in walk.steady : Occurs(r, walk.shown) \/ r \in rows
  BY <1>1
<1>6. QED
  BY <1>1, <1>3, <1>4, <1>5, FastStep

(* The next fast page keeps the invariant: what comes after the cursor is  *)
(* what was not shown, whatever came or went in between.                   *)
LEMMA NextStep ==
  ASSUME PagesInv, FastNextPage
  PROVE  PagesInv'
<1>1. /\ PagesType /\ walk.kind = "fast" /\ walk.pc = "on" /\ rows \subseteq Table /\ walk.sort \in Sorts
      /\ walk.page \in Seq(Table) /\ walk.shown \in Seq(Table) /\ walk.steady \subseteq rows
      /\ walk.page # <<>> /\ walk.shown # <<>>
      /\ walk.shown[Len(walk.shown)] = walk.page[Len(walk.page)]
      /\ \A r \in walk.steady : Occurs(r, walk.shown) \/ Before(walk.sort, walk.shown[Len(walk.shown)], r)
      /\ Ascends(walk.sort, walk.shown)
  BY DEF PagesInv, PagesType, FastInv, FastNextPage
<1>2. PICK n, last : n = Len(walk.shown) /\ last = walk.shown[n]
  OBVIOUS
<1>3. n \in Nat /\ n \in 1..n /\ last \in Table
  BY <1>1, <1>2
<1>4. last.id \in Nat \ {0}
  BY <1>3, TableAssumption
<1>5. PICK S : S = After(walk.sort, last.id)
  OBVIOUS
<1>6. Fetched(FastCursor(FastPage(M, walk.sort, 0, last.id, walk.size))) = FirstOf(walk.sort, S, PageSize(walk.size))
  BY <1>1, <1>4, <1>5, NextPageIs, Zenon
<1>7. Show(FirstOf(walk.sort, S, PageSize(walk.size)), 0)
  BY <1>1, <1>2, <1>6, Zenon DEF FastNextPage
<1>8. \A r \in rows : r \in S <=> Before(walk.sort, last, r)
  <2>1. \A r \in rows : r.id \in Nat
    BY <1>1, TableAssumption
  <2>2. QED
    BY <1>4, <1>5, <2>1 DEF After, Before
<1>9. S \in SUBSET rows
  BY <1>5 DEF After
<1>10. ASSUME NEW i \in 1..Len(walk.shown), NEW r \in S PROVE Before(walk.sort, walk.shown[i], r)
  <2>1. walk.shown[i] \in Table /\ r \in Table /\ Before(walk.sort, last, r)
    BY <1>1, <1>8, <1>9
  <2>2. i = n \/ Before(walk.sort, walk.shown[i], last)
    BY <1>1, <1>2, <1>3 DEF Ascends
  <2>3. CASE i = n
    BY <1>2, <2>1, <2>3
  <2>4. CASE Before(walk.sort, walk.shown[i], last)
    BY <1>1, <1>3, <2>1, <2>4, BeforeOrders
  <2>5. QED
    BY <2>2, <2>3, <2>4
<1>11. \A r \in walk.steady : Occurs(r, walk.shown) \/ r \in S
  BY <1>1, <1>2, <1>8
<1>12. QED
  BY <1>1, <1>7, <1>9, <1>10, <1>11, FastStep

(* A page in order repeats no row.                                         *)
LEMMA PageCardinality ==
  ASSUME NEW sort \in Sorts, NEW page \in Seq(Table), Ascends(sort, page)
  PROVE  Cardinality({page[i] : i \in DOMAIN page}) = Len(page)
<1> DEFINE back == {page[i] : i \in DOMAIN page}
<1>1. Len(page) \in Nat /\ DOMAIN page = 1..Len(page) /\ page \in [1..Len(page) -> Table]
  OBVIOUS
<1>2. page \in [1..Len(page) -> back]
  BY <1>1
<1>3. ASSUME NEW i \in 1..Len(page), NEW j \in 1..Len(page), page[i] = page[j] PROVE i = j
  <2>1. page[i] \in Table /\ page[j] \in Table
    BY <1>1
  <2>2. ~(i < j) /\ ~(j < i)
    BY <1>3, <2>1, BeforeOrders DEF Ascends
  <2>3. QED
    BY <1>1, <2>2
<1>4. page \in Injection(1..Len(page), back)
  BY <1>2, <1>3 DEF Injection, IsInjective
<1>5. \A r \in back : \E i \in 1..Len(page) : page[i] = r
  BY <1>1
<1>6. page \in Surjection(1..Len(page), back)
  BY <1>2, <1>5, Zenon DEF Surjection
<1>7. ExistsBijection(1..Len(page), back)
  BY <1>4, <1>6, Zenon DEF ExistsBijection, Bijection
<1>8. QED
  BY <1>1, <1>7, FS_CountingElements

(* A page back keeps the invariant: it holds the rows nearest before the   *)
(* page shown.                                                             *)
LEMMA PrevStep ==
  ASSUME PagesInv, FastPrevPage
  PROVE  PagesInv'
<1>1. /\ PagesType /\ walk.kind = "fast" /\ walk.pc = "on" /\ rows \subseteq Table /\ changes \in Nat
      /\ walk.sort \in Sorts /\ walk.size \in Int
      /\ walk \in [pc : {"first", "on", "end", "back"}, kind : {"fast", "sql", "mongo"}, sort : Sorts,
                   size : Int, page : Seq(Table), shown : Seq(Table), steady : SUBSET Table,
                   no : Nat, count : Nat]
      /\ walk.page \in Seq(Table) /\ walk.steady \subseteq rows /\ walk.page # <<>>
      /\ Ascends(walk.sort, walk.shown)
  BY DEF PagesInv, PagesType, FastInv, FastPrevPage
<1>2. PICK first : first = walk.page[1].id
  OBVIOUS
<1>3. first \in Nat \ {0}
  <2>1. walk.page[1] \in Table
    BY <1>1
  <2>2. QED
    BY <1>2, <2>1, TableAssumption
<1>4. PICK S, size, back, page : /\ S = NearSide(walk.sort, first) /\ size = PageSize(walk.size)
                                 /\ back = Reverse(walk.sort) /\ page = FirstOf(back, S, size)
  OBVIOUS
<1>5. S \in SUBSET Table /\ size \in Nat \ {0} /\ back \in Sorts
  BY <1>1, <1>4, SizeIsPositive DEF NearSide, Reverse, Sorts
<1>6. Fetched(FastCursor(FastPage(M, walk.sort, first, 0, walk.size))) = page
  BY <1>1, <1>3, <1>4, PrevPageIs, Zenon
<1>7. /\ FirstOf(back, S, size) \in Seq(S)
      /\ Cardinality(S) \in Nat
      /\ Len(FirstOf(back, S, size)) = IF Cardinality(S) < size THEN Cardinality(S) ELSE size
      /\ Ascends(back, FirstOf(back, S, size))
      /\ \A r \in S : ~Occurs(r, FirstOf(back, S, size)) =>
           /\ Len(FirstOf(back, S, size)) = size
           /\ \A i \in 1..Len(FirstOf(back, S, size)) : Before(back, FirstOf(back, S, size)[i], r)
  BY <1>5, FirstOfIsNearest
<1>8. /\ page \in Seq(S) /\ Len(page) = (IF Cardinality(S) < size THEN Cardinality(S) ELSE size)
      /\ Ascends(back, page)
      /\ \A r \in S : ~Occurs(r, page) => \A i \in 1..Len(page) : Before(back, page[i], r)
  BY <1>4, <1>7, Zenon
<1>9. page \in Seq(Table)
  BY <1>5, <1>8, SeqMonotonic
<1>10. walk' = [walk EXCEPT !.pc = "back", !.no = first, !.page = page] /\ rows' = rows /\ changes' = changes
  BY <1>2, <1>6, Zenon DEF FastPrevPage
<1>11. first \in Nat
  BY <1>3
<1>12. /\ walk' \in [pc : {"first", "on", "end", "back"}, kind : {"fast", "sql", "mongo"}, sort : Sorts,
                   size : Int, page : Seq(Table), shown : Seq(Table), steady : SUBSET Table,
                   no : Nat, count : Nat]
       /\ walk'.kind = walk.kind /\ walk'.sort = walk.sort /\ walk'.size = walk.size
       /\ walk'.steady = walk.steady /\ walk'.page = page /\ walk'.shown = walk.shown
       /\ walk'.no = first /\ walk'.pc = "back"
  BY <1>1, <1>9, <1>10, <1>11
<1>13. PagesType'
  BY <1>1, <1>10, <1>12 DEF PagesType
<1>14. Cardinality({page[i] : i \in DOMAIN page}) = Len(page)
  BY <1>5, <1>8, <1>9, PageCardinality
<1>15. {page[i] : i \in DOMAIN page} \subseteq S
  BY <1>8
<1>16. ASSUME NEW r \in {page[i] : i \in DOMAIN page}, NEW t \in S \ {page[i] : i \in DOMAIN page}
       PROVE  Before(walk.sort, t, r)
  <2>1. DOMAIN page = 1..Len(page)
    BY <1>8
  <2>2. PICK i \in 1..Len(page) : page[i] = r
    BY <2>1
  <2>3. ~Occurs(t, page)
    BY <2>1 DEF Occurs
  <2>4. Before(back, r, t)
    BY <1>8, <2>2, <2>3
  <2>5. QED
    BY <1>1, <1>4, <2>4 DEF Before, Reverse, Sorts
<1>17. BackInv'
  <2>1. {r \in rows' : IF walk'.sort = "DESC" THEN r.id > walk'.no ELSE r.id < walk'.no} = S
    BY <1>4, <1>10, <1>12, Zenon DEF NearSide
  <2>2. {walk'.page[i] : i \in DOMAIN walk'.page} = {page[i] : i \in DOMAIN page}
    BY <1>12, Zenon
  <2>3. PICK B : B = {page[i] : i \in DOMAIN page}
    OBVIOUS
  <2>4. /\ B \subseteq S
        /\ Cardinality(B) = (IF Cardinality(S) < size THEN Cardinality(S) ELSE size)
        /\ \A r \in B, t \in S \ B : Before(walk.sort, t, r)
    BY <1>8, <1>14, <1>15, <1>16, <2>3, Zenon
  <2>5. PageSize(walk'.size) = size
    BY <1>4, <1>12, Zenon
  <2>6. QED
    BY <1>12, <2>1, <2>2, <2>3, <2>4, <2>5, Zenon DEF BackInv
<1>18. FastInv'
  BY <1>1, <1>10, <1>12, <1>17 DEF FastInv
<1>19. QED
  BY <1>1, <1>12, <1>13, <1>18 DEF PagesInv

(* Division with remainder.                                                *)
LEMMA PagesDivision ==
  ASSUME NEW t \in Int, NEW len \in Nat, len > 0
  PROVE  /\ t \div len \in Int /\ t % len \in Int /\ 0 <= t % len /\ t % len < len
         /\ t = (t \div len) * len + (t % len)
  OBVIOUS

(* Count rounds the number of pages up (base_manager.go 1202-1212): a walk *)
(* has seen all n rows exactly when it has shown so many pages.            *)
LEMMA PageCount ==
  ASSUME NEW no \in Nat, NEW size \in Nat \ {0}, NEW n \in Nat, NEW count,
         count = IF n > 0 THEN (n + size - 1) \div size ELSE 0
  PROVE  /\ count \in Nat
         /\ no * size \in Nat /\ (no + 1) * size = no * size + size
         /\ no + 1 >= count => (no + 1) * size >= n
         /\ no + 1 < count => (no + 1) * size < n
<1>1. no * size \in Nat /\ (no + 1) * size = no * size + size
  OBVIOUS
<1>2. CASE n = 0
  BY <1>1, <1>2
<1>3. CASE n > 0
  <2>1. PICK q, m : q = (n + size - 1) \div size /\ m = n + size - 1
    OBVIOUS
  <2>2. m \in Nat /\ q \in Nat /\ q * size <= m /\ m < q * size + size
    <3>1. m \in Nat /\ q = m \div size
      BY <1>3, <2>1
    <3>2. q \in Nat
      BY <3>1
    <3>3. m % size \in Int /\ 0 <= m % size /\ m % size < size /\ m = (m \div size) * size + (m % size)
      <4>1. m \in Int /\ size \in Nat /\ size > 0
        BY <3>1
      <4>2. QED
        BY <4>1, PagesDivision, Zenon
    <3>6. PICK u, v : u = q * size /\ v = m % size
      OBVIOUS
    <3>7. m = u + v /\ v \in Int /\ 0 <= v /\ v < size
      BY <3>1, <3>3, <3>6, Zenon
    <3>5. u \in Int
      BY <3>2, <3>6
    <3>8. u <= m /\ m < u + size
      BY <3>1, <3>5, <3>7
    <3>9. QED
      BY <3>1, <3>2, <3>6, <3>8
  <2>3. count = q
    BY <1>3, <2>1
  <2>4. ASSUME no + 1 >= q PROVE (no + 1) * size >= n
    <3>1. (no + 1) * size >= q * size
      <4>1. PICK d \in Nat : no + 1 = q + d
        <5>1. no + 1 - q \in Nat /\ no + 1 = q + (no + 1 - q)
          BY <2>2, <2>4
        <5>2. QED
          BY <5>1
      <4>2. (q + d) * size = q * size + d * size /\ d * size \in Nat /\ q * size \in Nat
        BY <2>2
      <4>3. QED
        BY <4>1, <4>2
    <3>2. PICK u, v : u = q * size /\ v = (no + 1) * size
      OBVIOUS
    <3>3. u \in Int /\ v \in Int
      BY <2>2, <3>2
    <3>4. m < u + size /\ v >= u /\ m = n + size - 1
      BY <2>1, <2>2, <3>1, <3>2
    <3>5. v >= n
      BY <2>2, <3>3, <3>4
    <3>6. QED
      BY <3>2, <3>5
  <2>5. ASSUME no + 1 < q PROVE (no + 1) * size < n
    <3>1. (no + 1) * size + size <= q * size
      <4>1. PICK d \in Nat : q = no + 2 + d
        <5>1. q - (no + 2) \in Nat /\ q = no + 2 + (q - (no + 2))
          BY <2>2, <2>5
        <5>2. QED
          BY <5>1
      <4>2. (no + 2 + d) * size = (no + 1) * size + size + d * size /\ d * size \in Nat /\ (no + 1) * size \in Nat
        OBVIOUS
      <4>3. QED
        BY <4>1, <4>2
    <3>2. PICK u, v : u = q * size /\ v = (no + 1) * size
      OBVIOUS
    <3>3. u \in Int /\ v \in Int
      BY <2>2, <3>2
    <3>4. u <= m /\ v + size <= u /\ m = n + size - 1
      BY <2>1, <2>2, <3>1, <3>2
    <3>5. v < n
      BY <2>2, <3>3, <3>4
    <3>6. QED
      BY <3>2, <3>5
  <2>6. QED
    BY <1>1, <2>2, <2>3, <2>4, <2>5
<1>4. QED
  BY <1>2, <1>3

(* A sequence is the beginning of another, of a length or all of it.       *)
Continues(all, new, seen) ==
  /\ new \in Seq(Table)
  /\ Len(new) = IF seen < Len(all) THEN seen ELSE Len(all)
  /\ \A i \in 1..Len(new) : new[i] = all[i]

(* A slice from the end of what was shown goes on with it.                 *)
LEMMA NumberedAppended ==
  ASSUME NEW all \in Seq(Table), NEW shown \in Seq(Table), NEW size \in Nat \ {0},
         Len(shown) <= Len(all), \A i \in 1..Len(shown) : shown[i] = all[i]
  PROVE  /\ Slice(all, <<Len(shown), size>>) \in Seq(Table)
         /\ Continues(all, shown \o Slice(all, <<Len(shown), size>>), Len(shown) + size)
<1>1. PICK n, page, new : n = Len(shown) /\ page = Slice(all, <<n, size>>) /\ new = shown \o page
  OBVIOUS
<1>2. n \in Nat /\ size \in Nat /\ Len(all) \in Nat /\ n <= Len(all)
  BY <1>1
<1>3. /\ Slice(all, <<n, size>>) \in Seq(Table)
      /\ Len(Slice(all, <<n, size>>)) =
              IF n + size <= Len(all) THEN size ELSE IF n <= Len(all) THEN Len(all) - n ELSE 0
      /\ \A i \in 1..Len(Slice(all, <<n, size>>)) : Slice(all, <<n, size>>)[i] = all[n + i]
  BY <1>2, SliceIsPart
<1>4. /\ page \in Seq(Table)
      /\ Len(page) = IF n + size <= Len(all) THEN size ELSE IF n <= Len(all) THEN Len(all) - n ELSE 0
      /\ \A i \in 1..Len(page) : page[i] = all[n + i]
  BY <1>1, <1>3, Zenon
<1>5. /\ new \in Seq(Table) /\ Len(new) = n + Len(page)
      /\ \A i \in 1..Len(new) : new[i] = IF i <= n THEN shown[i] ELSE page[i - n]
  <2>1. /\ shown \o page \in Seq(Table) /\ Len(shown \o page) = Len(shown) + Len(page)
        /\ \A i \in 1..Len(shown) + Len(page) :
             (shown \o page)[i] = IF i <= Len(shown) THEN shown[i] ELSE page[i - Len(shown)]
    BY <1>4, ConcatProperties
  <2>2. QED
    BY <1>1, <2>1, Zenon
<1>6. Len(page) \in Nat /\ Len(new) \in Nat
  BY <1>4, <1>5
<1>7. Len(new) = IF n + size < Len(all) THEN n + size ELSE Len(all)
  BY <1>2, <1>4, <1>5
<1>8. ASSUME NEW i \in 1..Len(new) PROVE new[i] = all[i]
  <2>1. CASE i <= n
    BY <1>1, <1>2, <1>5, <2>1
  <2>2. CASE i > n
    <3>1. i - n \in 1..Len(page) /\ n + (i - n) = i /\ new[i] = page[i - n]
      BY <1>2, <1>5, <1>6, <2>2
    <3>2. page[i - n] = all[n + (i - n)]
      BY <1>4, <3>1
    <3>3. QED
      BY <3>1, <3>2
  <2>3. QED
    BY <1>2, <1>6, <2>1, <2>2
<1>9. Continues(all, new, n + size)
  BY <1>5, <1>7, <1>8 DEF Continues
<1>10. QED
  BY <1>1, <1>4, <1>9, Zenon

\* The records of the totals, apart from the walk.
CountIs(count, n, size) == count = IF n > 0 THEN (n + size - 1) \div size ELSE 0

(* What a step by number shows, and the number of pages it sees.           *)
LEMMA NumberedShow ==
  ASSUME PagesType, NumberedPage
  PROVE  /\ walk.kind \in {"sql", "mongo"} /\ walk.pc \in {"first", "on"}
         /\ \E count : /\ CountIs(count, Cardinality(rows), PageSize(walk.size))
                       /\ Show(Slice(Sorted(rows, IdOrder(walk.sort)), <<Seen, PageSize(walk.size)>>), count)
<1>1. walk.kind \in {"sql", "mongo"} /\ walk.pc \in {"first", "on"}
  BY DEF NumberedPage
<1>2. PICK n, c : /\ n = Cardinality(rows)
                  /\ c = Counted(Orderby(Limit(M, walk.no + 1, walk.size), "id", walk.sort), n)
  OBVIOUS
<1>3. Show(Fetched(c), c.page.count)
  BY <1>2, Zenon DEF NumberedPage
<1>4. n \in Nat
  <2>1. rows \in SUBSET Table
    BY DEF PagesType
  <2>2. IsFiniteSet(rows)
    BY <2>1, TableAssumption, FS_Subset
  <2>3. QED
    BY <1>2, <2>2, FS_CardinalityType
<1>5. /\ Fetched(c) = Slice(Sorted(rows, IdOrder(walk.sort)), <<Seen, PageSize(walk.size)>>)
      /\ c.page.count = IF n > 0 THEN (n + PageSize(walk.size) - 1) \div PageSize(walk.size) ELSE 0
  BY <1>1, <1>2, <1>4, NumberedPageIs
<1>6. CountIs(c.page.count, Cardinality(rows), PageSize(walk.size))
  BY <1>2, <1>5, Zenon DEF CountIs
<1>7. QED
  BY <1>1, <1>3, <1>5, <1>6, Zenon

(* PageCount, for a count that is given by CountIs.                        *)
LEMMA CountEnds ==
  ASSUME NEW no \in Nat, NEW size \in Nat \ {0}, NEW n \in Nat, NEW count, CountIs(count, n, size)
  PROVE  /\ count \in Nat
         /\ no * size \in Nat /\ (no + 1) * size = no * size + size
         /\ no + 1 >= count => (no + 1) * size >= n
         /\ no + 1 < count => (no + 1) * size < n
  BY PageCount DEF CountIs

(* A page by number keeps the invariant: the walk ends with the page that  *)
(* reaches the last row, and not before.                                   *)
LEMMA NumberedStep ==
  ASSUME PagesInv, NumberedPage
  PROVE  PagesInv'
<1>1. /\ PagesType /\ walk.sort \in Sorts /\ walk.size \in Int /\ walk.shown \in Seq(Table)
      /\ rows \in SUBSET Table /\ walk.no \in Nat /\ changes \in Nat
  BY DEF PagesInv, PagesType
<1>2. PICK size, all, page : /\ size = PageSize(walk.size) /\ all = Sorted(rows, IdOrder(walk.sort))
                             /\ page = Slice(all, <<Seen, size>>)
  OBVIOUS
<1>3. walk.kind \in {"sql", "mongo"} /\ walk.pc \in {"first", "on"}
  BY <1>1, NumberedShow
<1>4. PICK count : CountIs(count, Cardinality(rows), size) /\ Show(page, count)
  <2>1. \E count : /\ CountIs(count, Cardinality(rows), PageSize(walk.size))
                   /\ Show(Slice(Sorted(rows, IdOrder(walk.sort)), <<Seen, PageSize(walk.size)>>), count)
    BY <1>1, NumberedShow
  <2>2. QED
    BY <1>2, <2>1, Zenon
<1>5. size \in Nat \ {0}
  BY <1>1, <1>2, SizeIsPositive
<1>6. all \in Seq(Table) /\ Len(all) = Cardinality(rows) /\ Cardinality(rows) \in Nat
  <2>1. all \in Seq(rows) /\ Len(all) = Cardinality(rows) /\ Cardinality(rows) \in Nat
    BY <1>1, <1>2, SortedEnumerates
  <2>2. QED
    BY <1>1, <2>1, SeqMonotonic
<1>7. /\ count \in Nat
      /\ walk.no * size \in Nat /\ (walk.no + 1) * size = walk.no * size + size
      /\ walk.no + 1 >= count => (walk.no + 1) * size >= Cardinality(rows)
      /\ walk.no + 1 < count => (walk.no + 1) * size < Cardinality(rows)
  BY <1>1, <1>4, <1>5, <1>6, CountEnds
<1>8. PICK seen, after : seen = walk.no * size /\ after = (walk.no + 1) * size
  OBVIOUS
<1>9. Seen = seen /\ seen \in Nat /\ after = seen + size /\ page = Slice(all, <<seen, size>>)
  BY <1>2, <1>7, <1>8, Zenon DEF Seen
<1>10. page \in Seq(Table)
  <2>1. size \in Nat
    BY <1>5
  <2>2. QED
    BY <1>6, <1>9, <2>1, SliceIsPart
<1>11. /\ PagesType' /\ rows' = rows /\ changes' = changes
       /\ walk'.kind = walk.kind /\ walk'.sort = walk.sort /\ walk'.size = walk.size
       /\ walk'.page = page /\ walk'.shown = walk.shown \o page
       /\ walk'.no = walk.no + 1
       /\ walk'.pc = IF walk.kind = "fast" THEN IF Len(page) < PageSize(walk.size) THEN "end" ELSE "on"
                     ELSE IF walk.no + 1 >= count THEN "end" ELSE "on"
  BY <1>1, <1>4, <1>7, <1>10, ShowFields
<1>12. walk'.kind # "fast" /\ walk'.pc = IF walk.no + 1 >= count THEN "end" ELSE "on"
  BY <1>3, <1>11
<1>13. CASE changes # 0
  BY <1>11, <1>12, <1>13 DEF PagesInv
<1>14. CASE changes = 0
  <2>1. NumberedInv
    BY <1>3, <1>14 DEF PagesInv
  <2>2. rows = Table
    BY <2>1 DEF NumberedInv
  <2>3. /\ Len(walk.shown) = (IF seen < Len(all) THEN seen ELSE Len(all))
        /\ \A i \in 1..Len(walk.shown) : walk.shown[i] = all[i]
        /\ walk.pc = "first" => walk.no = 0
        /\ walk.pc = "on" => seen < Len(all)
    BY <1>2, <1>6, <1>9, <2>1, <2>2, Zenon DEF NumberedInv
  <2>4. walk.pc = "first" => seen = 0
    BY <1>5, <1>8, <2>3
  <2>5. Len(walk.shown) = seen /\ seen <= Len(all)
    BY <1>3, <1>6, <1>9, <2>3, <2>4
  <2>6. Continues(all, walk.shown \o page, after)
    <3>1. Len(walk.shown) <= Len(all)
      BY <2>5
    <3>2. Continues(all, walk.shown \o Slice(all, <<Len(walk.shown), size>>), Len(walk.shown) + size)
      BY <1>1, <1>5, <1>6, <2>3, <3>1, NumberedAppended
    <3>3. QED
      BY <1>9, <2>5, <3>2, Zenon
  <2>7. Continues(all, walk'.shown, after)
    BY <1>11, <2>6, Zenon
  <2>8. Seen' = after
    BY <1>2, <1>8, <1>11, Zenon DEF Seen
  <2>9. /\ walk'.pc = "end" => after >= Len(all)
        /\ walk'.pc = "on" => after < Len(all)
        /\ walk'.pc # "first" /\ walk'.pc # "back"
    <3>1. walk.no + 1 >= count \/ walk.no + 1 < count
      BY <1>1, <1>7
    <3>2. (walk.no + 1 >= count => after >= Len(all)) /\ (walk.no + 1 < count => after < Len(all))
      BY <1>6, <1>7, <1>8, Zenon
    <3>3. QED
      BY <1>12, <3>1, <3>2
  <2>10. Sorted(Table, IdOrder(walk'.sort)) = all /\ rows' = Table /\ Cardinality(Table) = Len(all)
    BY <1>2, <1>6, <1>11, <2>2, Zenon
  <2>11. NumberedInv'
    BY <2>7, <2>8, <2>9, <2>10, Zenon DEF NumberedInv, Continues
  <2>12. QED
    BY <1>11, <1>12, <2>11 DEF PagesInv
<1>15. QED
  BY <1>13, <1>14
(* A row that goes keeps the invariant: it is steady no more.              *)
LEMMA GoesStep ==
  ASSUME PagesInv, RowGoes
  PROVE  PagesInv'
<1>1. PICK r \in rows : /\ walk.pc = "on" /\ rows' = rows \ {r} /\ changes' = changes + 1
                        /\ walk' = [walk EXCEPT !.steady = @ \ {r}]
  BY DEF RowGoes
<1>2. /\ rows \subseteq Table /\ changes \in Nat
      /\ walk \in [pc : {"first", "on", "end", "back"}, kind : {"fast", "sql", "mongo"}, sort : Sorts,
                   size : Int, page : Seq(Table), shown : Seq(Table), steady : SUBSET Table,
                   no : Nat, count : Nat]
  BY DEF PagesInv, PagesType
<1>3. PICK steady : steady = walk.steady \ {r}
  OBVIOUS
<1>4. walk' = [walk EXCEPT !.steady = steady] /\ steady \in SUBSET Table
  BY <1>1, <1>2, <1>3
<1>5. /\ walk' \in [pc : {"first", "on", "end", "back"}, kind : {"fast", "sql", "mongo"}, sort : Sorts,
                   size : Int, page : Seq(Table), shown : Seq(Table), steady : SUBSET Table,
                   no : Nat, count : Nat]
      /\ walk'.kind = walk.kind /\ walk'.sort = walk.sort /\ walk'.size = walk.size
      /\ walk'.steady = steady /\ walk'.page = walk.page /\ walk'.shown = walk.shown
      /\ walk'.no = walk.no /\ walk'.pc = walk.pc
  BY <1>2, <1>4
<1>6. PagesType' /\ changes' # 0
  BY <1>1, <1>2, <1>5 DEF PagesType
<1>7. ASSUME walk'.kind = "fast" PROVE FastInv'
  <2>1. FastInv
    BY <1>5, <1>7 DEF PagesInv
  <2>2. steady \subseteq walk.steady /\ steady \subseteq rows'
    BY <1>1, <1>3, <2>1 DEF FastInv
  <2>3. \A t \in steady : Occurs(t, walk.shown) \/ Before(walk.sort, walk.shown[Len(walk.shown)], t)
    BY <1>1, <2>1, <2>2 DEF FastInv
  <2>4. /\ Ascends(walk.sort, walk.shown) /\ walk.page # <<>> /\ walk.shown # <<>>
        /\ walk.shown[Len(walk.shown)] = walk.page[Len(walk.page)]
    BY <1>1, <2>1 DEF FastInv
  <2>5. walk'.pc = "on"
    BY <1>1, <1>5
  <2>6. QED
    BY <1>5, <2>2, <2>3, <2>4, <2>5 DEF FastInv
<1>8. QED
  BY <1>6, <1>7 DEF PagesInv

(* A row that comes keeps the invariant: it was never steady.              *)
LEMMA ComesStep ==
  ASSUME PagesInv, RowComes
  PROVE  PagesInv'
<1>1. PICK r \in Table \ rows : /\ walk.pc = "on" /\ rows' = rows \cup {r} /\ changes' = changes + 1
                                /\ walk' = walk
  BY DEF RowComes
<1>2. rows \subseteq Table /\ changes \in Nat
  BY DEF PagesInv, PagesType
<1>3. PagesType' /\ changes' # 0
  <2>1. PagesType
    BY DEF PagesInv
  <2>2. QED
    BY <1>1, <1>2, <2>1 DEF PagesType
<1>4. ASSUME walk'.kind = "fast" PROVE FastInv'
  <2>1. FastInv /\ walk.pc = "on"
    BY <1>1, <1>4 DEF PagesInv
  <2>2. walk.steady \subseteq rows'
    BY <1>1, <2>1 DEF FastInv
  <2>3. QED
    BY <1>1, <2>1, <2>2 DEF FastInv
<1>5. QED
  BY <1>3, <1>4 DEF PagesInv

(* A walk that has shown nothing.                                          *)
WalkOf(at, kind, sort, size, steady) ==
  [pc |-> at, kind |-> kind, sort |-> sort, size |-> size, page |-> <<>>, shown |-> <<>>,
   steady |-> steady, no |-> 0, count |-> 0]

(* The walk at its start, written out.                                     *)
LEMMA FirstWalk ==
  ASSUME NEW kind, NEW sort, NEW size
  PROVE  [NoWalk EXCEPT !.pc = "first", !.kind = kind, !.sort = sort, !.size = size, !.steady = Table]
           = WalkOf("first", kind, sort, size, Table)
<1>1. PICK w : w = NoWalk
  OBVIOUS
<1>2. PICK w1 : w1 = [w EXCEPT !.pc = "first"]
  OBVIOUS
<1>3. PICK w2 : w2 = [w1 EXCEPT !.kind = kind]
  OBVIOUS
<1>4. PICK w3 : w3 = [w2 EXCEPT !.sort = sort]
  OBVIOUS
<1>5. PICK w4 : w4 = [w3 EXCEPT !.size = size]
  OBVIOUS
<1>6. PICK w5 : w5 = [w4 EXCEPT !.steady = Table]
  OBVIOUS
<1>7. [w EXCEPT !.pc = "first", !.kind = kind, !.sort = sort, !.size = size, !.steady = Table] =
        [[[[[w EXCEPT !.pc = "first"] EXCEPT !.kind = kind] EXCEPT !.sort = sort] EXCEPT !.size = size]
           EXCEPT !.steady = Table]
  OBVIOUS
<1>8. w = WalkOf("none", "", "", 0, {})
  BY <1>1 DEF NoWalk, WalkOf
<1>9. w1 = WalkOf("first", "", "", 0, {})
  BY <1>2, <1>8 DEF WalkOf
<1>10. w2 = WalkOf("first", kind, "", 0, {})
  BY <1>3, <1>9 DEF WalkOf
<1>11. w3 = WalkOf("first", kind, sort, 0, {})
  BY <1>4, <1>10 DEF WalkOf
<1>12. w4 = WalkOf("first", kind, sort, size, {})
  BY <1>5, <1>11 DEF WalkOf
<1>13. w5 = WalkOf("first", kind, sort, size, Table)
  BY <1>6, <1>12 DEF WalkOf
<1>14. QED
  BY <1>1, <1>2, <1>3, <1>4, <1>5, <1>6, <1>7, <1>13, Zenon

(* The invariant holds before the first page.                              *)
LEMMA FirstInv ==
  ASSUME InitPages
  PROVE  PagesInv
<1>1. PICK kind \in {"fast", "sql", "mongo"}, sort \in Sorts, size \in PageSizes :
        walk = [NoWalk EXCEPT !.pc = "first", !.kind = kind, !.sort = sort,
                              !.size = size, !.steady = Table]
  BY DEF InitPages, Sorts
<1>2. rows = Table /\ changes = 0 /\ size \in Int
  BY PagesAssumption DEF InitPages
<1>3. walk = WalkOf("first", kind, sort, size, Table)
  BY <1>1, FirstWalk, Zenon
<1>4. /\ walk.pc = "first" /\ walk.kind = kind /\ walk.sort = sort /\ walk.size = size
      /\ walk.page = <<>> /\ walk.shown = <<>> /\ walk.steady = Table /\ walk.no = 0 /\ walk.count = 0
  BY <1>3 DEF WalkOf
<1>5. <<>> \in Seq(Table) /\ Len(<<>>) = 0 /\ Table \in SUBSET Table
  OBVIOUS
<1>6. walk \in [pc : {"first", "on", "end", "back"}, kind : {"fast", "sql", "mongo"}, sort : Sorts,
                   size : Int, page : Seq(Table), shown : Seq(Table), steady : SUBSET Table,
                   no : Nat, count : Nat]
  BY <1>2, <1>3, <1>5 DEF WalkOf
<1>7. PagesType
  BY <1>2, <1>6 DEF PagesType
<1>8. FastInv
  BY <1>2, <1>4, <1>5 DEF FastInv, Ascends
<1>9. NumberedInv
  <2>1. Cardinality(Table) \in Nat
    BY TableAssumption, FS_CardinalityType
  <2>2. PageSize(walk.size) \in Nat
    BY <1>2, <1>4, SizeIsPositive
  <2>3. Seen = 0
    BY <1>4, <2>2 DEF Seen
  <2>4. Len(walk.shown) = IF Seen < Cardinality(Table) THEN Seen ELSE Cardinality(Table)
    BY <1>4, <2>1, <2>3
  <2>5. \A i \in 1..Len(walk.shown) : walk.shown[i] = Sorted(Table, IdOrder(walk.sort))[i]
    BY <1>4
  <2>6. QED
    BY <1>2, <1>4, <2>4, <2>5 DEF NumberedInv
<1>10. QED
  BY <1>7, <1>8, <1>9 DEF PagesInv

(* What ascends is in the order that PagesVisitAll speaks of.              *)
LEMMA ShownIsEarlier ==
  ASSUME NEW sort \in Sorts, NEW shown \in Seq(Table), Ascends(sort, shown)
  PROVE  \A i, j \in DOMAIN shown : i < j => Earlier(shown[i], shown[j], IdOrder(sort))
<1>1. DOMAIN shown = 1..Len(shown)
  OBVIOUS
<1>2. ASSUME NEW i \in 1..Len(shown), NEW j \in 1..Len(shown), i < j
      PROVE  Earlier(shown[i], shown[j], IdOrder(sort))
  <2>1. shown[i] \in Table /\ shown[j] \in Table /\ Before(sort, shown[i], shown[j])
    BY <1>2 DEF Ascends
  <2>2. QED
    BY <2>1, OrderIsById
<1>3. QED
  BY <1>1, <1>2, Zenon

(* Rows that occur in what was shown are among it.                         *)
LEMMA OccursInShown ==
  ASSUME NEW shown \in Seq(Table), NEW S, \A r \in S : Occurs(r, shown)
  PROVE  S \subseteq {shown[i] : i \in DOMAIN shown}
<1>1. DOMAIN shown = 1..Len(shown)
  OBVIOUS
<1>2. QED
  BY <1>1, Zenon DEF Occurs

\* What PagesVisitAll says, with its LET expanded part by part.
AllShown == walk.pc = "end" => walk.steady \subseteq {walk.shown[i] : i \in DOMAIN walk.shown}
InOrder == \A i, j \in DOMAIN walk.shown :
             i < j => Earlier(walk.shown[i], walk.shown[j], IdOrder(walk.sort))
BackIs(before, back) ==
  /\ back \subseteq before
  /\ Cardinality(back) = IF Cardinality(before) < PageSize(walk.size)
                         THEN Cardinality(before) ELSE PageSize(walk.size)
  /\ \A r \in back, s \in before \ back : Earlier(s, r, IdOrder(walk.sort))

(* The invariant of a fast walk gives the parts of PagesVisitAll.          *)
LEMMA FastVisitsAll ==
  ASSUME PagesType, FastInv
  PROVE  /\ AllShown /\ InOrder
         /\ walk.pc = "back" =>
              BackIs({r \in rows : IF walk.sort = "DESC" THEN r.id > walk.no ELSE r.id < walk.no},
                     {walk.page[i] : i \in DOMAIN walk.page})
<1>1. walk.sort \in Sorts /\ walk.shown \in Seq(Table) /\ walk.page \in Seq(Table) /\ rows \subseteq Table
  BY DEF PagesType
<1>2. AllShown
  BY <1>1, OccursInShown DEF AllShown, FastInv
<1>3. InOrder
  <2>1. Ascends(walk.sort, walk.shown)
    BY DEF FastInv
  <2>2. \A i, j \in DOMAIN walk.shown : i < j => Earlier(walk.shown[i], walk.shown[j], IdOrder(walk.sort))
    BY <1>1, <2>1, ShownIsEarlier
  <2>3. QED
    BY <2>2, Zenon DEF InOrder
<1>4. ASSUME walk.pc = "back"
      PROVE  BackIs({r \in rows : IF walk.sort = "DESC" THEN r.id > walk.no ELSE r.id < walk.no},
                    {walk.page[i] : i \in DOMAIN walk.page})
  <2>1. PICK before, back :
          /\ before = {r \in rows : IF walk.sort = "DESC" THEN r.id > walk.no ELSE r.id < walk.no}
          /\ back = {walk.page[i] : i \in DOMAIN walk.page}
    OBVIOUS
  <2>2. /\ back \subseteq before
        /\ Cardinality(back) = (IF Cardinality(before) < PageSize(walk.size)
                                THEN Cardinality(before) ELSE PageSize(walk.size))
        /\ \A r \in back, s \in before \ back : Before(walk.sort, s, r)
    BY <1>4, <2>1, Zenon DEF FastInv, BackInv
  <2>3. before \subseteq Table
    BY <1>1, <2>1
  <2>4. \A r \in back, s \in before \ back : Earlier(s, r, IdOrder(walk.sort))
    BY <1>1, <2>2, <2>3, OrderIsById
  <2>5. BackIs(before, back)
    BY <2>2, <2>4, Zenon DEF BackIs
  <2>6. QED
    BY <2>1, <2>5, Zenon
<1>5. QED
  BY <1>2, <1>3, <1>4

(* So does the invariant of a walk by number.                              *)
LEMMA NumberedVisitsAll ==
  ASSUME PagesType, NumberedInv
  PROVE  AllShown /\ InOrder /\ walk.pc # "back"
<1>1. /\ walk.sort \in Sorts /\ walk.shown \in Seq(Table) /\ walk.size \in Int /\ walk.no \in Nat
      /\ walk.steady \subseteq Table
  BY DEF PagesType
<1>2. PICK all, n : all = Sorted(Table, IdOrder(walk.sort)) /\ n = Cardinality(Table)
  OBVIOUS
<1>3. /\ all \in Seq(Table) /\ Len(all) = n /\ n \in Nat /\ Ascends(walk.sort, all)
      /\ \A r \in Table : Occurs(r, all)
  BY <1>1, <1>2, SortedEnumerates
<1>4. /\ Len(walk.shown) = (IF Seen < n THEN Seen ELSE n)
      /\ \A i \in 1..Len(walk.shown) : walk.shown[i] = all[i]
      /\ walk.pc = "end" => Seen >= n
      /\ walk.pc # "back"
  BY <1>2, Zenon DEF NumberedInv
<1>5. Seen \in Nat
  <2>1. PageSize(walk.size) \in Nat
    BY <1>1, SizeIsPositive
  <2>2. QED
    BY <1>1, <2>1 DEF Seen
<1>6. Len(walk.shown) \in Nat /\ Len(walk.shown) <= n
  BY <1>3, <1>4, <1>5
<1>7. Ascends(walk.sort, walk.shown)
  BY <1>3, <1>4, <1>6 DEF Ascends
<1>8. InOrder
  <2>1. \A i, j \in DOMAIN walk.shown : i < j => Earlier(walk.shown[i], walk.shown[j], IdOrder(walk.sort))
    BY <1>1, <1>7, ShownIsEarlier
  <2>2. QED
    BY <2>1, Zenon DEF InOrder
<1>9. ASSUME walk.pc = "end" PROVE walk.steady \subseteq {walk.shown[i] : i \in DOMAIN walk.shown}
  <2>1. Len(walk.shown) = n
    BY <1>3, <1>4, <1>5, <1>9
  <2>2. \A r \in walk.steady : Occurs(r, walk.shown)
    BY <1>1, <1>3, <1>4, <2>1 DEF Occurs
  <2>3. QED
    BY <1>1, <2>2, OccursInShown
<1>10. QED
  BY <1>4, <1>8, <1>9 DEF AllShown

(* The invariant implies PagesVisitAll.                                    *)
LEMMA InvVisitsAll ==
  ASSUME PagesInv
  PROVE  PagesVisitAll
<1>1. PagesType
  BY DEF PagesInv
<1>2. <<[key |-> "id", dir |-> walk.sort]>> = IdOrder(walk.sort)
  BY DEF IdOrder
<1>3. CASE walk.kind = "fast"
  <2>1. FastInv
    BY <1>3 DEF PagesInv
  <2>2. /\ AllShown /\ InOrder
        /\ walk.pc = "back" =>
             BackIs({r \in rows : IF walk.sort = "DESC" THEN r.id > walk.no ELSE r.id < walk.no},
                    {walk.page[i] : i \in DOMAIN walk.page})
    BY <1>1, <2>1, FastVisitsAll
  <2>3. QED
    BY <1>2, <2>2, Zenon DEF PagesVisitAll, AllShown, InOrder, BackIs
<1>4. CASE walk.kind # "fast" /\ changes = 0
  <2>1. NumberedInv
    BY <1>4 DEF PagesInv
  <2>2. AllShown /\ InOrder /\ walk.pc # "back"
    BY <1>1, <2>1, NumberedVisitsAll
  <2>3. QED
    BY <1>2, <2>2, Zenon DEF PagesVisitAll, AllShown, InOrder
<1>5. CASE walk.kind # "fast" /\ changes # 0
  BY <1>5, Zenon DEF PagesVisitAll
<1>6. QED
  BY <1>3, <1>4, <1>5

(* A step that leaves the walk and the table alone keeps the invariant.    *)
LEMMA PagesStutter ==
  ASSUME PagesInv, UNCHANGED pageVars
  PROVE  PagesInv'
<1>1. rows' = rows /\ walk' = walk /\ changes' = changes
  BY DEF pageVars
<1>2. QED
  BY <1>1 DEF PagesInv, PagesType, FastInv, BackInv, NumberedInv, Seen

(* The invariant of a walk: FastInv through fast pages with any changes,   *)
(* NumberedInv through numbered pages while no row comes or goes           *)
(* (FindList: mongo_manager.go 573-645, base_manager.go 1010-1132).        *)
THEOREM PagesInvariant == Walking => []PagesInv
<1>1. InitPages => PagesInv
  BY FirstInv
<1>2. PagesInv /\ [NextPages]_pageVars => PagesInv'
  <2>1. SUFFICES ASSUME PagesInv, [NextPages]_pageVars PROVE PagesInv'
    OBVIOUS
  <2>2. CASE NumberedPage
    BY <2>1, <2>2, NumberedStep
  <2>3. CASE FastFirstPage
    BY <2>1, <2>3, FirstStep
  <2>4. CASE FastNextPage
    BY <2>1, <2>4, NextStep
  <2>5. CASE FastPrevPage
    BY <2>1, <2>5, PrevStep
  <2>6. CASE RowGoes
    BY <2>1, <2>6, GoesStep
  <2>7. CASE RowComes
    BY <2>1, <2>7, ComesStep
  <2>8. CASE UNCHANGED pageVars
    BY <2>1, <2>8, PagesStutter
  <2>9. QED
    BY <2>1, <2>2, <2>3, <2>4, <2>5, <2>6, <2>7, <2>8 DEF NextPages
<1>3. QED
  BY <1>1, <1>2, PTL DEF Walking

(* For every table, page size and number of changes, a walk through the    *)
(* fast pages of FindList shows every row that stays exactly once and in   *)
(* order while others come and go between two pages, a page back holds the *)
(* rows nearest before the page shown, and a walk through numbered pages   *)
(* in either engine does so when no row comes or goes, ending where        *)
(* PageCount says (mongo_manager.go 573-645, base_manager.go 1010-1132).   *)
THEOREM PagesShowEveryRow == Walking => []PagesVisitAll
<1>1. PagesInv => PagesVisitAll
  BY InvVisitsAll
<1>2. QED
  BY <1>1, PagesInvariant, PTL
=============================================================================

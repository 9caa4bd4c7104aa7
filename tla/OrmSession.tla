------------------------------ MODULE OrmSession ------------------------------
(***************************************************************************)
(* Sessions of the relational manager (ormx/sqld/base_manager.go): GetDB   *)
(* opens one, in a transaction or not, the operations send one statement   *)
(* each, and Close commits or rolls back and then repeats the session's    *)
(* writes in Mongo (MongoSync).  Several sessions share a MySQL table and  *)
(* the Mongo collection that mirrors it.                                   *)
(*                                                                         *)
(* A key stands for a primary key (int64, set by the caller or by          *)
(* NextIID), a value for the other columns of the row.  The entries of     *)
(* MGOSyncData point to the caller's objects: they are read when the       *)
(* statement is built and once more when Close mirrors them.  SQL text,    *)
(* fields and result decoding are left out; MySQL's row locks and          *)
(* read-committed visibility, and Mongo's InsertMany and DeleteMany, are   *)
(* modelled by what they do.                                               *)
(***************************************************************************)
EXTENDS Integers, Sequences

CONSTANTS
    Sessions,   \* the managers, each opened and closed once
    Keys,       \* primary keys
    Vals,       \* contents of a row or an object
    None,       \* no row
    Same,       \* a key the transaction has not written
    MongoSync,  \* the option, and ToMongo of the model
    MaxOps,     \* bound: operations, of all sessions together
    MaxFaults   \* bound: refused operations and faults of MySQL and Mongo

ASSUME OrmAssumption ==
    /\ None \notin Vals /\ Same \notin Vals /\ None # Same
    /\ MongoSync \in BOOLEAN
    /\ MaxOps \in Nat /\ MaxFaults \in Nat

VARIABLES
    table,      \* the committed rows in MySQL
    mirror,     \* the documents in Mongo
    pc,         \* "none", "open", "exec" (in a statement), "sync" (in Close), "closed"
    tx,         \* OpenTx
    errors,     \* whether Errors is not nil
    pend,       \* the uncommitted writes of a transaction; they lock their rows
    queue,      \* MGOSyncData, with the present content of the objects
    req,        \* the statement being executed
    ops,        \* operations so far
    faults,     \* faults so far
    failed,     \* history: the kinds of failure this session's caller was told of
    told,       \* history: the writes of a transaction that returned no error
    ever,       \* history: the keys that a committed write has touched
    drift       \* history: 1 after a write of a kind that is not mirrored,
                \* 2 after anything else that makes the mirror differ

session == <<pc, tx, errors, pend, queue, req, ops>>
vars == <<table, mirror, session, faults, failed, told, ever, drift>>

Rows == [Keys -> Vals \cup {None}]
WriteOps == {"save", "update", "updateByCnd", "delete", "deleteById", "deleteByCnd"}
ReadOps == {"find", "count"}
NoWrites == [k \in Keys |-> Same]
(* What an operation may fail at, as its caller sees it: its statement, its *)
(* arguments, the primary key of the model, or the query of a count.       *)
Failures == {"statement", "arguments", "primaryKey", "countQuery"}
NoReq == [op |-> "none", keys |-> {}, val |-> None]
Requests == [op : WriteOps \cup ReadOps \cup {"none"}, keys : SUBSET Keys,
             val : Vals \cup {None}]

(* An entry of MGOSyncData: its objects are its CacheObject, and none when *)
(* that is nil.                                                            *)
NoObjects == [k \in {} |-> None]
Objects(C) == UNION {[K -> C] : K \in SUBSET Keys}
Entries ==
    [op : {"SAVE"}, objs : Objects(Vals)]
        \cup [op : {"UPDATE", "UPDATE_BY_CND", "DELETE"}, objs : Objects({None})]

Init ==
    /\ table = [k \in Keys |-> None]
    /\ mirror = [k \in Keys |-> None]
    /\ pc = [s \in Sessions |-> "none"]
    /\ tx = [s \in Sessions |-> FALSE]
    /\ errors = [s \in Sessions |-> FALSE]
    /\ pend = [s \in Sessions |-> NoWrites]
    /\ queue = [s \in Sessions |-> <<>>]
    /\ req = [s \in Sessions |-> NoReq]
    /\ ops = 0
    /\ faults = 0
    /\ failed = [s \in Sessions |-> {}]
    /\ told = [s \in Sessions |-> NoWrites]
    /\ ever = {}
    /\ drift = 0

Drift(n) == drift' = IF n > drift THEN n ELSE drift

Fault ==
    /\ faults < MaxFaults
    /\ faults' = faults + 1

-----------------------------------------------------------------------------
(* GetDB and the calls.                                                    *)

(* A new manager.  (When the datasource is unknown or Begin fails, GetDB   *)
(* returns the error and there is no session.)                             *)
GetDB(s, openTx) ==
    /\ pc[s] = "none"
    /\ pc' = [pc EXCEPT ![s] = "open"]
    /\ tx' = [tx EXCEPT ![s] = openTx]
    /\ UNCHANGED <<table, mirror, errors, pend, queue, req, ops, faults, failed, told, ever,
                   drift>>

(* An operation passes its checks and sends its statement.                 *)
Call(s, op, keys, val) ==
    /\ pc[s] = "open"
    /\ ops < MaxOps
    /\ pc' = [pc EXCEPT ![s] = "exec"]
    /\ ops' = ops + 1
    /\ req' = [req EXCEPT ![s] = [op |-> op, keys |-> keys, val |-> val]]
    /\ UNCHANGED <<table, mirror, tx, errors, pend, queue, faults, failed, told, ever, drift>>

(* The keys are the ids of the objects passed, or the rows that meet the   *)
(* condition; val is the content of the objects, or the Upsets.            *)
Save(s, K, v) == K # {} /\ Call(s, "save", K, v)
Update(s, k, v) == Call(s, "update", {k}, v)
UpdateByCnd(s, K, v) == Call(s, "updateByCnd", K, v)
Delete(s, K) == K # {} /\ Call(s, "delete", K, None)
DeleteById(s, K) == K # {} /\ Call(s, "deleteById", K, None)
DeleteByCnd(s, K) == Call(s, "deleteByCnd", K, None)
FindById(s, k) == Call(s, "find", {k}, None)
FindOne(s, k) == Call(s, "find", {k}, None)
FindOneComplex(s, k) == Call(s, "find", {k}, None)
FindList(s) == Call(s, "find", {}, None)
FindListComplex(s) == Call(s, "find", {}, None)
Count(s) == Call(s, "count", {}, None)
Exists(s) == Call(s, "count", {}, None)

(* Faulty: the error is only returned.                                     *)
ErrorNotKept(s) == UNCHANGED errors

(* DBManager.Error: what the operation returns is also kept.               *)
Error(s) == errors' = [errors EXCEPT ![s] = TRUE]

Fails(s, kind) == failed' = [failed EXCEPT ![s] = @ \cup {kind}]

(* An operation returns before it sends anything.                          *)
Refused(s, kind) ==
    /\ pc[s] = "open"
    /\ ops < MaxOps
    /\ ops' = ops + 1
    /\ Fault
    /\ Fails(s, kind)
    /\ UNCHANGED <<table, mirror, pc, tx, pend, queue, req, told, ever, drift>>

(* No data, too much of it, an unregistered model, an object without id,   *)
(* an empty where case.                                                    *)
Refuse(s) == Refused(s, "arguments") /\ Error(s)

(* The model has no primary key, or one that is neither int64 nor string,  *)
(* or a field of it cannot be read: the error comes from utils.Error and   *)
(* is only returned.                                                       *)
RefuseModel(s) == Refused(s, "primaryKey") /\ UNCHANGED errors

(* The objects of a SAVE that wait for Close get a new content (of the     *)
(* objects of a DELETE only the ids are used).                             *)
Refresh(s, k, v) ==
    queue' = [queue EXCEPT ![s] = [i \in DOMAIN @ |->
        IF @[i].op = "SAVE" /\ k \in DOMAIN @[i].objs
        THEN [@[i] EXCEPT !.objs[k] = v] ELSE @[i]]]

(* The caller changes an object that it has saved, as one does before      *)
(* Update.                                                                 *)
SetField(s, k, v) ==
    /\ pc[s] = "open"
    /\ Refresh(s, k, v)
    /\ queue' # queue
    /\ Drift(2)
    /\ UNCHANGED <<table, mirror, pc, tx, errors, pend, req, ops, faults, failed, told, ever>>

-----------------------------------------------------------------------------
(* MySQL: the rows a session sees, and what its statement makes of them.   *)

Over(rows, writes) == [k \in Keys |-> IF writes[k] = Same THEN rows[k] ELSE writes[k]]
View(s) == Over(table, pend[s])

Changed(s, k) ==
    CASE req[s].op = "save" -> req[s].val
      [] req[s].op \in {"update", "updateByCnd"} -> IF View(s)[k] = None THEN None ELSE req[s].val
      [] OTHER -> None

Effect(s) ==
    [k \in Keys |-> IF k \in req[s].keys THEN Changed(s, k) ELSE View(s)[k]]

(* RowsAffected: MySQL does not count a row that an update leaves as it    *)
(* is.                                                                     *)
Affected(s) == {k \in Keys : Effect(s)[k] # View(s)[k]}

Duplicate(s) == req[s].op = "save" /\ \E k \in req[s].keys : View(s)[k] # None

(* A write waits for the rows that another transaction has written.        *)
Blocked(s) == \E k \in req[s].keys, u \in Sessions \ {s} : pend[u][k] # Same

Executable(s) == ~Blocked(s) /\ ~Duplicate(s)

(* A transaction's writes, and now those of the statement.                 *)
Added(s, writes) == [k \in Keys |-> IF k \in Affected(s) THEN Effect(s)[k] ELSE writes[k]]

(* The rows become visible at once, or wait for the commit.                *)
Write(s) ==
    IF tx[s]
    THEN /\ pend' = [pend EXCEPT ![s] = Added(s, @)]
         /\ UNCHANGED <<table, ever>>
    ELSE /\ table' = Effect(s)
         /\ ever' = ever \cup Affected(s)
         /\ UNCHANGED pend

(* Another session has still to repeat its own write to one of these rows. *)
Raced(s, keys) ==
    \E u \in Sessions \ {s} : \E i \in DOMAIN queue[u] : DOMAIN queue[u][i].objs \cap keys # {}

(* Appended to MGOSyncData when the write has affected rows; nothing for   *)
(* DeleteById.                                                             *)
SyncEntry(s) ==
    LET objs == [k \in req[s].keys |-> req[s].val] IN
    CASE req[s].op = "save" -> <<[op |-> "SAVE", objs |-> objs]>>
      [] req[s].op = "update" -> <<[op |-> "UPDATE", objs |-> NoObjects]>>
      [] req[s].op = "updateByCnd" -> <<[op |-> "UPDATE_BY_CND", objs |-> NoObjects]>>
      [] req[s].op = "delete" -> <<[op |-> "DELETE", objs |-> objs]>>
      [] req[s].op = "deleteByCnd" -> <<[op |-> "DELETE", objs |-> NoObjects]>>
      [] OTHER -> <<>>

(* Faulty: the entry takes the place of the ones before.                   *)
AddSyncDataOnly(s) ==
    queue' = [queue EXCEPT ![s] =
                 IF Affected(s) # {} /\ MongoSync THEN SyncEntry(s) ELSE @]

AddSyncData(s) ==
    queue' = [queue EXCEPT ![s] =
                 IF Affected(s) # {} /\ MongoSync THEN @ \o SyncEntry(s) ELSE @]

Return(s) ==
    /\ pc' = [pc EXCEPT ![s] = "open"]
    /\ req' = [req EXCEPT ![s] = NoReq]

(* The write succeeds, or affects no row and is no error either.           *)
WriteReturns(s) ==
    /\ pc[s] = "exec" /\ req[s].op \in WriteOps
    /\ Executable(s)
    /\ Write(s)
    /\ AddSyncData(s)
    /\ Drift(IF Affected(s) = {} THEN 0
             ELSE IF ~tx[s] /\ Raced(s, Affected(s)) THEN 2
             ELSE IF req[s].op \notin {"save", "delete"} THEN 1 ELSE 0)
    /\ told' = [told EXCEPT ![s] = IF tx[s] THEN Added(s, @) ELSE @]
    /\ Return(s)
    /\ UNCHANGED <<mirror, tx, errors, ops, faults, failed>>

(* Prepare, Exec or RowsAffected fails: on a duplicate key, when the       *)
(* context times out because of a locked row, or on a fault, of which the  *)
(* server may have carried out the write.                                  *)
WriteFails(s) ==
    /\ pc[s] = "exec" /\ req[s].op \in WriteOps
    /\ \/ ~Executable(s) /\ UNCHANGED <<table, pend, ever, drift, faults>>
       \/ Executable(s) /\ Fault /\ UNCHANGED <<table, pend, ever, drift>>
       \/ Executable(s) /\ Fault /\ Write(s) /\ Drift(IF tx[s] THEN 0 ELSE 2)
    /\ Error(s)
    /\ Fails(s, "statement")
    /\ Return(s)
    /\ UNCHANGED <<mirror, tx, queue, ops, told>>

(* A query.  FindById and the like store the row in the object they get,   *)
(* here one that was saved before.                                         *)
ReadReturns(s) ==
    /\ pc[s] = "exec" /\ req[s].op \in ReadOps
    /\ \/ UNCHANGED queue
       \/ \E k \in req[s].keys : View(s)[k] # None /\ Refresh(s, k, View(s)[k])
    /\ Drift(IF queue' # queue THEN 2 ELSE 0)
    /\ Return(s)
    /\ UNCHANGED <<table, mirror, tx, errors, pend, ops, faults, failed, told, ever>>

ReadFails(s) ==
    /\ pc[s] = "exec" /\ req[s].op \in ReadOps
    /\ Fault
    /\ Error(s)
    /\ Fails(s, "statement")
    /\ Return(s)
    /\ UNCHANGED <<table, mirror, tx, pend, queue, ops, told, ever, drift>>

(* Count and Exists do not keep the error of a failed query (utils.Error), *)
(* only those of preparing it and of reading its result.                   *)
CountQueryFails(s) ==
    /\ pc[s] = "exec" /\ req[s].op = "count"
    /\ Fault
    /\ Fails(s, "countQuery")
    /\ Return(s)
    /\ UNCHANGED <<table, mirror, tx, errors, pend, queue, ops, told, ever, drift>>

-----------------------------------------------------------------------------
(* Close.                                                                  *)

(* Close returns; the manager and its objects are given up.                *)
End(s) ==
    /\ pc' = [pc EXCEPT ![s] = "closed"]
    /\ tx' = [tx EXCEPT ![s] = FALSE]
    /\ errors' = [errors EXCEPT ![s] = FALSE]
    /\ failed' = [failed EXCEPT ![s] = {}]
    /\ told' = [told EXCEPT ![s] = NoWrites]
    /\ pend' = [pend EXCEPT ![s] = NoWrites]
    /\ queue' = [queue EXCEPT ![s] = <<>>]

(* Close goes on to the synchronisation only if it is to be done.          *)
BeginSync(s) ==
    IF ~errors[s] /\ MongoSync /\ queue[s] # <<>>
    THEN /\ pc' = [pc EXCEPT ![s] = "sync"]
         /\ pend' = [pend EXCEPT ![s] = NoWrites]
         /\ UNCHANGED <<tx, errors, failed, told, queue>>
    ELSE End(s)

(* What the server does on commit.                                         *)
Commit(s) ==
    /\ table' = View(s)
    /\ ever' = ever \cup {k \in Keys : pend[s][k] # Same}

CloseCommits(s) ==
    /\ pc[s] = "open" /\ tx[s] /\ ~errors[s]
    /\ Commit(s)
    /\ BeginSync(s)
    /\ Drift(IF Raced(s, {k \in Keys : table'[k] # table[k]}) THEN 2 ELSE 0)
    /\ UNCHANGED <<mirror, req, ops, faults>>

(* Faulty: Close logs the failed commit and goes on.                       *)
CloseCommitFailsGoesOn(s) ==
    /\ pc[s] = "open" /\ tx[s] /\ ~errors[s]
    /\ Fault
    /\ \/ UNCHANGED <<table, ever, drift>>
       \/ Commit(s) /\ Drift(2)
    /\ BeginSync(s)
    /\ UNCHANGED <<mirror, req, ops>>

(* Commit fails, although it may have taken place; Close just returns.     *)
CloseCommitFails(s) ==
    /\ pc[s] = "open" /\ tx[s] /\ ~errors[s]
    /\ Fault
    /\ \/ UNCHANGED <<table, ever, drift>>
       \/ Commit(s) /\ Drift(2)
    /\ End(s)
    /\ UNCHANGED <<mirror, req, ops>>

(* A rollback that fails is logged; the server rolls back a lost session.  *)
CloseRollsBack(s) ==
    /\ pc[s] = "open" /\ tx[s] /\ errors[s]
    /\ End(s)
    /\ UNCHANGED <<table, mirror, req, ops, faults, ever, drift>>

(* Without a transaction one failed operation drops the synchronisation of *)
(* the writes that were done.                                              *)
CloseAutoCommit(s) ==
    /\ pc[s] = "open" /\ ~tx[s]
    /\ BeginSync(s)
    /\ Drift(IF errors[s] /\ queue[s] # <<>> THEN 2 ELSE 0)
    /\ UNCHANGED <<table, mirror, req, ops, faults, ever>>

(* MGOManager.Save and Delete, carried out for these of the objects.       *)
(* InsertMany stops at the first document that is there already: the ones  *)
(* before it, any part of the others, are inserted.                        *)
MongoSave(objs, part) ==
    /\ \A k \in part : mirror[k] = None
    /\ mirror' = [k \in Keys |-> IF k \in part THEN objs[k] ELSE mirror[k]]

MongoDelete(objs, part) ==
    mirror' = [k \in Keys |-> IF k \in part THEN None ELSE mirror[k]]

(* The first entry of MGOSyncData, for part of its objects.                *)
SyncPart(s, part) ==
    LET e == Head(queue[s]) IN
    /\ IF e.op = "SAVE" THEN MongoSave(e.objs, part) ELSE MongoDelete(e.objs, part)
    /\ queue' = [queue EXCEPT ![s] = Tail(@)]

(* mongoSyncData, or nothing for an entry without objects.                 *)
MongoSyncData(s) ==
    /\ pc[s] = "sync" /\ queue[s] # <<>>
    /\ SyncPart(s, DOMAIN Head(queue[s]).objs)
    /\ UNCHANGED <<table, pc, tx, errors, pend, req, ops, faults, failed, told, ever, drift>>

(* Mongo fails part of the way, on a duplicate or a fault; Close logs it   *)
(* and goes on with the next entry.                                        *)
MongoSyncFails(s) ==
    /\ pc[s] = "sync" /\ queue[s] # <<>>
    /\ LET e == Head(queue[s])
       IN  /\ e.objs # NoObjects
           /\ \/ Fault
              \/ /\ e.op = "SAVE" /\ \E k \in DOMAIN e.objs : mirror[k] # None
                 /\ UNCHANGED faults
           /\ \E part \in SUBSET DOMAIN e.objs : SyncPart(s, part)
    /\ Drift(2)
    /\ UNCHANGED <<table, pc, tx, errors, pend, req, ops, failed, told, ever>>

CloseReturns(s) ==
    /\ pc[s] = "sync" /\ queue[s] = <<>>
    /\ End(s)
    /\ UNCHANGED <<table, mirror, req, ops, faults, ever, drift>>

-----------------------------------------------------------------------------
Operation(s) ==
    \/ \E openTx \in BOOLEAN : GetDB(s, openTx)
    \/ \E K \in SUBSET Keys, v \in Vals : Save(s, K, v) \/ UpdateByCnd(s, K, v)
    \/ \E K \in SUBSET Keys : Delete(s, K) \/ DeleteById(s, K) \/ DeleteByCnd(s, K)
    \/ \E k \in Keys : FindById(s, k) \/ FindOne(s, k) \/ FindOneComplex(s, k)
    \/ FindList(s) \/ FindListComplex(s) \/ Count(s) \/ Exists(s)
    \/ Refuse(s) \/ RefuseModel(s)
    \/ \E k \in Keys, v \in Vals : Update(s, k, v) \/ SetField(s, k, v)

StatementEnds(s) ==
    WriteReturns(s) \/ WriteFails(s) \/ ReadReturns(s) \/ ReadFails(s) \/ CountQueryFails(s)

Close(s) == CloseCommits(s) \/ CloseCommitFails(s) \/ CloseRollsBack(s) \/ CloseAutoCommit(s)

CloseGoesOn(s) == MongoSyncData(s) \/ MongoSyncFails(s) \/ CloseReturns(s)

Next == \E s \in Sessions : Operation(s) \/ StatementEnds(s) \/ Close(s) \/ CloseGoesOn(s)

Spec == Init /\ [][Next]_vars

-----------------------------------------------------------------------------
(* Properties *)

(* Every variable keeps its type.                                          *)
TypeOK ==
    /\ table \in Rows
    /\ mirror \in Rows
    /\ pc \in [Sessions -> {"none", "open", "exec", "sync", "closed"}]
    /\ tx \in [Sessions -> BOOLEAN]
    /\ errors \in [Sessions -> BOOLEAN]
    /\ pend \in [Sessions -> [Keys -> Vals \cup {None, Same}]]
    /\ queue \in [Sessions -> Seq(Entries)]
    /\ req \in [Sessions -> Requests]
    /\ ops \in 0 .. MaxOps
    /\ faults \in 0 .. MaxFaults
    /\ failed \in [Sessions -> SUBSET Failures]
    /\ told \in [Sessions -> [Keys -> Vals \cup {None, Same}]]
    /\ ever \in SUBSET Keys
    /\ drift \in 0 .. 2

(* A transaction is all or nothing, as its caller sees it: Close leaves    *)
(* the table alone, or adds exactly the writes that returned no error, and *)
(* the latter only when no statement failed and no arguments were refused. *)
(* So a write that the server carried out although it was reported as      *)
(* failed never gets in, nor do the writes around it (Errors decides in    *)
(* Close, 1587-1598).  The two kinds of failure that Errors does not hold, *)
(* a refused model and the query of Count or Exists, do not stop a commit; *)
(* see ErrorsRecord.                                                       *)
AllOrNothing ==
    [][\A s \in Sessions : tx[s] /\ pc'[s] # pc[s] =>
          \/ table' = table
          \/ /\ failed[s] \subseteq {"primaryKey", "countQuery"}
             /\ table' = Over(table, told[s])]_vars

(* Errors is the record of the errors (base_manager.go:69) and Close       *)
(* commits only when it is empty (1587): a transaction that Close has      *)
(* committed, and now repeats in Mongo, had no operation that failed.      *)
ErrorsRecord == \A s \in Sessions : tx[s] /\ pc[s] = "sync" => failed[s] = {}

(* Mongo shows a document only if a write to its row was committed: not    *)
(* that of a transaction rolled back, nor of a commit that failed (Close   *)
(* returns before the synchronisation, 1590 and 1596), nor of a failed     *)
(* Save.                                                                   *)
MirrorOnlyCommitted == \A k \in Keys : mirror[k] # None => k \in ever

(* When all sessions are closed, the mirror is the table, unless one of    *)
(* these happened: a write other than Save and Delete, a fault of MySQL or *)
(* Mongo, a change to an object that waits for Close, or another session's *)
(* write to the row before the first one was repeated.  So the saves and   *)
(* deletes of a session reach Mongo in their order, and all of them.       *)
MirrorAgrees ==
    (\A s \in Sessions : pc[s] \in {"none", "closed"}) /\ drift = 0 => mirror = table

(* The same without the first exception: MongoSync repeats the writes      *)
(* (base_manager.go:51).                                                   *)
MirrorsWrites ==
    (\A s \in Sessions : pc[s] \in {"none", "closed"}) /\ drift <= 1 => mirror = table

-----------------------------------------------------------------------------
(* The inductive invariant.                                                *)

(* What failed is in Errors, but for the two kinds.                        *)
FailuresKept ==
    \A s \in Sessions : errors[s] \/ failed[s] \subseteq {"primaryKey", "countQuery"}

(* Without an entry in Errors the open transaction has written what its    *)
(* caller was told.                                                        *)
ToldWritten == \A s \in Sessions : pc[s] # "sync" /\ ~errors[s] => told[s] = pend[s]

(* A SAVE in MGOSyncData is of a row whose write is committed, or is still *)
(* to be committed by the same session before it synchronises.             *)
QueueTouched ==
    \A s \in Sessions : \A i \in DOMAIN queue[s] : queue[s][i].op = "SAVE" =>
        \A k \in DOMAIN queue[s][i].objs : k \in ever \/ pend[s][k] # Same

(* Only an open transaction has uncommitted rows.                          *)
SyncClean ==
    \A s \in Sessions : pc[s] \notin {"open", "exec"} \/ ~tx[s] => pend[s] = NoWrites

(* Objects that are written have a content.                                *)
ReqShape ==
    \A s \in Sessions :
        /\ req[s].op \in {"save", "update", "updateByCnd"} => req[s].val \in Vals
        /\ req[s].op = "delete" => req[s].val = None

IInv ==
    /\ TypeOK
    /\ FailuresKept
    /\ ToldWritten
    /\ QueueTouched
    /\ SyncClean
    /\ ReqShape
    /\ MirrorOnlyCommitted

=============================================================================

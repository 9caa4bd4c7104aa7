------------------------------- MODULE Query --------------------------------
(***************************************************************************)
(* A caller builds one Cnd with a chain of calls (ormx/sqlc/cnd.go) and    *)
(* gives it to one operation of ormx/sqld, of MySQL or of Mongo.           *)
(***************************************************************************)
EXTENDS Conditions
LOCAL INSTANCE SequencesExt
LOCAL INSTANCE FiniteSetsExt

CONSTANTS
  Values,           \* the values of conditions, positive numbers
  OrParts,          \* the argument lists of Or: sequences of condition lists
  MaxConditions,    \* bound on the conditions of a Cnd
  Others,           \* the rows of the tables to join, on of = id
  MaxParts          \* bound on a Cnd with a From: a condition counts twice

ASSUME QueryAssumption ==
  /\ Values \subseteq Nat \ {0} /\ {MaxConditions, MaxParts} \subseteq Nat
  /\ \A o \in Others : {o.id, o.of} \subseteq Nat \ {0}

VARIABLES
  cnd,     \* the Cnd: see NewCnd
  ask      \* the operation it was given to, and its outcome

queryVars == <<cnd, ask>>

-----------------------------------------------------------------------------
(* What an engine makes of nested conditions. *)

\* A text is a sequence of words and clauses; a clause has a ? for each of
\* its values.  BuildWhereCase has no case for BETWEEN2.
SqlForm(logic) ==
  CASE logic = "EQ" -> "= ?" [] logic = "NOT_EQ" -> "<> ?" [] logic = "LT" -> "< ?" [] logic = "LTE" -> "<= ?"
    [] logic = "GT" -> "> ?" [] logic = "GTE" -> ">= ?"
    [] logic = "IS_NULL" -> "is null" [] logic = "IS_NOT_NULL" -> "is not null"
    [] logic = "BETWEEN" -> "between ? and ?" [] logic = "NOT_BETWEEN" -> "not between ? and ?"
    [] logic = "IN" -> "in(?)" [] logic = "NOT_IN" -> "not in(?)"
    [] logic = "LIKE" -> "like ?" [] logic = "NOT_LIKE" -> "not like ?"
Word(w) == [word |-> w, key |-> "", marks |-> 0]
Clause(c) == [word |-> SqlForm(c.logic), key |-> c.key, marks |-> Len(c.values)]

\* Faulty: the alternatives are not put in parentheses.
OrCaseBare(parts) ==
  LET orpart == FlattenSeq([j \in DOMAIN parts |-> Front(parts[j].text) \o <<Word("or")>>])
  IN  [text |-> Front(orpart) \o <<Word("and")>>, args |-> FlattenSeq([j \in DOMAIN parts |-> parts[j].args])]
\* The parts without their last "and", an "or" after each, the last one cut.
OrCase(parts) ==
  LET orpart == FlattenSeq([j \in DOMAIN parts |-> Front(parts[j].text) \o <<Word("or")>>])
  IN  [text |-> <<Word("(")>> \o Front(orpart) \o <<Word(")"), Word("and")>>,
       args |-> FlattenSeq([j \in DOMAIN parts |-> parts[j].args])]
RECURSIVE BuildWhereCase(_)
BuildWhereCase(conds) ==
  LET case(c) ==
        IF c.logic = "OR" THEN OrCase([j \in DOMAIN c.subs |-> BuildWhereCase(c.subs[j])])
        ELSE IF c.logic = "BETWEEN2" THEN [text |-> <<>>, args |-> <<>>]
        ELSE [text |-> <<Clause(c), Word("and")>>, args |-> c.values]
      cases == [i \in DOMAIN conds |-> case(conds[i])]
  IN  [text |-> FlattenSeq([i \in DOMAIN conds |-> cases[i].text]),
       args |-> FlattenSeq([i \in DOMAIN conds |-> cases[i].args])]

RECURSIVE WherePanics(_)
\* An Or part without a text makes Substr slice before the start.
WherePanics(conds) ==
  \E i \in DOMAIN conds : \E j \in DOMAIN conds[i].subs :
    BuildWhereCase(conds[i].subs[j]).text = <<>> \/ WherePanics(conds[i].subs[j])
HasArguments(conds) == BuildWhereCase(conds).args # <<>>

(* MySQL reads the text: the n-th ? is the n-th argument, "and" binds      *)
(* tighter than "or".                                                      *)

Bound(text, args) ==
  LET before(i) == MapThenSumSet(LAMBDA j : text[j].marks, 1..i - 1)
  IN  [i \in DOMAIN text |->
         [word |-> text[i].word, key |-> text[i].key,
          values |-> SubSeq(args, before(i) + 1, before(i) + text[i].marks)]]
SqlTrue(x, word, vs) ==
  IF x = Null THEN word = "is null"
  ELSE CASE word = "= ?" -> x = vs[1]
         [] word = "<> ?" -> x # vs[1]
         [] word = "< ?" -> x < vs[1]
         [] word = "<= ?" -> x <= vs[1]
         [] word = "> ?" -> x > vs[1]
         [] word = ">= ?" -> x >= vs[1]
         [] word = "is null" -> FALSE
         [] word = "is not null" -> TRUE
         [] word = "between ? and ?" -> x \in vs[1]..vs[2]
         [] word = "not between ? and ?" -> x \notin vs[1]..vs[2]
         [] word = "in(?)" -> x \in ToSet(vs)
         [] word = "not in(?)" -> x \notin ToSet(vs)
         [] word = "like ?" -> HasText(x, vs[1])
         [] word = "not like ?" -> ~HasText(x, vs[1])
\* The places of a word that are outside all parentheses, and what they part.
Cuts(text, w) ==
  {i \in DOMAIN text :
     /\ text[i].word = w
     /\ Cardinality({j \in 1..i : text[j].word = "("}) = Cardinality({j \in 1..i : text[j].word = ")"})}
Parted(text, w) ==
  LET cuts == Cuts(text, w) \cup {0, Len(text) + 1}
  IN  {SubSeq(text, cut[1] + 1, cut[2] - 1) :
         cut \in {c \in cuts \X cuts : c[1] < c[2] /\ \A k \in cuts : k <= c[1] \/ k >= c[2]}}
RECURSIVE SqlHolds(_, _)
SqlHolds(text, r) ==
  IF Cuts(text, "or") # {} THEN \E part \in Parted(text, "or") : SqlHolds(part, r)
  ELSE IF Cuts(text, "and") # {} THEN \A part \in Parted(text, "and") : SqlHolds(part, r)
  ELSE IF Len(text) = 1 THEN SqlTrue(Column(r, text[1].key), text[1].word, text[1].values)
  ELSE SqlHolds(SubSeq(text, 2, Len(text) - 1), r)
\* The callers of BuildWhereCase cut the last "and".
SqlSelected(conds) ==
  LET where == BuildWhereCase(conds)
      text == Bound(Front(where.text), where.args)
  IN  IF where.text = <<>> THEN Table ELSE {r \in Table : SqlHolds(text, r)}

RECURSIVE MongoSelects(_, _), MongoRefuses(_)
MongoSelects(conds, r) ==
  LET query == buildMongoMatch(conds)
  IN  /\ MongoMatches([key \in DOMAIN query \ {"$or"} |-> query[key]], r)
      /\ "$or" \in DOMAIN query =>
           \E array \in query["$or"] : \E j \in DOMAIN array.args : MongoSelects(array.args[j], r)
\* A part of an Or without conditions is a null in the array.
MongoRefuses(conds) ==
  LET query == buildMongoMatch(conds)
  IN  /\ "$or" \in DOMAIN query
      /\ \E array \in query["$or"] : \E j \in DOMAIN array.args :
           array.args[j] = <<>> \/ MongoRefuses(array.args[j])

SqlFound(c) == SqlRows(c, SqlSelected(c.conditions))
MongoFound(c) == MongoRows(c, {r \in Table : MongoSelects(c.conditions, r)})

-----------------------------------------------------------------------------
(* The complex finds of MySQL: a table joined to others, and groups.  The  *)
(* caller qualifies the names where it must, and takes each field once.    *)

NewCnd == [conditions |-> <<>>, orders |-> <<>>, page |-> NoPage, limitSize |-> 0,
           from |-> "", fields |-> <<>>, joins |-> <<>>, groupbys |-> <<>>]
From(c, table) == [c EXCEPT !.from = table]
Fields(c, keys) == [c EXCEPT !.fields = @ \o keys]
Join(c, kind, on) == IF on = "" THEN c ELSE [c EXCEPT !.joins = Append(@, kind)]
Groupby(c, keys) == [c EXCEPT !.groupbys = @ \o SelectSeq(keys, LAMBDA k : k # "")]

\* A join of another type is left out of the text.
JoinPart(c) == SelectSeq(c.joins, LAMBDA kind : kind \in {"LEFT", "RIGHT", "INNER"})
\* Faulty: cuts the last key with its comma.
BuildGroupByShort(c) == IF Len(c.groupbys) > 1 THEN Front(c.groupbys) ELSE c.groupbys
BuildGroupBy(c) == c.groupbys

(* MySQL joins and groups.  A row carries the ids of its partners. *)

NoRow == [id |-> Null, a |-> Null]
Joined(r, partner) == [id |-> r.id, a |-> r.a, with |-> Append(r.with, partner)]
JoinStep(rows, kind) ==
  LET partners(r) == {o \in Others : o.of = r.id}
      matched == UNION {{Joined(r, o.id) : o \in partners(r)} : r \in rows}
      alone == {Joined(r, Null) : r \in {s \in rows : partners(s) = {}}}
      unclaimed == {[id |-> Null, a |-> Null, with |-> <<o.id>>] :
                      o \in {p \in Others : \A r \in rows : p.of # r.id}}
  IN  matched \cup CASE kind = "LEFT" -> alone [] kind = "RIGHT" -> unclaimed [] kind = "INNER" -> {}
Grouped(rows, keys) ==
  LET like(r) == {s \in rows : \A i \in DOMAIN keys : Column(s, keys[i]) = Column(r, keys[i])}
  IN  IF keys = <<>> THEN rows ELSE {CHOOSE s \in like(r) : TRUE : r \in rows}
\* A field or an order that a group does not determine is refused.
Undetermined(c) ==
  /\ c.groupbys # <<>> /\ "id" \notin ToSet(c.groupbys)
  /\ ~(ToSet(c.fields) \cup {c.orders[i].key : i \in DOMAIN c.orders} \subseteq ToSet(c.groupbys))

\* The rows of a complex find before its page is cut.
ComplexRows(c) ==
  LET where == BuildWhereCase(c.conditions)
      text == Bound(Front(where.text), where.args)
      joined == FoldLeft(JoinStep, {[id |-> r.id, a |-> r.a, with |-> <<>>] : r \in Table}, JoinPart(c))
      selected == {r \in joined : where.text = <<>> \/ SqlHolds(text, r)}
      found == Grouped(selected, BuildGroupBy(c))
      order == Sorted({[id |-> r.id, a |-> r.a] : r \in found}, BuildSortBy(c))
      alike(n) == {r \in found : r.id = order[n].id}
  IN  FlattenSeq([n \in DOMAIN order |-> [k \in 1..Cardinality(alike(n)) |-> order[n]]])
\* SetValue on the fields of the model that were read; the others are zero.
Filled(c, r) == [id |-> IF "id" \in ToSet(c.fields) THEN r.id ELSE 0,
                 a |-> IF "a" \in ToSet(c.fields) THEN r.a ELSE 0]

-----------------------------------------------------------------------------
(* One Cnd, built and asked. *)

NotAsked == [op |-> "", engine |-> "", status |-> "", rows |-> <<>>]

InitQuery == cnd = NewCnd /\ ask = NotAsked
IdleQuery == cnd = NewCnd /\ ask = [NotAsked EXCEPT !.op = "idle"]

\* The Cnd has not been given to an operation yet.
Asking == ask.op = ""

CndParts(c) == 2 * Len(c.conditions) + Len(c.orders) + Len(c.joins) + Len(c.groupbys)
            + IF c.page = NoPage THEN 0 ELSE 1
Build(c) ==
  /\ cnd # c
  /\ Len(c.conditions) <= MaxConditions
  /\ c.from # "" => CndParts(c) <= MaxParts
  /\ cnd' = c
  /\ UNCHANGED ask

AddCompared == \E l \in {"EQ", "NOT_EQ", "LT", "LTE", "GT", "GTE"}, k \in Columns, v \in Values \cup {Nil} :
  Build(Compared(cnd, l, k, v))
AddLiked == \E l \in {"LIKE", "NOT_LIKE"}, v \in Values \cup {Nil} : Build(Liked(cnd, l, "a", v))
AddNullness == \E l \in {"IS_NULL", "IS_NOT_NULL"} : Build(Nullness(cnd, l, "a"))
AddRanged == \E l \in {"BETWEEN", "BETWEEN2", "NOT_BETWEEN"}, k \in Columns, v, w \in Values \cup {Nil} :
  Build(Ranged(cnd, l, k, v, w))
AddListed == \E l \in {"IN", "NOT_IN"}, k \in Columns, v \in Values : Build(Listed(cnd, l, k, <<v>>))
AddOr == \E parts \in OrParts : Build(Or(cnd, parts))
AddOrderby == \E k \in Columns, dir \in {"ASC", "DESC"} : cnd.orders = <<>> /\ Build(Orderby(cnd, k, dir))

AddFrom == cnd = NewCnd /\ Build(From(cnd, "t"))
AddFields == \E keys \in {<<"a">>, <<"id", "a">>} :
  cnd.from # "" /\ cnd.fields = <<>> /\ Build(Fields(cnd, keys))
AddJoin == \E kind \in {"LEFT", "RIGHT", "INNER", "SUM"}, on \in {"", "of = id"} :
  cnd.from # "" /\ Build(Join(cnd, kind, on))
AddGroupby == \E keys \in {<<"a">>, <<"a", "", "id">>} :
  cnd.from # "" /\ cnd.groupbys = <<>> /\ Build(Groupby(cnd, keys))
AddLimit == \E no \in 0..3, size \in 0..MaxPageSize :
  cnd.from # "" /\ Build(Limit(cnd, no, size))

Answer(engine, op, status, c, result) ==
  /\ cnd' = c
  /\ ask' = [op |-> op, engine |-> engine, status |-> status, rows |-> result]

SqlStatus == IF WherePanics(cnd.conditions) THEN "panic" ELSE "ok"
MongoStatus == IF MongoRefuses(cnd.conditions) THEN "failed" ELSE "ok"

\* FindOne of MySQL makes the Cnd an Offset(0, 1).
SqlFindOne ==
  LET all == SqlFound(cnd)
  IN  Answer("sql", "FindOne", SqlStatus, Offset(cnd, 0, 1),
                IF SqlStatus = "ok" THEN Slice(all, <<0, 1>>) ELSE <<>>)
SqlFindList ==
  Answer("sql", "FindList", SqlStatus, cnd, IF SqlStatus = "ok" THEN SqlFound(cnd) ELSE <<>>)
\* A write by condition is refused without a condition or an argument for
\* one, and an update without a field to change.
SqlByCnd == \E op \in {"UpdateByCnd", "DeleteByCnd"}, keys \in {{}, {"a"}} :
  LET status == IF op = "UpdateByCnd" /\ keys = {} THEN "refused"
                ELSE IF SqlStatus = "panic" THEN "panic"
                ELSE IF HasArguments(cnd.conditions) THEN "ok" ELSE "refused"
  IN  Answer("sql", op, status, cnd, IF status = "ok" THEN SqlFound(cnd) ELSE <<>>)
SqlCount ==
  LET all == SqlFound([cnd EXCEPT !.page = NoPage])
  IN  Answer("sql", "Count", SqlStatus, IF SqlStatus = "ok" THEN Counted(cnd, Len(all)) ELSE cnd,
                IF SqlStatus = "ok" THEN all ELSE <<>>)

MongoFindOne ==
  Answer("mongo", "FindOne", MongoStatus, cnd,
            IF MongoStatus = "ok" THEN Slice(MongoFound(cnd), <<0, 1>>) ELSE <<>>)
MongoFindList ==
  Answer("mongo", "FindList", MongoStatus, cnd,
            IF MongoStatus = "ok" THEN MongoFound(cnd) ELSE <<>>)
MongoUpdateByCnd == \E keys \in SUBSET Columns :
  LET changed == MongoFound(cnd)
      status == IF DOMAIN buildMongoMatch(cnd.conditions) = {} \/ buildMongoUpset(keys) = {} THEN "refused"
                ELSE IF MongoStatus = "failed" \/ changed = <<>> THEN "failed" ELSE "ok"
  IN  Answer("mongo", "UpdateByCnd", status, cnd, IF status = "ok" THEN changed ELSE <<>>)
MongoDeleteByCnd ==
  LET deleted == MongoFound(cnd)
      status == IF DOMAIN buildMongoMatch(cnd.conditions) = {} THEN "refused"
                ELSE IF MongoStatus = "failed" \/ deleted = <<>> THEN "failed" ELSE "ok"
  IN  Answer("mongo", "DeleteByCnd", status, cnd, IF status = "ok" THEN deleted ELSE <<>>)
MongoCount ==
  LET all == MongoFound([cnd EXCEPT !.page = NoPage])
  IN  Answer("mongo", "Count", MongoStatus, IF MongoStatus = "ok" THEN Counted(cnd, Len(all)) ELSE cnd,
                IF MongoStatus = "ok" THEN all ELSE <<>>)

ComplexStatus ==
  IF cnd.from = "" \/ cnd.fields = <<>> THEN "refused"
  ELSE IF WherePanics(cnd.conditions) THEN "panic"
  ELSE IF Undetermined(cnd) THEN "failed" ELSE "ok"
\* BuildPagination counts the rows of a page by number; totals are erased
\* when the page is empty.
SqlFindListComplex ==
  LET all == ComplexRows(cnd)
      page == Slice(all, BuildPagination(cnd))
      counted == IF ~cnd.page.isPage THEN cnd ELSE Counted(cnd, IF page = <<>> THEN 0 ELSE Len(all))
  IN  IF ComplexStatus = "ok"
      THEN Answer("sql", "FindListComplex", "ok", counted, [i \in DOMAIN page |-> Filled(cnd, page[i])])
      ELSE Answer("sql", "FindListComplex", ComplexStatus, cnd, <<>>)
SqlFindOneComplex ==
  LET first == Slice(ComplexRows(cnd), <<0, 1>>)
  IN  IF ComplexStatus = "ok"
      THEN Answer("sql", "FindOneComplex", "ok", Offset(cnd, 0, 1), [i \in DOMAIN first |-> Filled(cnd, first[i])])
      ELSE Answer("sql", "FindOneComplex", ComplexStatus,
                  IF ComplexStatus = "refused" THEN cnd ELSE Offset(cnd, 0, 1), <<>>)

NextQuery ==
  /\ Asking
  /\ \/ AddCompared \/ AddLiked \/ AddNullness \/ AddRanged \/ AddListed \/ AddOr \/ AddOrderby
     \/ AddFrom \/ AddFields \/ AddJoin \/ AddGroupby \/ AddLimit
     \/ SqlFindListComplex \/ SqlFindOneComplex
     \/ /\ cnd.from = ""
        /\ \/ SqlFindOne \/ SqlFindList \/ SqlByCnd \/ SqlCount
           \/ MongoFindOne \/ MongoFindList \/ MongoUpdateByCnd \/ MongoDeleteByCnd \/ MongoCount

-----------------------------------------------------------------------------
(* What is asked for. *)

\* What the comments of cnd.go say of the builder's methods; a null is in no
\* comparison.
Satisfies(x, c) ==
  LET v == c.values
  IN  IF x = Null THEN c.logic = "IS_NULL"
      ELSE CASE c.logic = "EQ" -> x = v[1]
             [] c.logic = "NOT_EQ" -> x # v[1]
             [] c.logic = "LT" -> x < v[1]
             [] c.logic = "LTE" -> x <= v[1]
             [] c.logic = "GT" -> x > v[1]
             [] c.logic = "GTE" -> x >= v[1]
             [] c.logic \in {"IS_NULL", "IS_NOT_NULL"} -> c.logic = "IS_NOT_NULL"
             [] c.logic = "BETWEEN" -> v[1] <= x /\ x <= v[2]
             [] c.logic = "BETWEEN2" -> v[1] <= x /\ x < v[2]
             [] c.logic = "NOT_BETWEEN" -> x < v[1] \/ x > v[2]
             [] c.logic = "IN" -> \E i \in DOMAIN v : x = v[i]
             [] c.logic = "NOT_IN" -> \A i \in DOMAIN v : x # v[i]
             [] c.logic = "LIKE" -> HasText(x, v[1])
             [] c.logic = "NOT_LIKE" -> ~HasText(x, v[1])

RECURSIVE Meant(_, _), AllConditions(_)
Meant(conds, r) ==
  \A i \in DOMAIN conds :
    IF conds[i].logic = "OR" THEN \E j \in DOMAIN conds[i].subs : Meant(conds[i].subs[j], r)
    ELSE Satisfies(Column(r, conds[i].key), conds[i])
AllConditions(conds) ==
  UNION {{conds[i]} \cup UNION {AllConditions(conds[i].subs[j]) : j \in DOMAIN conds[i].subs} :
           i \in DOMAIN conds}
RECURSIVE KeyedOnce(_)
KeyedOnce(conds) ==
  /\ \A i, j \in DOMAIN conds : conds[i].key = conds[j].key => i = j
  /\ \A i \in DOMAIN conds : \A j \in DOMAIN conds[i].subs : KeyedOnce(conds[i].subs[j])

\* An engine drops nothing of a Cnd, and reads it of a row as cnd.go does.
Faithful(engine, conds, r) ==
  \A c \in AllConditions(conds) :
    IF engine = "sql" THEN c.logic # "BETWEEN2"
    ELSE /\ KeyedOnce(conds) /\ c.logic \notin Unsupported
         /\ c.logic \in {"NOT_EQ", "NOT_IN"} => Column(r, c.key) # Null

(***************************************************************************)
(* QuerySelects: whatever chain of calls built it, a Cnd that an engine    *)
(* accepts selects every row its conditions describe by the comments of    *)
(* cnd.go, and no other row when the engine drops no part of it: for MySQL *)
(* unless it holds InDate; for Mongo unless a key or an Or is repeated, a  *)
(* condition has no Mongo form or a <> or not in meets a null.  So the     *)
(* text of BuildWhereCase means what was built, with its parentheses and   *)
(* with each argument at its place, and so does the map of                 *)
(* buildMongoMatch.  FindOne gives the first of the rows in the order      *)
(* asked for, the writes by condition touch exactly these rows.            *)
(***************************************************************************)
QuerySelects ==
  ask.status = "ok" /\ cnd.from = "" =>
    LET meant == {r \in Table : Meant(cnd.conditions, r)}
        got == ToSet(ask.rows)
        faithful == {r \in Table : Faithful(ask.engine, cnd.conditions, r)}
    IN  /\ IF ask.op = "FindOne"
           THEN faithful = Table => got = {r \in meant : \A s \in meant \ {r} : Earlier(r, s, cnd.orders)}
           ELSE meant \subseteq got /\ got \cap faithful \subseteq meant
        /\ \A i, j \in DOMAIN ask.rows : i < j => Earlier(ask.rows[i], ask.rows[j], cnd.orders)

\* How often a row of the table is in the joined table: once for each choice
\* of partners, a left join counting no partner as one.  Rows without a row
\* of the table come from the last join that is not a left one.
TimesJoined(c, r) ==
  LET joins == JoinPart(c)
      partners == Cardinality({o \in Others : o.of = r.id})
      others == SelectSeq(joins, LAMBDA kind : kind # "LEFT")
  IN  IF r = NoRow
      THEN IF others # <<>> /\ Last(others) = "RIGHT"
           THEN Cardinality({o \in Others : \A s \in Table : o.of # s.id}) ELSE 0
      ELSE FoldLeft(LAMBDA n, kind : n * IF kind = "LEFT" /\ partners = 0 THEN 1 ELSE partners, 1, joins)
\* The rows a set of rows of the table stands for, after the group by.
Lines(c, rows) ==
  LET keys == ToSet(c.groupbys)
  IN  IF keys = {} THEN MapThenSumSet(LAMBDA r : TimesJoined(c, r), rows)
      ELSE Cardinality({[k \in keys |-> Column(r, k)] : r \in rows})
MeantLines(c) == {r \in Table \cup {NoRow} : Meant(c.conditions, r) /\ TimesJoined(c, r) > 0}
FirstLine(c) == IF c.page.isPage /\ ~c.page.isOffset THEN (c.page.no - 1) * c.page.size ELSE 0

(***************************************************************************)
(* ComplexSelects: whatever joins, groups, order, conditions (InDate set   *)
(* aside) and page it was built with, a Cnd accepted by FindListComplex    *)
(* gives each line of the joined and grouped tables that its conditions    *)
(* describe as often as it is there, the page being the lines at its       *)
(* places in the order asked for, and a page that is not empty tells how   *)
(* many lines and pages there are; FindOneComplex gives the first of them. *)
(***************************************************************************)
ComplexSelects ==
  LET kept == MeantLines(cnd)
      like(row) == {r \in kept : Filled(cnd, r) = row}
      last == IF cnd.page.isPage /\ FirstLine(cnd) + cnd.page.size < Lines(cnd, kept)
              THEN FirstLine(cnd) + cnd.page.size ELSE Lines(cnd, kept)
      ordered == {cnd.orders[i].key : i \in DOMAIN cnd.orders} \subseteq ToSet(cnd.fields)
  IN  ask.op \in {"FindListComplex", "FindOneComplex"} /\ ask.status = "ok"
        /\ (\A c \in AllConditions(cnd.conditions) : c.logic # "BETWEEN2") =>
      /\ Len(ask.rows) = Cardinality(FirstLine(cnd) + 1..last)
      /\ \A row \in ToSet(ask.rows) :
           Cardinality({i \in DOMAIN ask.rows : ask.rows[i] = row}) <= Lines(cnd, like(row))
      /\ ordered => \A i \in DOMAIN ask.rows :
           LET before == {r \in kept : Earlier(Filled(cnd, r), ask.rows[i], cnd.orders)}
               after == {r \in kept : Earlier(ask.rows[i], Filled(cnd, r), cnd.orders)}
           IN  /\ Lines(cnd, before) < FirstLine(cnd) + i
               /\ Lines(cnd, after) <= Lines(cnd, kept) - FirstLine(cnd) - i
      /\ ask.op = "FindListComplex" /\ cnd.page.isPage /\ ask.rows # <<>> =>
           /\ cnd.page.total = Lines(cnd, kept)
           /\ cnd.page.total \in (cnd.page.count - 1) * cnd.page.size + 1..cnd.page.count * cnd.page.size
=============================================================================

----------------------------- MODULE Conditions -----------------------------
(***************************************************************************)
(* The conditions of ormx/sqlc (cnd.go) and what the two engines of        *)
(* ormx/sqld make of them: the filter map of buildMongoMatch for Mongo,    *)
(* the ordering and the pages (module Query has the WHERE text for MySQL). *)
(*                                                                         *)
(* A row has an id and a column a that may be Null.  A value stands for    *)
(* the string of its digits as well, which is what LIKE and $regex look    *)
(* at.  The databases are external: MongoHolds says which values pass one  *)
(* of their tests.                                                         *)
(***************************************************************************)
EXTENDS Integers, Sequences, FiniteSets

CONSTANTS
  Table,            \* the rows of the table
  MaxPageSize,      \* 5000 in the code
  DefaultPageSize   \* 50 in the code

ASSUME TableAssumption ==
  /\ IsFiniteSet(Table)
  /\ \A r \in Table : r.id \in Nat \ {0} /\ r.a \in Nat
  /\ \A r, s \in Table : r.id = s.id => r = s
  /\ MaxPageSize \in Nat /\ DefaultPageSize \in 1..MaxPageSize

Null == 0
Nil == -1
Columns == {"id", "a"}
Column(r, key) == IF key = "id" THEN r.id ELSE r.a

-----------------------------------------------------------------------------
(* The builder. *)

Condition(logic, key, values, subs) ==
  [logic |-> logic, key |-> key, values |-> values, subs |-> subs]
NoPage == [no |-> 0, size |-> 0, isOffset |-> FALSE, isPage |-> FALSE, isFast |-> FALSE,
           sort |-> "", prev |-> 0, last |-> 0, sortParam |-> "", total |-> 0, count |-> 0]
M == [conditions |-> <<>>, orders |-> <<>>, page |-> NoPage, limitSize |-> 0]

addDefaultCondit(c, condit) == [c EXCEPT !.conditions = Append(@, condit)]

\* A nil argument leaves the Cnd as it is.
Compared(c, logic, key, v) ==
  IF v = Nil THEN c ELSE addDefaultCondit(c, Condition(logic, key, <<v>>, <<>>))
Liked(c, logic, key, v) ==
  IF v = Nil THEN c ELSE addDefaultCondit(c, Condition(logic, key, <<v>>, <<>>))
Nullness(c, logic, key) == addDefaultCondit(c, Condition(logic, key, <<>>, <<>>))
Ranged(c, logic, key, v1, v2) ==
  IF Nil \in {v1, v2} THEN c ELSE addDefaultCondit(c, Condition(logic, key, <<v1, v2>>, <<>>))
Listed(c, logic, key, vs) ==
  IF vs = <<>> THEN c ELSE addDefaultCondit(c, Condition(logic, key, vs, <<>>))
Or(c, parts) ==
  IF parts = <<>> THEN c ELSE addDefaultCondit(c, Condition("OR", "$or", <<>>, parts))
Orderby(c, key, dir) == [c EXCEPT !.orders = Append(@, [key |-> key, dir |-> dir])]

PageSize(size) == IF size <= 0 \/ size > MaxPageSize THEN DefaultPageSize ELSE size
Limit(c, no, size) ==
  [c EXCEPT !.page = [NoPage EXCEPT !.no = IF no <= 0 THEN 1 ELSE no, !.size = PageSize(size),
                                    !.isPage = TRUE]]
Offset(c, offset, limit) ==
  [c EXCEPT !.page = [NoPage EXCEPT !.no = IF offset <= 0 THEN 0 ELSE offset, !.size = PageSize(limit),
                                    !.isOffset = TRUE, !.isPage = TRUE]]
\* The key is the id; the caller asks for no count and gives a valid sort
\* (for another one, FindList panics).
FastPage(c, sort, prev, last, size) ==
  [c EXCEPT !.page = [NoPage EXCEPT !.size = PageSize(size), !.isFast = TRUE, !.sort = sort,
                                    !.prev = prev, !.last = last]]
ResultSize(c, size) == [c EXCEPT !.limitSize = PageSize(size)]

-----------------------------------------------------------------------------
(* MySQL. *)

BuildSortBy(c) == c.orders

\* GetLimitSql's offset and limit; no page, no limit clause.
BuildPagination(c) ==
  IF c.page.no = 0 /\ c.page.size = 0 THEN <<0, -1>>
  ELSE IF c.page.isOffset THEN <<c.page.no, c.page.size>>
  ELSE <<(c.page.no - 1) * c.page.size, c.page.size>>

-----------------------------------------------------------------------------
(* Mongo. *)

\* Three of the conditions are not supported.
Unsupported == {"IS_NOT_NULL", "NOT_BETWEEN", "NOT_LIKE"}
MongoOperator(logic) ==
  CASE logic = "EQ" -> "$eq" [] logic = "NOT_EQ" -> "$ne" [] logic = "LT" -> "$lt" [] logic = "LTE" -> "$lte"
    [] logic = "GT" -> "$gt" [] logic = "GTE" -> "$gte" [] logic = "IN" -> "$in" [] logic = "NOT_IN" -> "$nin"
    [] logic = "LIKE" -> "$regex"
Test(op, args) == [op |-> op, args |-> args]
\* What buildMongoMatch stores under a condition's key: a set of tests.  The
\* array of an Or holds the filters of its parts.
MongoForm(c) ==
  CASE c.logic = "IS_NULL" -> {Test("$eq", <<Null>>)}
    [] c.logic = "BETWEEN" -> {Test("$gte", <<c.values[1]>>), Test("$lte", <<c.values[2]>>)}
    [] c.logic = "BETWEEN2" -> {Test("$gte", <<c.values[1]>>), Test("$lt", <<c.values[2]>>)}
    [] c.logic = "OR" -> {Test("$or", c.subs)}
    [] OTHER -> {Test(MongoOperator(c.logic), c.values)}
\* The filter is a map: a later condition on a key replaces an earlier one,
\* a later Or an earlier Or.
Kept(conds) == {n \in DOMAIN conds : conds[n].logic \notin Unsupported}
LastOn(conds, key) ==
  CHOOSE n \in Kept(conds) :
    conds[n].key = key /\ \A m \in Kept(conds) : conds[m].key = key => m <= n
buildMongoMatch(conds) ==
  [key \in {conds[n].key : n \in Kept(conds)} |-> MongoForm(conds[LastOn(conds, key)])]

\* MongoDB's evaluation of a test on a field: $ne and $nin select a null.
HasText(x, v) == x = v \/ (v < 10 /\ x >= 10 /\ v \in {x % 10, x \div 10})
MongoHolds(x, test) ==
  LET v == test.args[1]
  IN  CASE test.op = "$eq" -> x = v
        [] test.op = "$ne" -> x # v
        [] test.op = "$in" -> \E i \in DOMAIN test.args : x = test.args[i]
        [] test.op = "$nin" -> \A i \in DOMAIN test.args : x # test.args[i]
        [] test.op = "$lt" -> x # Null /\ x < v
        [] test.op = "$lte" -> x # Null /\ x <= v
        [] test.op = "$gt" -> x # Null /\ x > v
        [] test.op = "$gte" -> x # Null /\ x >= v
        [] test.op = "$regex" -> x # Null /\ HasText(x, v)
MongoMatches(filter, r) ==
  \A key \in DOMAIN filter : \A test \in filter[key] : MongoHolds(Column(r, key), test)

\* The keys to update: the id is left out.
buildMongoUpset(keys) == keys \ {"id"}

\* A fast page is ordered by the id, then by the caller's other orders.
OtherOrders(orders) ==
  LET others == {i \in DOMAIN orders : orders[i].key # "id"}
  IN  [n \in 1..Cardinality(others) |->
         orders[CHOOSE i \in others : Cardinality({j \in others : j < i}) = n - 1]]
buildMongoSortBy(c) ==
  IF c.page.isFast
  THEN <<[key |-> "id", dir |-> IF c.page.sortParam = "DESC" THEN "DESC" ELSE "ASC"]>>
       \o OtherOrders(c.orders)
  ELSE c.orders

\* Skip and limit; a skip that is not positive is not set, nor is a limit.
buildMongoLimit(c) ==
  IF c.limitSize > 0 THEN <<0, c.limitSize>>
  ELSE IF c.page.no = 0 /\ c.page.size = 0 THEN <<0, -1>>
  ELSE IF c.page.isOffset THEN <<c.page.no, c.page.size>>
  ELSE <<(c.page.no - 1) * c.page.size, c.page.size>>

\* Faulty: the page starts with the row of the cursor.
FastCursorInclusive(c) ==
  LET p == c.page
      sized == ResultSize(c, p.size)
      fresh == IF p.prev = 0 /\ p.last = 0
               THEN [Orderby(sized, "id", p.sort) EXCEPT !.page.sortParam = p.sort] ELSE sized
      before == IF p.prev = 0 THEN fresh
                ELSE [Compared(fresh, IF p.sort = "DESC" THEN "GTE" ELSE "LTE", "id", p.prev)
                        EXCEPT !.page.sortParam = IF p.sort = "DESC" THEN "ASC" ELSE "DESC"]
  IN  IF p.last = 0 THEN before
      ELSE [Compared(before, IF p.sort = "DESC" THEN "LTE" ELSE "GTE", "id", p.last)
              EXCEPT !.page.sortParam = p.sort]
\* FindList adds to a fast page the condition and the order of its cursor.
FastCursor(c) ==
  LET p == c.page
      sized == ResultSize(c, p.size)
      fresh == IF p.prev = 0 /\ p.last = 0
               THEN [Orderby(sized, "id", p.sort) EXCEPT !.page.sortParam = p.sort] ELSE sized
      before == IF p.prev = 0 THEN fresh
                ELSE [Compared(fresh, IF p.sort = "DESC" THEN "GT" ELSE "LT", "id", p.prev)
                        EXCEPT !.page.sortParam = IF p.sort = "DESC" THEN "ASC" ELSE "DESC"]
  IN  IF p.last = 0 THEN before
      ELSE [Compared(before, IF p.sort = "DESC" THEN "LT" ELSE "GT", "id", p.last)
              EXCEPT !.page.sortParam = p.sort]

-----------------------------------------------------------------------------
(* Rows in an order, and a slice of them. *)

\* Equal rows come in the order of their ids, one of the orders an engine may give.
Earlier(r, s, orders) ==
  \/ \E i \in DOMAIN orders :
       /\ \A j \in 1..i - 1 : Column(r, orders[j].key) = Column(s, orders[j].key)
       /\ IF orders[i].dir = "DESC" THEN Column(r, orders[i].key) > Column(s, orders[i].key)
          ELSE Column(r, orders[i].key) < Column(s, orders[i].key)
  \/ (\A i \in DOMAIN orders : Column(r, orders[i].key) = Column(s, orders[i].key)) /\ r.id < s.id
Sorted(set, orders) ==
  [n \in 1..Cardinality(set) |->
     CHOOSE r \in set : Cardinality({s \in set : Earlier(s, r, orders)}) = n - 1]
Slice(seq, window) ==
  SubSeq(seq, window[1] + 1,
         IF window[2] < 0 \/ window[1] + window[2] > Len(seq) THEN Len(seq) ELSE window[1] + window[2])

\* What a find returns of the rows that its conditions select.
SqlRows(c, selected) == Slice(Sorted(selected, BuildSortBy(c)), BuildPagination(c))
MongoRows(c, selected) == Slice(Sorted(selected, buildMongoSortBy(c)), buildMongoLimit(c))

\* The totals Count leaves in the page.
Counted(c, n) ==
  [c EXCEPT !.page.total = n,
            !.page.count = IF n > 0 /\ c.page.size > 0
                           THEN (n + c.page.size - 1) \div c.page.size ELSE 0]
=============================================================================

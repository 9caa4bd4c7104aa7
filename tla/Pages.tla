------------------------------- MODULE Pages --------------------------------
(***************************************************************************)
(* A caller walks through a table page by page, by number in MySQL or      *)
(* Mongo or with the fast pages of Mongo (FindList of ormx/sqld), while    *)
(* rows come and go between two pages.  It makes a fresh Cnd for every     *)
(* page, and that has no Or.                                               *)
(***************************************************************************)
EXTENDS Conditions

CONSTANTS
  PageSizes,        \* the page sizes asked for
  MaxChanges        \* bound on the rows that come and go during a walk

ASSUME PagesAssumption == PageSizes \subseteq Int /\ MaxChanges \in Nat

VARIABLES
  rows,    \* the rows of the table that exist
  walk,    \* the walk: its page, all it has shown, the rows that stayed
  changes  \* the rows that came and went

pageVars == <<rows, walk, changes>>

NoWalk == [pc |-> "none", kind |-> "", sort |-> "", size |-> 0, page |-> <<>>, shown |-> <<>>,
           steady |-> {}, no |-> 0, count |-> 0]

InitPages ==
  /\ rows = Table
  /\ \E kind \in {"fast", "sql", "mongo"}, sort \in {"ASC", "DESC"}, size \in PageSizes :
       walk = [NoWalk EXCEPT !.pc = "first", !.kind = kind, !.sort = sort,
                             !.size = size, !.steady = Table]
  /\ changes = 0
IdlePages == rows = {} /\ walk = NoWalk /\ changes = 0

-----------------------------------------------------------------------------
(* A walk: a fresh Cnd for every page. *)

\* The Cnd of a page by number has no conditions.
Fetched(c) ==
  IF walk.kind = "sql" THEN SqlRows(c, rows)
  ELSE MongoRows(c, {r \in rows : MongoMatches(buildMongoMatch(c.conditions), r)})
Show(page, more) ==
  /\ walk' = [walk EXCEPT !.page = page, !.shown = @ \o page, !.no = @ + 1, !.count = more,
                          !.pc = IF walk.kind = "fast"
                                 THEN IF Len(page) < PageSize(walk.size) THEN "end" ELSE "on"
                                 ELSE IF walk.no + 1 >= more THEN "end" ELSE "on"]
  /\ UNCHANGED <<rows, changes>>

\* A page by number: FindList counts the rows first, then reads the page.
\* The two queries are one step: a row that comes or goes between them is a
\* change like one between two pages, and numbered pages promise nothing
\* then.  Mongo's count without conditions is an estimate; it is exact here.
NumberedPage ==
  /\ walk.kind \in {"sql", "mongo"} /\ walk.pc \in {"first", "on"}
  /\ LET c == Counted(Orderby(Limit(M, walk.no + 1, walk.size), "id", walk.sort), Cardinality(rows))
     IN  Show(Fetched(c), c.page.count)

FastFirstPage ==
  /\ walk.kind = "fast" /\ walk.pc = "first"
  /\ Show(Fetched(FastCursor(FastPage(M, walk.sort, 0, 0, walk.size))), 0)
FastNextPage ==
  /\ walk.kind = "fast" /\ walk.pc = "on"
  /\ Show(Fetched(FastCursor(FastPage(M, walk.sort, 0, walk.page[Len(walk.page)].id, walk.size))), 0)
\* Back from the page that is shown; the walk ends with it.
FastPrevPage ==
  /\ walk.kind = "fast" /\ walk.pc = "on"
  /\ LET page == Fetched(FastCursor(FastPage(M, walk.sort, walk.page[1].id, 0, walk.size)))
     IN  walk' = [walk EXCEPT !.pc = "back", !.no = walk.page[1].id, !.page = page]
  /\ UNCHANGED <<rows, changes>>

RowGoes == \E r \in rows :
  /\ walk.pc = "on" /\ changes < MaxChanges
  /\ rows' = rows \ {r}
  /\ walk' = [walk EXCEPT !.steady = @ \ {r}]
  /\ changes' = changes + 1
RowComes == \E r \in Table \ rows :
  /\ walk.pc = "on" /\ changes < MaxChanges
  /\ rows' = rows \cup {r}
  /\ changes' = changes + 1
  /\ UNCHANGED walk

NextPages ==
  NumberedPage \/ FastFirstPage \/ FastNextPage \/ FastPrevPage \/ RowGoes \/ RowComes
Walking == InitPages /\ [][NextPages]_pageVars

-----------------------------------------------------------------------------
(***************************************************************************)
(* PagesVisitAll: a walk through fast pages shows every row that is there  *)
(* from its start to its end exactly once and in order, even when other    *)
(* rows come and go between two pages; a page back holds the rows nearest  *)
(* before the page shown; and numbered pages do so when no row comes or    *)
(* goes, not between count and page either, PageCount being where the walk *)
(* ends, in both engines.                                                  *)
(***************************************************************************)
PagesVisitAll ==
  LET order == <<[key |-> "id", dir |-> walk.sort]>>
      shown == {walk.shown[i] : i \in DOMAIN walk.shown}
      before == {r \in rows : IF walk.sort = "DESC" THEN r.id > walk.no ELSE r.id < walk.no}
      back == {walk.page[i] : i \in DOMAIN walk.page}
  IN  (walk.kind = "fast" \/ changes = 0) =>
        /\ walk.pc = "end" => walk.steady \subseteq shown
        /\ \A i, j \in DOMAIN walk.shown : i < j => Earlier(walk.shown[i], walk.shown[j], order)
        /\ walk.pc = "back" =>
             /\ back \subseteq before
             /\ Cardinality(back) = IF Cardinality(before) < PageSize(walk.size)
                                    THEN Cardinality(before) ELSE PageSize(walk.size)
             /\ \A r \in back, s \in before \ back : Earlier(s, r, order)
=============================================================================

---------------------------- MODULE HttpNodeProofs ----------------------------
(***************************************************************************)
(* Proofs about HttpNode and GracefulListener, for any requests, contexts, *)
(* messages, registered filters, connections and callers of Close.         *)
(***************************************************************************)
EXTENDS HttpNode, GracefulListener, FiniteSetTheorems, TLAPS

(* The contexts of two requests on their way differ, and neither lies in   *)
(* the pool.                                                               *)
Active(r) == rq[r].pc \notin {"idle", "done"}

Exclusive ==
    \A r \in Requests : Active(r) =>
        /\ rq[r].c \in Contexts /\ rq[r].c \notin pool
        /\ rq[r].msg \in Messages
        /\ \A q \in Requests : Active(q) /\ rq[q].c = rq[r].c => q = r

NotStarted == \A r \in Requests : rq[r].pc = "idle" => rq[r] = idleRequest

(* Where the chain has the filter of that name.                            *)
NamedFilter(name) == CHOOSE f \in FilterMap : f.name = name
At(name) == Cardinality(Before(NamedFilter(name))) + 1

(* What the request r finds in its Context k, m being its message: only    *)
(* what it has put there itself.                                           *)
OwnContext(r, k, m) ==
    /\ k.route = m.route
    /\ {k.data, k.token, k.payload, k.sub, k.code, k.entity} \subseteq {Nobody, r}
    /\ k.out = <<>>
    /\ k.token = r => m.route.post
    /\ k.entity = r => m.route.guest \/ m.route.rsa \/ k.token = r

Signed(m) ==
    /\ m.route.post /\ ~m.route.guest
    /\ m.route.aesReq => m.plan = 1
    /\ IF m.route.rsa THEN m.signed = "server" ELSE m.signed = "token"

(* What the filters that the request has passed have established.          *)
Passed(r, x, k, m) ==
    /\ x.pc # "render" => k.entity = Nobody
    /\ x.pc \in {"exists", "put"} => Signed(m) /\ k.pos <= At("Session")
    /\ x.pc = "chain" /\ k.pos > At("Parameter") /\ m.route.post /\ ~m.route.guest =>
         Signed(m) /\ (m.route.rsa => m.plan = 2)
    /\ x.pc = "chain" /\ k.pos > At("Session") /\ ~m.route.rsa /\ ~m.route.guest =>
         /\ k.token = r /\ m.token \in {"anon", "user"}
         /\ m.token = "user" => k.sub = r
    /\ x.pc = "chain" /\ k.pos > At("Role") /\ k.sub = r /\ m.route.need # <<>> =>
         RoleAccess(m.route.need, m.has, m.route.all)

(* What the request leaves behind: it was handled under these conditions   *)
(* and as this subject.                                                    *)
Admitted(m) ==
    \/ m.route.guest
    \/ m.route.rsa /\ (m.route.post => m.signed = "server" /\ m.plan = 2)
    \/ /\ Signed(m) /\ ~m.route.rsa /\ m.token \in {"anon", "user"}
       /\ m.token = "user" /\ m.route.need # <<>> =>
            RoleAccess(m.route.need, m.has, m.route.all)

History(r, x) ==
    /\ x.handled => x.msg \in Messages /\ Admitted(x.msg)
    /\ x.as \in {Nobody, r}

OwnAnswer(r, a) ==
    /\ Len(a.out) <= 1
    /\ \A p \in Range(a.out) :
         /\ p.of \in {Nobody, r}
         /\ p.how \in {"code", "aes", "token"} => p.by = r

RequestOK(r, x, k) == OwnContext(r, k, x.msg) /\ Passed(r, x, k, x.msg)

PipelineInv ==
    /\ Exclusive
    /\ NotStarted
    /\ \A r \in Requests :
         /\ Active(r) => RequestOK(r, rq[r], ctx[rq[r].c])
         /\ History(r, rq[r])
         /\ answer[r] # Nobody => OwnAnswer(r, answer[r])

(* A message whose Put was done is in the cache for as long as it is       *)
(* valid, because it was valid when it was put there.                      *)
ReplayInv ==
    \A r \in Requests :
        /\ rq[r].pc \in {"exists", "put"} => now >= Msg(r).time - Window
        /\ rq[r].entered => rq[r].msg \in Messages /\ seen[Msg(r)] >= Msg(r).time + Window
        /\ \A q \in rq[r].before :
             /\ rq[q].entered
             /\ SharedCache /\ Msg(q) = Msg(r) => rq[r].looked >= Msg(r).time + Window

IInv == TypeOK /\ PipelineInv /\ ReplayInv

-----------------------------------------------------------------------------
(* The filter chain.                                                       *)

(* The built-in and the registered filters are finitely many.              *)
LEMMA FiltersFinite == IsFiniteSet(Filters)
<1> DEFINE f(n, o) == [name |-> n, order |-> o, tie |-> 0]
           A == {f("Gateway", -100)}
           B == A \cup {f("Parameter", -90)}
           C == B \cup {f("Session", -80)}
           D == C \cup {f("UserRate", -70)}
           E == D \cup {f("Role", -60)}
           F == E \cup {f("Post", MaxInt)}
           G == F \cup {f("Render", MinInt)}
<1>1. FilterMap = G
  BY DEF FilterMap
<1> HIDE DEF f
<1>2. IsFiniteSet(A)
  BY FS_Singleton
<1>3. IsFiniteSet(B)
  BY <1>2, FS_AddElement
<1>4. IsFiniteSet(C)
  BY <1>3, FS_AddElement
<1>5. IsFiniteSet(D)
  BY <1>4, FS_AddElement
<1>6. IsFiniteSet(E)
  BY <1>5, FS_AddElement
<1>7. IsFiniteSet(F)
  BY <1>6, FS_AddElement
<1>8. IsFiniteSet(G)
  BY <1>7, FS_AddElement
<1> QED
  BY <1>1, <1>8, FS_Union, FiltersAssumption DEF Filters

(* Orders are numbers.                                                     *)
LEMMA OrderTypes == \A f \in Filters : f.order \in Int /\ f.tie \in Int
  BY FiltersAssumption DEF Filters, FilterMap, MinInt, MaxInt

(* Of two filters one comes before the other, and then its rank is lower.  *)
LEMMA RankIncreases ==
    ASSUME NEW f \in Filters, NEW g \in Filters, f \in Before(g)
    PROVE  Cardinality(Before(f)) < Cardinality(Before(g))
<1>1. Before(f) \subseteq Before(g) /\ f \notin Before(f)
  BY OrderTypes DEF Before
<1>2. IsFiniteSet(Before(g)) /\ IsFiniteSet(Before(f))
  BY FiltersFinite, FS_Subset DEF Before
<1>3. /\ Cardinality(Before(f)) \in Nat /\ Cardinality(Before(g)) \in Nat
      /\ Cardinality(Before(f)) <= Cardinality(Before(g))
      /\ Cardinality(Before(g)) = Cardinality(Before(f)) => Before(g) = Before(f)
  BY <1>1, <1>2, FS_Subset, FS_CardinalityType
<1> QED
  BY <1>1, <1>3

(* The ranks are the numbers below the number of filters, each once.       *)
LEMMA Ranks ==
    /\ Cardinality(Filters) \in Nat
    /\ \A f \in Filters : Cardinality(Before(f)) + 1 \in 1 .. Cardinality(Filters)
    /\ \A f, g \in Filters : Cardinality(Before(f)) = Cardinality(Before(g)) => f = g
    /\ \A i \in 1 .. Cardinality(Filters) : \E f \in Filters : Cardinality(Before(f)) + 1 = i
<1> DEFINE N == Cardinality(Filters)
           rank == [f \in Filters |-> Cardinality(Before(f)) + 1]
<1>1. N \in Nat
  BY FiltersFinite, FS_CardinalityType
<1>2. ASSUME NEW f \in Filters
      PROVE  Cardinality(Before(f)) \in Nat /\ Cardinality(Before(f)) + 1 \in 1 .. N
  <2>1. Before(f) \in SUBSET (Filters \ {f})
    BY OrderTypes DEF Before
  <2>2. IsFiniteSet(Filters \ {f}) /\ Cardinality(Filters \ {f}) = N - 1
    BY FiltersFinite, FS_RemoveElement
  <2>3. IsFiniteSet(Before(f)) /\ Cardinality(Before(f)) <= N - 1
    BY <2>1, <2>2, FS_Subset
  <2>4. Cardinality(Before(f)) \in Nat
    BY <2>3, FS_CardinalityType
  <2> QED
    BY <1>1, <2>3, <2>4
<1>3. ASSUME NEW f \in Filters, NEW g \in Filters, Cardinality(Before(f)) = Cardinality(Before(g))
      PROVE  f = g
  <2>1. f \notin Before(g) /\ g \notin Before(f)
    BY <1>2, <1>3, RankIncreases
  <2>2. f.order = g.order /\ f.tie = g.tie
    BY <2>1, OrderTypes DEF Before
  <2> QED
    BY <2>2, FiltersAssumption
<1>4. rank \in Injection(Filters, 1 .. N)
  BY <1>2, <1>3 DEF Injection, IsInjective
<1>5. IsFiniteSet(1 .. N) /\ Cardinality(1 .. N) = N
  BY <1>1, FS_Interval
<1>6. rank \in Surjection(Filters, 1 .. N)
  BY <1>4, <1>5, FS_Injection
<1>7. \A i \in 1 .. N : \E f \in Filters : Cardinality(Before(f)) + 1 = i
  BY <1>6 DEF Surjection
<1> QED
  BY <1>1, <1>2, <1>3, <1>7

(* createFilterChain holds every filter once, by rank.                     *)
LEMMA Chain ==
    /\ Len(createFilterChain) = Cardinality(Filters) /\ Len(createFilterChain) \in Nat
    /\ \A i \in 1 .. Len(createFilterChain) :
         /\ createFilterChain[i] \in Filters
         /\ Cardinality(Before(createFilterChain[i])) = i - 1
    /\ \A f \in Filters :
         /\ Cardinality(Before(f)) + 1 \in 1 .. Len(createFilterChain)
         /\ createFilterChain[Cardinality(Before(f)) + 1] = f
<1> DEFINE N == Cardinality(Filters)
           At1(i) == CHOOSE f \in Filters : Cardinality(Before(f)) = i - 1
<1>1. N \in Nat
  BY Ranks
<1>2. ASSUME NEW i \in 1 .. N
      PROVE  At1(i) \in Filters /\ Cardinality(Before(At1(i))) = i - 1
  <2>1. PICK f \in Filters : Cardinality(Before(f)) + 1 = i
    BY Ranks
  <2>2. Cardinality(Before(f)) \in Int
    BY FiltersFinite, FS_Subset, FS_CardinalityType DEF Before
  <2>3. Cardinality(Before(f)) = i - 1
    BY <2>1, <2>2
  <2> QED
    BY <2>3
<1>3. createFilterChain = [i \in 1 .. N |-> At1(i)]
  BY DEF createFilterChain
<1> HIDE DEF At1
<1>4. createFilterChain \in Seq(Filters)
  BY <1>1, <1>2, <1>3
<1>5. Len(createFilterChain) = N
  BY <1>1, <1>3, <1>4
<1>6. ASSUME NEW f \in Filters
      PROVE  createFilterChain[Cardinality(Before(f)) + 1] = f
  <2>1. Cardinality(Before(f)) + 1 \in 1 .. N
    BY Ranks
  <2>2. Cardinality(Before(f)) \in Int
    BY FiltersFinite, FS_Subset, FS_CardinalityType DEF Before
  <2>3. Cardinality(Before(At1(Cardinality(Before(f)) + 1))) = Cardinality(Before(f))
    BY <1>2, <2>1, <2>2
  <2> QED
    BY <1>2, <1>3, <2>1, <2>3, Ranks
<1> QED
  BY <1>1, <1>2, <1>3, <1>5, <1>6, Ranks

(* The filters of the node itself that do something, in their order: At is *)
(* where the chain has them, whatever else is registered.                  *)
LEMMA Positions ==
    /\ At("Parameter") \in 1 .. Len(createFilterChain) /\ At("Session") \in 1 .. Len(createFilterChain)
    /\ At("Role") \in 1 .. Len(createFilterChain) /\ At("Post") \in 1 .. Len(createFilterChain)
    /\ At("Parameter") < At("Session") /\ At("Session") < At("Role") /\ At("Role") < At("Post")
    /\ ~PassThrough(At("Parameter")) /\ ~PassThrough(At("Session")) /\ ~PassThrough(At("Role"))
    /\ \A n \in {"Parameter", "Session", "Role", "Post"}, i \in 1 .. Len(createFilterChain) :
         createFilterChain[i].name = n => i = At(n)
    /\ \A e \in ExtFilters, n \in {"Parameter", "Session", "Role", "Post"} :
         createFilterChain[At(n)].name # e.name
<1> DEFINE f(n) == NamedFilter(n)
           Names == {"Parameter", "Session", "Role", "Post"}
<1>1. /\ f("Parameter") = [name |-> "Parameter", order |-> -90, tie |-> 0]
      /\ f("Session") = [name |-> "Session", order |-> -80, tie |-> 0]
      /\ f("Role") = [name |-> "Role", order |-> -60, tie |-> 0]
      /\ f("Post") = [name |-> "Post", order |-> MaxInt, tie |-> 0]
  BY DEF NamedFilter, FilterMap
<1>2. \A n \in Names : f(n) \in FilterMap /\ f(n) \in Filters /\ f(n).name = n
  BY <1>1 DEF FilterMap, Filters
<1>3. /\ f("Parameter") \in Before(f("Session"))
      /\ f("Session") \in Before(f("Role"))
      /\ f("Role") \in Before(f("Post"))
  BY <1>1, <1>2 DEF Before, MaxInt
<1> HIDE DEF f
<1>4. \A n \in Names : At(n) = Cardinality(Before(f(n))) + 1
  BY DEF At, f
<1>5. \A n \in Names : At(n) \in 1 .. Len(createFilterChain) /\ createFilterChain[At(n)] = f(n)
  BY <1>2, <1>4, Chain
<1>6. \A n \in Names : Cardinality(Before(f(n))) \in Int
  BY <1>2, FiltersFinite, FS_Subset, FS_CardinalityType DEF Before
<1>7. At("Parameter") < At("Session") /\ At("Session") < At("Role") /\ At("Role") < At("Post")
  BY <1>2, <1>3, <1>4, <1>6, RankIncreases
<1>8. ASSUME NEW n \in Names, NEW i \in 1 .. Len(createFilterChain), createFilterChain[i].name = n
      PROVE  i = At(n)
  <2>1. createFilterChain[i] = f(n)
    BY <1>2, <1>8, Chain, FiltersAssumption
  <2>2. Cardinality(Before(f(n))) = i - 1
    BY <2>1, Chain
  <2> QED
    BY <2>2, <1>4, <1>6, Chain
<1>9. \A n \in Names : createFilterChain[At(n)].name = n
  BY <1>2, <1>5
<1>10. ~PassThrough(At("Parameter")) /\ ~PassThrough(At("Session")) /\ ~PassThrough(At("Role"))
  BY <1>9 DEF PassThrough
<1>11. \A e \in ExtFilters, n \in Names : createFilterChain[At(n)].name # e.name
  BY <1>2, <1>5, FiltersAssumption
<1> QED
  BY <1>5, <1>7, <1>8, <1>10, <1>11

(* A set of naturals that is not empty has a least element.                *)
LEMMA LeastNatural ==
    ASSUME NEW S \in SUBSET Nat, S # {}
    PROVE  Min(S) \in S /\ \A y \in S : Min(S) <= y
<1> DEFINE R == OpToRel(<, Nat)
<1>1. \E x \in S : \A y \in S : ~(<<y, x>> \in R)
  BY NatLessThanWellFounded, WFMin
<1>2. \A x, y \in Nat : <<y, x>> \in R <=> y < x
  BY DEF OpToRel
<1> HIDE DEF R
<1>3. PICK x \in S : \A y \in S : ~(<<y, x>> \in R)
  BY <1>1
<1>4. ASSUME NEW y \in S PROVE x <= y
  <2>1. x \in Nat /\ y \in Nat /\ ~(<<y, x>> \in R)
    BY <1>3
  <2>2. ~(y < x)
    BY <1>2, <2>1
  <2> QED
    BY <2>1, <2>2
<1> QED
  BY <1>4 DEF Min

(* chain.DoFilter goes forward and jumps over no filter with work to do.   *)
LEMMA FollowingIsNext ==
    ASSUME NEW p \in 0 .. Len(createFilterChain)
    PROVE  /\ Following(p) \in 1 .. (Len(createFilterChain) + 1)
           /\ Following(p) > p
           /\ \A k \in 1 .. Len(createFilterChain) :
                ~PassThrough(k) /\ p < k => Following(p) <= k
<1> DEFINE N == Len(createFilterChain)
           S == { i \in (p + 1) .. N : ~PassThrough(i) } \cup {N + 1}
<1>1. N \in Nat
  BY Chain
<1>2. S \in SUBSET Nat /\ S # {} /\ \A i \in S : i > p /\ i \in 1 .. (N + 1)
  BY <1>1
<1>3. Min(S) \in S /\ \A y \in S : Min(S) <= y
  BY <1>2, LeastNatural
<1>4. Following(p) = Min(S)
  BY DEF Following
<1>5. \A k \in 1 .. N : ~PassThrough(k) /\ p < k => k \in S
  BY <1>1
<1> QED
  BY <1>2, <1>3, <1>4, <1>5

(* A request gets past a filter that works only by being at it.            *)
LEMMA NotSkipped ==
    ASSUME NEW p \in 0 .. Len(createFilterChain), NEW n \in {"Parameter", "Session", "Role"},
           p # At(n), Following(p) > At(n)
    PROVE  p > At(n)
<1>1. At(n) \in 1 .. Len(createFilterChain) /\ ~PassThrough(At(n))
  BY Positions
<1>2. Following(p) \in Int /\ (p < At(n) => Following(p) <= At(n))
  BY <1>1, FollowingIsNext
<1>3. Len(createFilterChain) \in Nat
  BY Chain
<1> QED
  BY <1>1, <1>2, <1>3

-----------------------------------------------------------------------------
(* Steps of one request.                                                   *)

(* What calling the chain does to a Context, and returning to a request.   *)
PassedOn(k) == [k EXCEPT !.pos = Following(@)]
Returned(x, e) == [x EXCEPT !.pc = "render", !.err = e]

(* Return in terms of the request alone.                                   *)
LEMMA ReturnIs ==
    ASSUME TypeOK, NEW r \in Requests, NEW e \in Errors
    PROVE  /\ Return(r, e) = [rq EXCEPT ![r] = Returned(rq[r], e)]
           /\ Returned(rq[r], e) \in RequestType
           /\ Returned(rq[r], e).pc = "render"
           /\ Returned(rq[r], e).c = rq[r].c
           /\ Returned(rq[r], e).msg = rq[r].msg
           /\ Returned(rq[r], e).handled = rq[r].handled
           /\ Returned(rq[r], e).as = rq[r].as
           /\ Returned(rq[r], e).entered = rq[r].entered
           /\ Returned(rq[r], e).before = rq[r].before
           /\ Returned(rq[r], e).looked = rq[r].looked
<1>1. rq[r] \in RequestType /\ rq \in [Requests -> RequestType]
  BY DEF TypeOK
<1>2. Return(r, e) = [rq EXCEPT ![r] = Returned(rq[r], e)]
  BY <1>1 DEF Return, Returned
<1>3. Returned(rq[r], e) \in RequestType
  <2>1. "render" \in Stages
    BY DEF Stages
  <2> QED
    BY <1>1, <2>1 DEF RequestType, Returned
<1> QED
  BY <1>1, <1>2, <1>3 DEF RequestType, Returned

(* PassedOn moves a Context forward and leaves its other fields.           *)
LEMMA PassedOnIs ==
    ASSUME NEW k \in ContextType, k.pos \in 0 .. Len(createFilterChain)
    PROVE  /\ PassedOn(k) \in ContextType
           /\ PassedOn(k) = [k EXCEPT !.pos = Following(k.pos)]
           /\ Following(k.pos) \in Places
<1>1. Following(k.pos) \in Places
  BY FollowingIsNext DEF Places
<1>2. PassedOn(k) = [k EXCEPT !.pos = Following(k.pos)]
  BY DEF PassedOn
<1>3. [k EXCEPT !.pos = Following(k.pos)] \in ContextType
  BY <1>1 DEF ContextType
<1> QED
  BY <1>1, <1>2, <1>3

(* The Context after chain.DoFilter.                                       *)
LEMMA PassIs ==
    ASSUME TypeOK, NEW r \in Requests, rq[r].c \in Contexts,
           ctx[rq[r].c].pos <= Len(createFilterChain)
    PROVE  LET k == ctx[rq[r].c] IN
           /\ Pass(r) = [ctx EXCEPT ![rq[r].c] = PassedOn(k)]
           /\ PassedOn(k) \in ContextType
           /\ PassedOn(k) = [k EXCEPT !.pos = Following(k.pos)]
           /\ Following(k.pos) \in Places
<1> DEFINE k == ctx[rq[r].c]
<1>1. k \in ContextType /\ k.pos \in 0 .. Len(createFilterChain)
  BY Chain DEF TypeOK, ContextType, Places
<1>2. Pass(r) = [ctx EXCEPT ![rq[r].c] = PassedOn(k)]
  BY DEF TypeOK, Pass, PassedOn
<1> QED
  BY <1>1, <1>2, PassedOnIs

(* A step by which an active request changes nothing but itself and its    *)
(* own Context preserves what the others have established.                 *)
LEMMA RequestStep ==
    ASSUME TypeOK, PipelineInv, NEW r \in Requests, Active(r),
           NEW x \in RequestType, NEW k \in ContextType,
           rq' = [rq EXCEPT ![r] = x], ctx' = [ctx EXCEPT ![rq[r].c] = k],
           x.c = rq[r].c, x.pc \notin {"idle", "done"}, x.msg = rq[r].msg,
           RequestOK(r, x, k), History(r, x),
           UNCHANGED <<remote, now, pool, answer>>,
           seen' \in [Messages -> 0..(MaxTime + ReplayTTL)]
    PROVE  TypeOK' /\ PipelineInv'
<1>1. TypeOK'
  BY DEF TypeOK
<1>2. rq'[r] = x /\ \A q \in Requests : q # r => rq'[q] = rq[q]
  BY DEF TypeOK
<1>3. rq[r].c \in Contexts /\ ctx'[rq[r].c] = k
  BY DEF TypeOK, PipelineInv, Exclusive
<1>4. \A q \in Requests : q # r /\ Active(q) => ctx'[rq[q].c] = ctx[rq[q].c]
  BY <1>3 DEF TypeOK, PipelineInv, Exclusive
<1>5. \A q \in Requests : Active(q)' <=> Active(q)
  BY <1>2 DEF Active
<1>6. Exclusive'
  BY <1>2, <1>5 DEF PipelineInv, Exclusive
<1>7. NotStarted'
  BY <1>2 DEF PipelineInv, NotStarted
<1>8. ASSUME NEW q \in Requests
      PROVE  /\ Active(q)' => RequestOK(q, rq'[q], ctx'[rq'[q].c])
             /\ History(q, rq'[q])
             /\ answer'[q] # Nobody => OwnAnswer(q, answer'[q])
  <2>1. CASE q = r
    BY <1>2, <1>3, <2>1 DEF PipelineInv
  <2>2. CASE q # r
    BY <1>2, <1>4, <1>5, <2>2 DEF PipelineInv
  <2> QED
    BY <2>1, <2>2
<1> QED
  BY <1>1, <1>6, <1>7, <1>8 DEF PipelineInv

(* A filter at work: the request is in the chain, at that filter.          *)
LEMMA AtFilterIs ==
    ASSUME TypeOK, PipelineInv, NEW r \in Requests, NEW name, AtFilter(r, name)
    PROVE  /\ Active(r) /\ rq[r].pc = "chain" /\ rq[r].c \in Contexts /\ rq[r].msg \in Messages
           /\ ctx[rq[r].c] \in ContextType /\ rq[r] \in RequestType
           /\ ctx[rq[r].c].pos \in 1 .. Len(createFilterChain)
           /\ createFilterChain[ctx[rq[r].c].pos].name = name
           /\ name \in {"Parameter", "Session", "Role", "Post"} => ctx[rq[r].c].pos = At(name)
           /\ RequestOK(r, rq[r], ctx[rq[r].c])
           /\ History(r, rq[r])
<1>1. Active(r) /\ rq[r].pc = "chain"
  BY DEF AtFilter, Active
<1>2. rq[r].c \in Contexts /\ rq[r].msg \in Messages
  BY <1>1 DEF PipelineInv, Exclusive
<1>3. ctx[rq[r].c] \in ContextType /\ rq[r] \in RequestType
  BY <1>2 DEF TypeOK
<1>4. ctx[rq[r].c].pos \in 1 .. Len(createFilterChain)
  BY <1>3, Chain DEF AtFilter, ContextType, Places
<1>5. createFilterChain[ctx[rq[r].c].pos].name = name
  BY DEF AtFilter
<1>6. name \in {"Parameter", "Session", "Role", "Post"} => ctx[rq[r].c].pos = At(name)
  BY <1>4, <1>5, Positions
<1> QED
  BY <1>1, <1>2, <1>3, <1>4, <1>5, <1>6 DEF PipelineInv

(* The step ExtFilter preserves the invariant.                             *)
LEMMA ExtFilterPreserves ==
    ASSUME TypeOK, PipelineInv, NEW r \in Requests, ExtFilter(r)
    PROVE  TypeOK' /\ PipelineInv'
<1> DEFINE k == ctx[rq[r].c]
           m == rq[r].msg
<1>1. PICK f \in ExtFilters : AtFilter(r, f.name)
  BY DEF ExtFilter
<1>2. /\ Active(r) /\ rq[r].pc = "chain" /\ rq[r].c \in Contexts /\ m \in Messages
      /\ k \in ContextType /\ rq[r] \in RequestType
      /\ k.pos \in 1 .. Len(createFilterChain)
      /\ createFilterChain[k.pos].name = f.name
      /\ RequestOK(r, rq[r], k) /\ History(r, rq[r])
  BY <1>1, AtFilterIs
<1>3. k.pos \notin {At("Parameter"), At("Session"), At("Role"), At("Post")}
  BY <1>2, Positions
<1>4. /\ ctx' = [ctx EXCEPT ![rq[r].c] = PassedOn(k)]
      /\ PassedOn(k) \in ContextType
      /\ PassedOn(k) = [k EXCEPT !.pos = Following(k.pos)]
      /\ Following(k.pos) \in Places
  <2>1. k.pos <= Len(createFilterChain) /\ ctx' = Pass(r)
    BY <1>2, Chain DEF ExtFilter
  <2> QED
    BY <1>2, <2>1, PassIs
<1>5. \A n \in {"Parameter", "Session", "Role"} : Following(k.pos) > At(n) => k.pos > At(n)
  BY <1>2, <1>3, NotSkipped
<1>6. OwnContext(r, PassedOn(k), m)
  <2> HIDE DEF k
  <2>1. /\ PassedOn(k).route = k.route /\ PassedOn(k).data = k.data /\ PassedOn(k).token = k.token
        /\ PassedOn(k).payload = k.payload /\ PassedOn(k).sub = k.sub
        /\ PassedOn(k).code = k.code /\ PassedOn(k).entity = k.entity /\ PassedOn(k).out = k.out
    BY <1>2, <1>4 DEF ContextType
  <2> QED
    BY <1>2, <2>1 DEF RequestOK, OwnContext
<1>7. CASE rq' = rq
  <2>1. Passed(r, rq[r], PassedOn(k), m)
    <3>1. /\ PassedOn(k).pos = Following(k.pos) /\ PassedOn(k).token = k.token
          /\ PassedOn(k).sub = k.sub /\ PassedOn(k).entity = k.entity
      BY <1>2, <1>4 DEF ContextType
    <3>2. Passed(r, rq[r], k, m) /\ rq[r].pc = "chain"
      BY <1>2 DEF RequestOK
    <3> QED
      BY <1>5, <3>1, <3>2 DEF Passed
  <2>2. rq' = [rq EXCEPT ![r] = rq[r]]
    BY <1>7 DEF TypeOK
  <2> QED
    BY <1>2, <1>4, <1>6, <2>1, <2>2, RequestStep DEF ExtFilter, RequestOK, TypeOK, Active
<1>8. ASSUME NEW e \in {0, 400}, rq' = Return(r, e)
      PROVE  TypeOK' /\ PipelineInv'
  <2> DEFINE x == Returned(rq[r], e)
  <2>0. e \in Errors
    BY DEF Errors
  <2>1. /\ rq' = [rq EXCEPT ![r] = x] /\ x \in RequestType /\ x.pc = "render"
        /\ x.c = rq[r].c /\ x.msg = m /\ x.handled = rq[r].handled /\ x.as = rq[r].as
    BY <1>8, <2>0, ReturnIs
  <2> HIDE DEF x
  <2>2. RequestOK(r, x, PassedOn(k)) /\ History(r, x)
    BY <1>2, <1>6, <2>1 DEF RequestOK, Passed, History
  <2> QED
    BY <1>2, <1>4, <2>1, <2>2, RequestStep, ZenonT(120) DEF ExtFilter, TypeOK
<1> QED
  BY <1>7, <1>8 DEF ExtFilter

(* A filter that returns to RenderHandleFilter leaves the Context its own. *)
LEMMA ReturnPreserves ==
    ASSUME TypeOK, PipelineInv, NEW r \in Requests, Active(r), NEW e \in Errors,
           NEW k \in ContextType, OwnContext(r, k, rq[r].msg),
           rq' = Return(r, e), ctx' = [ctx EXCEPT ![rq[r].c] = k],
           UNCHANGED <<remote, now, pool, answer>>,
           seen' \in [Messages -> 0..(MaxTime + ReplayTTL)]
    PROVE  TypeOK' /\ PipelineInv'
<1> DEFINE x == Returned(rq[r], e)
<1>1. /\ rq' = [rq EXCEPT ![r] = x] /\ x \in RequestType /\ x.pc = "render"
      /\ x.c = rq[r].c /\ x.msg = rq[r].msg /\ x.handled = rq[r].handled /\ x.as = rq[r].as
  BY ReturnIs
<1> HIDE DEF x
<1>2. RequestOK(r, x, k) /\ History(r, x)
  BY <1>1 DEF RequestOK, Passed, History, PipelineInv
<1> QED
  BY <1>1, <1>2, RequestStep

(* The step readParams preserves the invariant.                            *)
LEMMA readParamsPreserves ==
    ASSUME TypeOK, PipelineInv, NEW r \in Requests, readParams(r)
    PROVE  TypeOK' /\ PipelineInv'
<1> DEFINE k == ctx[rq[r].c]
           m == rq[r].msg
           tk == IF m.token = "none" THEN Nobody ELSE r
           tokenRead == [k EXCEPT !.token = tk]
<1>1. AtFilter(r, "Parameter")
  BY DEF readParams
<1>2. /\ Active(r) /\ rq[r].pc = "chain" /\ rq[r].c \in Contexts /\ m \in Messages
      /\ k \in ContextType /\ rq[r] \in RequestType
      /\ k.pos \in 1 .. Len(createFilterChain) /\ k.pos = At("Parameter")
      /\ OwnContext(r, k, m) /\ History(r, rq[r]) /\ k.entity = Nobody
  BY <1>1, AtFilterIs DEF RequestOK, Passed
<1>3. /\ Pass(r) = [ctx EXCEPT ![rq[r].c] = PassedOn(k)]
      /\ PassedOn(k) \in ContextType
      /\ PassedOn(k) = [k EXCEPT !.pos = Following(k.pos)]
      /\ Following(k.pos) \in Places
  BY <1>2, PassIs, Chain
<1>4. Following(k.pos) <= At("Session") /\ Following(k.pos) <= At("Role")
  BY <1>2, Positions, FollowingIsNext
<1>5. UNCHANGED <<remote, now, pool, seen, answer>> /\ Msg(r) = m
  BY DEF readParams, Msg
<1>6. seen' \in [Messages -> 0..(MaxTime + ReplayTTL)]
  BY <1>5 DEF TypeOK
<1>7. OwnContext(r, PassedOn(k), m)
  BY <1>2, <1>3 DEF OwnContext, ContextType
<1>8. ASSUME NEW kk \in ContextType, kk.pos = Following(k.pos), OwnContext(r, kk, m),
             kk.entity = Nobody,
             ~m.route.post \/ m.route.guest,
             ctx' = [ctx EXCEPT ![rq[r].c] = kk], rq' = rq
      PROVE  TypeOK' /\ PipelineInv'
  <2>1. RequestOK(r, rq[r], kk)
    <3>1. ~(kk.pos > At("Session")) /\ ~(kk.pos > At("Role"))
      BY <1>3, <1>4, <1>8, Positions DEF Places
    <3> QED
      BY <1>2, <1>8, <3>1 DEF RequestOK, Passed
  <2>2. rq' = [rq EXCEPT ![r] = rq[r]]
    BY <1>8 DEF TypeOK
  <2> QED
    BY <1>2, <1>5, <1>6, <1>8, <2>1, <2>2, RequestStep DEF Active
<1>9. CASE ~k.route.post /\ ctx' = Pass(r) /\ rq' = rq
  <2>1. ~m.route.post /\ PassedOn(k).pos = Following(k.pos) /\ PassedOn(k).entity = Nobody
    BY <1>2, <1>3, <1>9 DEF OwnContext, ContextType
  <2> QED
    BY <1>3, <1>7, <1>8, <1>9, <2>1
<1>10. CASE /\ k.route.post /\ k.route.guest /\ rq' = rq
            /\ ctx' = [ctx EXCEPT ![rq[r].c] = [k EXCEPT !.pos = Following(@),
                                !.data = IF m.body = "none" THEN Nobody ELSE r]]
  <2> DEFINE d == IF m.body = "none" THEN Nobody ELSE r
             kk == [k EXCEPT !.pos = Following(k.pos), !.data = d]
  <2>1. d \in Owners /\ d \in {Nobody, r}
    BY DEF Owners
  <2>2. ctx' = [ctx EXCEPT ![rq[r].c] = kk]
    BY <1>10
  <2> HIDE DEF d
  <2>3. /\ kk \in ContextType /\ kk.pos = Following(k.pos) /\ kk.data = d
        /\ kk.route = k.route /\ kk.token = k.token /\ kk.payload = k.payload
        /\ kk.sub = k.sub /\ kk.code = k.code /\ kk.entity = k.entity /\ kk.out = k.out
    BY <1>2, <1>3, <2>1 DEF ContextType
  <2> HIDE DEF kk
  <2>4. OwnContext(r, kk, m) /\ m.route.guest
    BY <1>2, <1>10, <2>1, <2>3 DEF OwnContext
  <2> QED
    BY <1>2, <1>8, <1>10, <2>2, <2>3, <2>4
<1>11. CASE ctx' = Pass(r) /\ rq' = Return(r, 400)
  <2>1. 400 \in Errors
    BY DEF Errors
  <2> QED
    BY <1>2, <1>3, <1>5, <1>6, <1>7, <1>11, <2>1, ReturnPreserves, ZenonT(120)
<1>12. CASE /\ k.route.post /\ ~k.route.guest
            /\ ctx' = [ctx EXCEPT ![rq[r].c] =
                         [tokenRead EXCEPT !.pos = Following(@), !.data = r, !.plan = m.plan]]
            /\ \/ BodyAcceptable(tokenRead, m) /\ rq' = [rq EXCEPT ![r] = [@ EXCEPT !.pc = "exists"]]
               \/ rq' = Return(r, 400)
  <2> DEFINE kk == [tokenRead EXCEPT !.pos = Following(k.pos), !.data = r, !.plan = m.plan]
  <2>1. tk \in Owners /\ tk \in {Nobody, r} /\ r \in Owners
    BY DEF Owners
  <2>2. m.plan \in Plans
    BY <1>2 DEF Plans
  <2> HIDE DEF tk
  <2>3. /\ tokenRead \in ContextType /\ tokenRead.token = tk /\ tokenRead.pos = k.pos
        /\ tokenRead.route = k.route /\ tokenRead.payload = k.payload /\ tokenRead.sub = k.sub
        /\ tokenRead.code = k.code /\ tokenRead.entity = k.entity /\ tokenRead.out = k.out
    BY <1>2, <2>1 DEF ContextType
  <2>4. ctx' = [ctx EXCEPT ![rq[r].c] = kk]
    BY <1>12, <2>3
  <2> HIDE DEF tokenRead
  <2>5. /\ kk \in ContextType /\ kk.pos = Following(k.pos) /\ kk.data = r
        /\ kk.route = k.route /\ kk.token = tk /\ kk.payload = k.payload
        /\ kk.sub = k.sub /\ kk.code = k.code /\ kk.entity = k.entity /\ kk.out = k.out
    BY <1>3, <2>1, <2>2, <2>3 DEF ContextType
  <2> HIDE DEF kk
  <2>6. OwnContext(r, kk, m)
    <3>1. /\ kk.route = m.route /\ kk.out = <<>> /\ m.route.post
          /\ kk.entity # r \/ kk.token = r
          /\ {kk.data, kk.token, kk.payload, kk.sub, kk.code, kk.entity} \subseteq {Nobody, r}
      BY <1>2, <1>12, <2>1, <2>5, HttpAssumption DEF OwnContext
    <3> QED
      BY <3>1 DEF OwnContext
  <2>7. CASE rq' = Return(r, 400)
    <3>1. 400 \in Errors
      BY DEF Errors
    <3> QED
      BY <1>2, <1>5, <1>6, <2>4, <2>5, <2>6, <2>7, <3>1, ReturnPreserves, ZenonT(120)
  <2>8. CASE BodyAcceptable(tokenRead, m) /\ rq' = [rq EXCEPT ![r] = [@ EXCEPT !.pc = "exists"]]
    <3> DEFINE x == [rq[r] EXCEPT !.pc = "exists"]
    <3>1. /\ x \in RequestType /\ x.pc = "exists" /\ x.c = rq[r].c /\ x.msg = m
          /\ x.handled = rq[r].handled /\ x.as = rq[r].as
      BY <1>2 DEF RequestType, Stages
    <3>2. rq' = [rq EXCEPT ![r] = x]
      BY <2>8
    <3> HIDE DEF x
    <3>3. Signed(m)
      BY <1>2, <1>12, <2>3, <2>8 DEF BodyAcceptable, SignatureValid, Signed, OwnContext
    <3>4. RequestOK(r, x, kk)
      BY <1>2, <1>4, <2>5, <2>6, <3>1, <3>3 DEF RequestOK, Passed
    <3>5. History(r, x)
      BY <1>2, <3>1 DEF History
    <3> QED
      BY <1>2, <1>5, <1>6, <2>4, <2>5, <3>1, <3>2, <3>4, <3>5, RequestStep
  <2> QED
    BY <1>12, <2>7, <2>8
<1> QED
  BY <1>5, <1>9, <1>10, <1>11, <1>12 DEF readParams

(* What is known of a request on its way.                                  *)
LEMMA ActiveIs ==
    ASSUME TypeOK, PipelineInv, NEW r \in Requests, Active(r)
    PROVE  /\ rq[r].c \in Contexts /\ rq[r].msg \in Messages
           /\ ctx[rq[r].c] \in ContextType /\ rq[r] \in RequestType
           /\ ctx = [ctx EXCEPT ![rq[r].c] = ctx[rq[r].c]]
           /\ OwnContext(r, ctx[rq[r].c], rq[r].msg)
           /\ Passed(r, rq[r], ctx[rq[r].c], rq[r].msg)
           /\ History(r, rq[r])
<1>1. rq[r].c \in Contexts /\ rq[r].msg \in Messages
  BY DEF PipelineInv, Exclusive
<1>2. ctx[rq[r].c] \in ContextType /\ rq[r] \in RequestType
  BY <1>1 DEF TypeOK
<1>3. ctx = [ctx EXCEPT ![rq[r].c] = ctx[rq[r].c]]
  BY <1>1 DEF TypeOK
<1> QED
  BY <1>1, <1>2, <1>3 DEF PipelineInv, RequestOK

(* The step replayExists preserves the invariant.                          *)
LEMMA replayExistsPreserves ==
    ASSUME TypeOK, PipelineInv, NEW r \in Requests, replayExists(r)
    PROVE  TypeOK' /\ PipelineInv'
<1> DEFINE k == ctx[rq[r].c]
           m == rq[r].msg
           x == [rq[r] EXCEPT !.pc = "put", !.before = Entered, !.looked = now]
<1>1. Active(r) /\ rq[r].pc = "exists"
  BY DEF replayExists, Active
<1>2. /\ rq[r].c \in Contexts /\ m \in Messages /\ k \in ContextType /\ rq[r] \in RequestType
      /\ ctx = [ctx EXCEPT ![rq[r].c] = k]
      /\ OwnContext(r, k, m) /\ Passed(r, rq[r], k, m) /\ History(r, rq[r])
  BY <1>1, ActiveIs
<1> HIDE DEF k
<1>3. UNCHANGED <<remote, now, pool, answer>> /\ ctx' = [ctx EXCEPT ![rq[r].c] = k]
  BY <1>2 DEF replayExists
<1>4. seen' \in [Messages -> 0..(MaxTime + ReplayTTL)]
  BY DEF replayExists, TypeOK
<1>5. CASE rq' = Return(r, 400)
  <2>1. 400 \in Errors
    BY DEF Errors
  <2> QED
    BY <1>1, <1>2, <1>3, <1>4, <1>5, <2>1, ReturnPreserves
<1>6. CASE rq' = [rq EXCEPT ![r] = [@ EXCEPT !.pc = "put", !.before = Entered, !.looked = now]]
  <2>1. "put" \in Stages /\ Entered \in SUBSET Requests /\ now \in 0 .. MaxTime
    BY HttpAssumption DEF Stages, Entered, TypeOK
  <2>2. /\ x \in RequestType /\ x.pc = "put" /\ x.c = rq[r].c /\ x.msg = m
        /\ x.handled = rq[r].handled /\ x.as = rq[r].as
    BY <1>2, <2>1 DEF RequestType
  <2>3. rq' = [rq EXCEPT ![r] = x]
    BY <1>6
  <2> HIDE DEF x
  <2>4. RequestOK(r, x, k) /\ History(r, x)
    BY <1>1, <1>2, <2>2 DEF RequestOK, Passed, History
  <2> QED
    BY <1>1, <1>2, <1>3, <1>4, <2>2, <2>3, <2>4, RequestStep
<1> QED
  BY <1>5, <1>6 DEF replayExists

(* The step replayError preserves the invariant.                           *)
LEMMA replayErrorPreserves ==
    ASSUME TypeOK, PipelineInv, NEW r \in Requests, replayError(r)
    PROVE  TypeOK' /\ PipelineInv'
<1> DEFINE k == ctx[rq[r].c]
<1>1. Active(r)
  BY DEF replayError, Active
<1>2. k \in ContextType /\ ctx = [ctx EXCEPT ![rq[r].c] = k] /\ OwnContext(r, k, rq[r].msg)
  BY <1>1, ActiveIs
<1> HIDE DEF k
<1>3. /\ UNCHANGED <<remote, now, pool, answer>> /\ ctx' = [ctx EXCEPT ![rq[r].c] = k]
      /\ seen' \in [Messages -> 0..(MaxTime + ReplayTTL)] /\ rq' = Return(r, 400)
  BY <1>2 DEF replayError, TypeOK
<1>4. 400 \in Errors
  BY DEF Errors
<1> QED
  BY <1>1, <1>2, <1>3, <1>4, ReturnPreserves

(* The step replayPut preserves the invariant: the body decodes on a       *)
(* UseRSA route only if it was sent under plan 2.                          *)
LEMMA replayPutPreserves ==
    ASSUME TypeOK, PipelineInv, NEW r \in Requests, replayPut(r)
    PROVE  TypeOK' /\ PipelineInv'
<1> DEFINE k == ctx[rq[r].c]
           m == rq[r].msg
           code == IF Decodes(k, m) /\ m.plan = 2 THEN r ELSE k.code
           kk == [k EXCEPT !.code = code]
           stage == IF Decodes(k, m) THEN "chain" ELSE "render"
           err == IF Decodes(k, m) THEN rq[r].err ELSE 400
           x == [rq[r] EXCEPT !.pc = stage, !.err = err, !.entered = TRUE]
<1>1. Active(r) /\ rq[r].pc = "put"
  BY DEF replayPut, Active
<1>2. /\ rq[r].c \in Contexts /\ m \in Messages /\ k \in ContextType /\ rq[r] \in RequestType
      /\ ctx = [ctx EXCEPT ![rq[r].c] = k]
      /\ OwnContext(r, k, m) /\ Passed(r, rq[r], k, m) /\ History(r, rq[r])
  BY <1>1, ActiveIs
<1>3. UNCHANGED <<remote, now, pool, answer>>
  BY DEF replayPut
<1>4. seen' \in [Messages -> 0..(MaxTime + ReplayTTL)]
  <2>1. ReplayEnd \in 0..(MaxTime + ReplayTTL)
    BY HttpAssumption DEF TypeOK, ReplayEnd
  <2> QED
    BY <2>1 DEF replayPut, TypeOK
<1>5. /\ kk \in ContextType /\ kk.route = k.route /\ kk.pos = k.pos /\ kk.token = k.token
      /\ kk.sub = k.sub /\ kk.data = k.data /\ kk.payload = k.payload /\ kk.entity = k.entity
      /\ kk.out = k.out /\ kk.code = code
  <2>1. code \in Owners
    BY <1>2 DEF ContextType, Owners
  <2> HIDE DEF code
  <2> QED
    BY <1>2, <2>1 DEF ContextType
<1>6. ctx' = [ctx EXCEPT ![rq[r].c] = kk]
  <2>1. CASE Decodes(k, m) /\ m.plan = 2
    BY <1>2, <2>1 DEF replayPut, Msg, ContextType, TypeOK
  <2>2. CASE ~(Decodes(k, m) /\ m.plan = 2)
    <3>1. kk = k
      BY <1>2, <2>2 DEF ContextType
    <3>2. ctx' = ctx
      BY <2>2 DEF replayPut, Msg
    <3> HIDE DEF kk, k
    <3> QED
      BY <1>2, <3>1, <3>2
  <2> QED
    BY <2>1, <2>2
<1>7. /\ x \in RequestType /\ x.pc = stage /\ x.c = rq[r].c /\ x.msg = m
      /\ x.handled = rq[r].handled /\ x.as = rq[r].as
  <2>1. stage \in Stages /\ err \in Errors
    BY <1>2 DEF Stages, Errors, RequestType
  <2> HIDE DEF stage, err
  <2> QED
    BY <1>2, <2>1 DEF RequestType
<1>8. rq' = [rq EXCEPT ![r] = x]
  <2>1. CASE Decodes(k, m)
    <3>1. stage = "chain" /\ err = rq[r].err
      BY <2>1
    <3>2. x = [rq[r] EXCEPT !.pc = "chain", !.entered = TRUE]
      <4> HIDE DEF stage, err, k, m
      <4> QED
        BY <1>2, <3>1 DEF RequestType
    <3> QED
      BY <2>1, <3>2 DEF replayPut, Msg
  <2>2. CASE ~Decodes(k, m)
    <3>1. stage = "render" /\ err = 400
      BY <2>2
    <3>2. x = [rq[r] EXCEPT !.pc = "render", !.err = 400, !.entered = TRUE]
      <4> HIDE DEF stage, err
      <4> QED
        BY <3>1
    <3> QED
      BY <2>2, <3>2 DEF replayPut, Msg
  <2> QED
    BY <2>1, <2>2
<1>9. OwnContext(r, kk, m) /\ kk.entity = Nobody
  BY <1>1, <1>2, <1>5 DEF OwnContext, Passed
<1>10. Decodes(k, m) /\ m.route.rsa => m.plan = 2
  BY <1>2 DEF Decodes, OwnContext
<1>11. /\ Signed(m) /\ ~(k.pos > At("Session")) /\ ~(k.pos > At("Role"))
       /\ stage \in {"chain", "render"} /\ (stage = "chain" => Decodes(k, m))
  <2>1. k.pos \in Int
    BY <1>2 DEF ContextType, Places
  <2>2. Signed(m) /\ k.pos <= At("Session")
    BY <1>1, <1>2 DEF Passed
  <2> QED
    BY <2>1, <2>2, Positions
<1> HIDE DEF x, kk, stage
<1>12. Passed(r, x, kk, m)
  BY <1>5, <1>7, <1>9, <1>10, <1>11 DEF Passed
<1>13. RequestOK(r, x, kk) /\ History(r, x) /\ x.pc \notin {"idle", "done"}
  BY <1>2, <1>7, <1>9, <1>11, <1>12 DEF RequestOK, History
<1> QED
  BY <1>1, <1>3, <1>4, <1>5, <1>6, <1>7, <1>8, <1>13, RequestStep
(* The step SessionFilter preserves the invariant: what Verify accepts are *)
(* the request's own token bytes.                                          *)
LEMMA SessionFilterPreserves ==
    ASSUME TypeOK, PipelineInv, NEW r \in Requests, SessionFilter(r)
    PROVE  TypeOK' /\ PipelineInv'
<1> DEFINE k == ctx[rq[r].c]
           m == rq[r].msg
<1>1. AtFilter(r, "Session")
  BY DEF SessionFilter
<1>2. /\ Active(r) /\ rq[r].pc = "chain" /\ rq[r].c \in Contexts /\ m \in Messages
      /\ k \in ContextType /\ rq[r] \in RequestType
      /\ k.pos \in 1 .. Len(createFilterChain) /\ k.pos = At("Session")
      /\ OwnContext(r, k, m) /\ Passed(r, rq[r], k, m) /\ History(r, rq[r]) /\ k.entity = Nobody
  BY <1>1, AtFilterIs DEF RequestOK, Passed
<1>3. /\ Pass(r) = [ctx EXCEPT ![rq[r].c] = PassedOn(k)]
      /\ PassedOn(k) \in ContextType
      /\ PassedOn(k) = [k EXCEPT !.pos = Following(k.pos)]
      /\ Following(k.pos) \in Places
  BY <1>2, PassIs, Chain
<1>4. ~(Following(k.pos) > At("Role")) /\ k.pos > At("Parameter")
  BY <1>2, <1>3, Positions, FollowingIsNext DEF Places
<1>5. UNCHANGED <<remote, now, pool, seen, answer>>
  BY DEF SessionFilter
<1>6. seen' \in [Messages -> 0..(MaxTime + ReplayTTL)]
  BY <1>5 DEF TypeOK
<1>7. OwnContext(r, PassedOn(k), m)
  BY <1>2, <1>3 DEF OwnContext, ContextType
<1>8. ASSUME NEW kk \in ContextType, kk.pos = Following(k.pos), OwnContext(r, kk, m),
             kk.entity = Nobody,
             ~m.route.rsa /\ ~m.route.guest =>
                kk.token = r /\ m.token \in {"anon", "user"} /\ (m.token = "user" => kk.sub = r),
             ctx' = [ctx EXCEPT ![rq[r].c] = kk], rq' = rq
      PROVE  TypeOK' /\ PipelineInv'
  <2>1. Passed(r, rq[r], kk, m)
    BY <1>2, <1>4, <1>8 DEF Passed
  <2>2. rq' = [rq EXCEPT ![r] = rq[r]] /\ RequestOK(r, rq[r], kk)
    BY <1>8, <2>1 DEF TypeOK, RequestOK
  <2> QED
    BY <1>2, <1>5, <1>6, <1>8, <2>2, RequestStep DEF Active
<1>9. CASE (k.route.rsa \/ k.route.guest) /\ ctx' = Pass(r) /\ rq' = rq
  <2>1. /\ m.route.rsa \/ m.route.guest
        /\ PassedOn(k).pos = Following(k.pos) /\ PassedOn(k).entity = Nobody
    BY <1>2, <1>3, <1>9 DEF OwnContext, ContextType
  <2> QED
    BY <1>3, <1>7, <1>8, <1>9, <2>1
<1>10. CASE /\ Verify(k.token) /\ rq' = rq
            /\ ctx' = [ctx EXCEPT ![rq[r].c] =
                         [k EXCEPT !.pos = Following(@), !.payload = k.token,
                                   !.sub = IF Msg(k.token).token = "user" THEN k.token ELSE Nobody]]
  <2> DEFINE s == IF Msg(k.token).token = "user" THEN k.token ELSE Nobody
             kk == [k EXCEPT !.pos = Following(k.pos), !.payload = k.token, !.sub = s]
  <2>1. k.token = r /\ m.token \in {"anon", "user"} /\ Msg(k.token) = m
    BY <1>2, <1>10 DEF Verify, OwnContext, Msg
  <2>2. s \in Owners /\ s \in {Nobody, r} /\ (m.token = "user" => s = r) /\ r \in Owners
    BY <2>1 DEF Owners
  <2>3. ctx' = [ctx EXCEPT ![rq[r].c] = kk]
    BY <1>10
  <2> HIDE DEF s
  <2>4. /\ kk \in ContextType /\ kk.pos = Following(k.pos) /\ kk.data = k.data
        /\ kk.route = k.route /\ kk.token = k.token /\ kk.payload = k.token
        /\ kk.sub = s /\ kk.code = k.code /\ kk.entity = k.entity /\ kk.out = k.out
    BY <1>2, <1>3, <2>1, <2>2 DEF ContextType
  <2> HIDE DEF kk
  <2>5. OwnContext(r, kk, m)
    BY <1>2, <2>1, <2>2, <2>4 DEF OwnContext
  <2> QED
    BY <1>2, <1>8, <1>10, <2>1, <2>2, <2>3, <2>4, <2>5
<1>11. CASE ctx' = Pass(r) /\ rq' = Return(r, 401)
  <2>1. 401 \in Errors
    BY DEF Errors
  <2> QED
    BY <1>2, <1>3, <1>5, <1>6, <1>7, <1>11, <2>1, ReturnPreserves
<1> QED
  BY <1>9, <1>10, <1>11 DEF SessionFilter

(* The step RoleFilter preserves the invariant: an authenticated request   *)
(* goes on only if it has the roles.                                       *)
LEMMA RoleFilterPreserves ==
    ASSUME TypeOK, PipelineInv, NEW r \in Requests, RoleFilter(r)
    PROVE  TypeOK' /\ PipelineInv'
<1> DEFINE k == ctx[rq[r].c]
           m == rq[r].msg
<1>1. AtFilter(r, "Role")
  BY DEF RoleFilter
<1>2. /\ Active(r) /\ rq[r].pc = "chain" /\ rq[r].c \in Contexts /\ m \in Messages
      /\ k \in ContextType /\ rq[r] \in RequestType
      /\ k.pos \in 1 .. Len(createFilterChain) /\ k.pos = At("Role")
      /\ OwnContext(r, k, m) /\ Passed(r, rq[r], k, m) /\ History(r, rq[r]) /\ k.entity = Nobody
  BY <1>1, AtFilterIs DEF RequestOK, Passed
<1>3. /\ Pass(r) = [ctx EXCEPT ![rq[r].c] = PassedOn(k)]
      /\ PassedOn(k) \in ContextType
      /\ PassedOn(k) = [k EXCEPT !.pos = Following(k.pos)]
      /\ Following(k.pos) \in Places
  BY <1>2, PassIs, Chain
<1>4. k.pos > At("Parameter") /\ k.pos > At("Session")
  BY <1>2, Positions
<1>5. UNCHANGED <<remote, now, pool, seen, answer>> /\ ctx' = Pass(r)
  BY DEF RoleFilter
<1>6. seen' \in [Messages -> 0..(MaxTime + ReplayTTL)]
  BY <1>5 DEF TypeOK
<1>7. OwnContext(r, PassedOn(k), m)
  BY <1>2, <1>3 DEF OwnContext, ContextType
<1>8. CASE /\ rq' = rq
           /\ k.sub = r /\ m.route.need # <<>> => RoleAccess(m.route.need, m.has, m.route.all)
  <2>1. /\ PassedOn(k).pos = Following(k.pos) /\ PassedOn(k).token = k.token
        /\ PassedOn(k).sub = k.sub /\ PassedOn(k).entity = k.entity
    BY <1>2, <1>3 DEF ContextType
  <2>2. Passed(r, rq[r], PassedOn(k), m)
    BY <1>2, <1>4, <1>8, <2>1 DEF Passed
  <2>3. rq' = [rq EXCEPT ![r] = rq[r]] /\ RequestOK(r, rq[r], PassedOn(k))
    BY <1>7, <1>8, <2>2 DEF TypeOK, RequestOK
  <2> QED
    BY <1>2, <1>3, <1>5, <1>6, <1>8, <2>3, RequestStep DEF Active
<1>9. ASSUME NEW e \in {401, 500}, rq' = Return(r, e)
      PROVE  TypeOK' /\ PipelineInv'
  <2>1. e \in Errors
    BY DEF Errors
  <2> DEFINE kk == PassedOn(k)
  <2>2. kk \in ContextType /\ OwnContext(r, kk, m) /\ ctx' = [ctx EXCEPT ![rq[r].c] = kk]
    BY <1>3, <1>5, <1>7
  <2> HIDE DEF kk, k
  <2> QED
    BY <1>2, <1>5, <1>6, <1>9, <2>1, <2>2, ReturnPreserves
<1>10. CASE (~Authenticated(k) \/ k.route.need = <<>>) /\ rq' = rq
  <2>1. k.sub # r \/ m.route.need = <<>>
    BY <1>2, <1>10, HttpAssumption DEF Authenticated, OwnContext
  <2> QED
    BY <1>8, <1>10, <2>1
<1>11. CASE /\ Authenticated(k) /\ k.route.need # <<>>
            /\ rq' = IF RoleAccess(k.route.need, Msg(k.sub).has, k.route.all)
                     THEN rq ELSE Return(r, 401)
  <2>1. k.sub = r /\ Msg(k.sub) = m /\ k.route = m.route
    BY <1>2, <1>11 DEF Authenticated, OwnContext, Msg
  <2>2. CASE RoleAccess(m.route.need, m.has, m.route.all)
    BY <1>8, <1>11, <2>1, <2>2
  <2>3. CASE ~RoleAccess(m.route.need, m.has, m.route.all)
    <3>1. rq' = Return(r, 401)
      BY <1>11, <2>1, <2>3
    <3> QED
      BY <1>9, <3>1
  <2> QED
    BY <2>2, <2>3
<1>12. CASE rq' = Return(r, 500)
  BY <1>9, <1>12
<1> QED
  BY <1>10, <1>11, <1>12 DEF RoleFilter

(* The step PostHandle preserves the invariant: the filters before it      *)
(* have established what the route demands.                                *)
LEMMA PostHandlePreserves ==
    ASSUME TypeOK, PipelineInv, NEW r \in Requests, PostHandle(r)
    PROVE  TypeOK' /\ PipelineInv'
<1> DEFINE k == ctx[rq[r].c]
           m == rq[r].msg
           as == IF k.data = Nobody THEN Nobody ELSE k.sub
           ran(e) == [rq[r] EXCEPT !.pc = "render", !.err = e, !.handled = TRUE, !.as = as]
           after == [k EXCEPT !.pos = Following(k.pos), !.completed = TRUE]
<1>1. AtFilter(r, "Post")
  BY DEF PostHandle
<1>2. /\ Active(r) /\ rq[r].pc = "chain" /\ rq[r].c \in Contexts /\ m \in Messages
      /\ k \in ContextType /\ rq[r] \in RequestType
      /\ k.pos \in 1 .. Len(createFilterChain) /\ k.pos = At("Post")
      /\ OwnContext(r, k, m) /\ Passed(r, rq[r], k, m) /\ History(r, rq[r]) /\ k.entity = Nobody
  BY <1>1, AtFilterIs DEF RequestOK, Passed
<1>3. Following(k.pos) \in Places
  BY <1>2, FollowingIsNext, Chain DEF Places
<1>4. k.pos > At("Parameter") /\ k.pos > At("Session") /\ k.pos > At("Role")
  BY <1>2, Positions
<1>5. /\ UNCHANGED <<remote, now, pool, seen, answer>>
      /\ seen' \in [Messages -> 0..(MaxTime + ReplayTTL)]
  BY DEF PostHandle, TypeOK
<1>6. ~m.route.guest /\ ~m.route.rsa =>
        /\ k.token = r /\ m.token \in {"anon", "user"} /\ m.route.post
        /\ m.token = "user" => k.sub = r
  BY <1>2, <1>4 DEF Passed, OwnContext
<1>7. Admitted(m)
  <2>1. CASE m.route.rsa /\ ~m.route.guest
    BY <1>2, <1>4, <2>1 DEF Passed, Admitted, Signed
  <2>2. CASE ~m.route.rsa /\ ~m.route.guest
    BY <1>2, <1>4, <1>6, <2>2 DEF Passed, Admitted
  <2> QED
    BY <2>1, <2>2 DEF Admitted
<1>8. as \in {Nobody, r} /\ as \in Owners
  BY <1>2 DEF OwnContext, Owners
<1> HIDE DEF as
<1>9. ASSUME NEW e \in Errors
      PROVE  /\ ran(e) \in RequestType /\ ran(e).pc = "render" /\ ran(e).c = rq[r].c
             /\ ran(e).msg = m /\ ran(e).as = as
  <2>1. "render" \in Stages
    BY DEF Stages
  <2> QED
    BY <1>2, <1>8, <2>1 DEF RequestType
<1>10. ASSUME NEW e \in Errors PROVE History(r, ran(e))
  BY <1>2, <1>7, <1>8, <1>9 DEF History
<1>11. /\ after \in ContextType /\ after.entity = Nobody /\ after.token = k.token
       /\ after.route = k.route /\ after.data = k.data /\ after.payload = k.payload
       /\ after.sub = k.sub /\ after.code = k.code /\ after.out = k.out
  BY <1>2, <1>3 DEF ContextType
<1>12. ASSUME NEW kk \in ContextType, kk.route = k.route, kk.data = k.data, kk.token = k.token,
              kk.payload = k.payload, kk.sub = k.sub, kk.code = k.code, kk.out = k.out,
              kk.entity \in {Nobody, r}, ctx' = [ctx EXCEPT ![rq[r].c] = kk],
              NEW e \in Errors, rq' = [rq EXCEPT ![r] = ran(e)]
       PROVE  TypeOK' /\ PipelineInv'
  <2>1. OwnContext(r, kk, m)
    <3>1. {kk.data, kk.token, kk.payload, kk.sub, kk.code, kk.entity} \subseteq {Nobody, r}
      BY <1>2, <1>12 DEF OwnContext
    <3> QED
      BY <1>2, <1>6, <1>12, <3>1 DEF OwnContext
  <2> DEFINE x == ran(e)
  <2>2. /\ x \in RequestType /\ x.pc = "render" /\ x.c = rq[r].c /\ x.msg = m
        /\ History(r, x) /\ rq' = [rq EXCEPT ![r] = x]
    BY <1>9, <1>10, <1>12
  <2> HIDE DEF x
  <2>3. RequestOK(r, x, kk)
    BY <2>1, <2>2 DEF RequestOK, Passed
  <2> QED
    BY <1>2, <1>5, <1>12, <2>2, <2>3, RequestStep
<1>13. 0 \in Errors /\ 500 \in Errors
  BY DEF Errors
<1>14. ASSUME NEW e \in {0, 500}, NEW t \in ContentTypes, NEW en \in {Nobody, r},
              ctx' = [ctx EXCEPT ![rq[r].c] = [after EXCEPT !.ctype = t, !.entity = en]],
              rq' = [rq EXCEPT ![r] = ran(e)]
       PROVE  TypeOK' /\ PipelineInv'
  <2> DEFINE kk == [after EXCEPT !.ctype = t, !.entity = en]
  <2>1. en \in Owners
    BY DEF Owners
  <2> HIDE DEF after
  <2>2. /\ kk \in ContextType /\ kk.entity = en /\ kk.token = k.token
        /\ kk.route = k.route /\ kk.data = k.data /\ kk.payload = k.payload
        /\ kk.sub = k.sub /\ kk.code = k.code /\ kk.out = k.out
    BY <1>11, <2>1 DEF ContextType
  <2> HIDE DEF kk, ran
  <2>3. ctx' = [ctx EXCEPT ![rq[r].c] = kk]
    BY <1>14 DEF kk
  <2> QED
    BY <1>12, <1>13, <1>14, <2>2, <2>3
<1>15. after = [k EXCEPT !.pos = Following(@), !.completed = TRUE]
  BY <1>2 DEF ContextType
<1>16. ASSUME NEW e PROVE
         [rq EXCEPT ![r] = [@ EXCEPT !.pc = "render", !.err = e, !.handled = TRUE,
                              !.as = IF k.data = Nobody THEN Nobody ELSE k.sub]]
           = [rq EXCEPT ![r] = ran(e)]
  BY DEF as
<1>17. CASE /\ ctx' = [ctx EXCEPT ![rq[r].c] = [after EXCEPT !.ctype = "json", !.entity = r]]
            /\ rq' = [rq EXCEPT ![r] = ran(0)]
  <2>1. "json" \in ContentTypes
    BY DEF ContentTypes
  <2> QED
    BY <1>14, <1>17, <2>1
<1>18. CASE /\ ctx' = [ctx EXCEPT ![rq[r].c] = [after EXCEPT !.ctype = "text", !.entity = r]]
            /\ rq' = [rq EXCEPT ![r] = ran(0)]
  <2>1. "text" \in ContentTypes
    BY DEF ContentTypes
  <2> QED
    BY <1>14, <1>18, <2>1
<1>19. CASE /\ ctx' = [ctx EXCEPT ![rq[r].c] = after]
            /\ rq' = [rq EXCEPT ![r] = ran(0)] \/ rq' = [rq EXCEPT ![r] = ran(500)]
  <2> HIDE DEF after, ran
  <2>1. PICK e \in Errors : rq' = [rq EXCEPT ![r] = ran(e)]
    BY <1>13, <1>19
  <2>2. after \in ContextType /\ after.entity \in {Nobody, r}
    BY <1>11
  <2> QED
    BY <1>11, <1>12, <1>19, <2>1, <2>2
<1> DEFINE Ran(e) == [rq EXCEPT ![r] = [@ EXCEPT !.pc = "render", !.err = e, !.handled = TRUE,
                              !.as = IF k.data = Nobody THEN Nobody ELSE k.sub]]
           Done == [k EXCEPT !.pos = Following(@), !.completed = TRUE]
<1>20. \/ /\ ctx' = [ctx EXCEPT ![rq[r].c] = [Done EXCEPT !.ctype = "json", !.entity = r]]
          /\ rq' = Ran(0)
       \/ /\ ctx' = [ctx EXCEPT ![rq[r].c] = [Done EXCEPT !.ctype = "text", !.entity = r]]
          /\ rq' = Ran(0)
       \/ /\ ctx' = [ctx EXCEPT ![rq[r].c] = Done]
          /\ rq' = Ran(0) \/ rq' = Ran(500)
  BY Zenon DEF PostHandle
<1>21. Ran(0) = [rq EXCEPT ![r] = ran(0)] /\ Ran(500) = [rq EXCEPT ![r] = ran(500)]
  BY <1>16, ZenonT(120)
<1>22. Done = after
  BY <1>15
<1> HIDE DEF Done, Ran, after, ran
<1> QED
  BY <1>17, <1>18, <1>19, <1>20, <1>21, <1>22
(* What a client may be shown: at most one piece, of the request itself.   *)
OwnPieces(r) == { p \in PieceType : /\ p.of \in {Nobody, r}
                                    /\ p.how \in {"code", "aes", "token"} => p.by = r }

(* defaultRenderPre gives one such piece, or an error.                     *)
LEMMA RenderPreIs ==
    ASSUME NEW r \in Requests, NEW k \in ContextType, NEW m, OwnContext(r, k, m)
    PROVE  \/ \E p \in OwnPieces(r) : defaultRenderPre(k) = [err |-> 0, out |-> <<p>>]
           \/ defaultRenderPre(k) = [err |-> 500, out |-> <<>>]
<1>1. k.entity \in {Nobody, r} /\ k.code \in {Nobody, r} /\ k.token \in {Nobody, r}
  BY DEF OwnContext
<1>2. \A o, b \in {Nobody, r} : \A h \in {"text", "json", "code", "aes", "token", "error"} :
         (h \in {"code", "aes", "token"} => b = r) => Piece(o, b, h) \in OwnPieces(r)
  BY HttpAssumption DEF Piece, OwnPieces, PieceType, Owners
<1>3. CASE k.ctype = "text"
  <2>1. defaultRenderPre(k) = [err |-> 0, out |-> <<Piece(k.entity, Nobody, "text")>>]
    BY <1>3 DEF defaultRenderPre
  <2> QED
    BY <1>1, <1>2, <2>1
<1>4. CASE k.ctype # "text" /\ k.entity = Nobody
  BY <1>4 DEF defaultRenderPre
<1>5. CASE k.ctype # "text" /\ k.entity # Nobody /\ k.route.guest
  <2>1. defaultRenderPre(k) = [err |-> 0, out |-> <<Piece(k.entity, Nobody, "json")>>]
    BY <1>5 DEF defaultRenderPre
  <2> QED
    BY <1>1, <1>2, <2>1
<1>6. CASE k.ctype # "text" /\ k.entity # Nobody /\ ~k.route.guest /\ k.route.rsa
  <2>1. CASE k.plan = 2 /\ k.code # Nobody
    <3>1. defaultRenderPre(k) = [err |-> 0, out |-> <<Piece(k.entity, k.code, "code")>>]
      BY <1>6, <2>1 DEF defaultRenderPre
    <3>2. Piece(k.entity, k.code, "code") \in OwnPieces(r)
      BY <1>1, <1>2, <2>1
    <3> QED
      BY <3>1, <3>2
  <2>2. CASE ~(k.plan = 2 /\ k.code # Nobody)
    BY <1>6, <2>2 DEF defaultRenderPre
  <2> QED
    BY <2>1, <2>2
<1>7. CASE k.ctype # "text" /\ k.entity # Nobody /\ ~k.route.guest /\ ~k.route.rsa
  <2>1. k.token = r /\ r # Nobody
    BY <1>1, <1>7, HttpAssumption DEF OwnContext
  <2>2. \/ defaultRenderPre(k) = [err |-> 0, out |-> <<Piece(k.entity, k.token, "aes")>>]
        \/ defaultRenderPre(k) = [err |-> 0, out |-> <<Piece(k.entity, k.token, "token")>>]
    BY <1>7 DEF defaultRenderPre
  <2>3. /\ Piece(k.entity, k.token, "aes") \in OwnPieces(r)
        /\ Piece(k.entity, k.token, "token") \in OwnPieces(r)
    BY <1>1, <1>2, <2>1
  <2> QED
    BY <2>2, <2>3
<1> QED
  BY <1>3, <1>4, <1>5, <1>6, <1>7

(* RenderHandleFilter writes one piece, and the Context keeps its types.   *)
LEMMA RenderedIs ==
    ASSUME NEW r \in Requests, NEW k \in ContextType, NEW m, OwnContext(r, k, m), NEW e \in Errors
    PROVE  /\ Rendered(k, e) \in ContextType
           /\ \E p \in OwnPieces(r) : Rendered(k, e).out = <<p>>
<1> DEFINE pre == IF e = 0 THEN defaultRenderPre(k) ELSE [err |-> e, out |-> <<>>]
           code == IF pre.out # <<>> /\ pre.out[1].how = "code" THEN Nobody ELSE k.code
           w == [k EXCEPT !.out = k.out \o pre.out, !.code = code]
<1>1. Rendered(k, e) = IF pre.err = 0 THEN w ELSE defaultRenderError(w, pre.err)
  BY DEF Rendered
<1>2. code \in Owners /\ k.out = <<>>
  BY DEF ContextType, Owners, OwnContext
<1> HIDE DEF code
<1>3. CASE \E p \in OwnPieces(r) : pre = [err |-> 0, out |-> <<p>>]
  <2>1. PICK p \in OwnPieces(r) : pre = [err |-> 0, out |-> <<p>>]
    BY <1>3
  <2> HIDE DEF pre
  <2>2. pre.err = 0 /\ pre.out = <<p>> /\ p \in PieceType
    BY <2>1 DEF OwnPieces
  <2>3. k.out \o pre.out = <<p>> /\ <<p>> \in Seq(PieceType)
    BY <1>2, <2>2
  <2>4. w \in ContextType /\ w.out = <<p>>
    BY <1>2, <2>3 DEF ContextType
  <2> QED
    BY <1>1, <2>2, <2>4
<1>4. CASE \E v \in Errors \ {0} : pre = [err |-> v, out |-> <<>>]
  <2>1. PICK v \in Errors \ {0} : pre = [err |-> v, out |-> <<>>]
    BY <1>4
  <2> DEFINE p == Piece(Nobody, Nobody, "error")
             status == IF w.route.guest /\ v <= 600 THEN v ELSE w.status
             ctype == IF w.route.guest THEN "text" ELSE "json"
             d == [w EXCEPT !.out = Append(w.out, p), !.status = status, !.ctype = ctype]
  <2>2. p \in OwnPieces(r)
    BY DEF Piece, OwnPieces, PieceType, Owners
  <2> HIDE DEF pre
  <2>3. pre.err = v /\ pre.err # 0 /\ pre.out = <<>>
    BY <2>1
  <2>4. k.out \o pre.out = <<>> /\ <<>> \in Seq(PieceType)
    BY <1>2, <2>3
  <2>5. w \in ContextType /\ w.out = <<>>
    BY <1>2, <2>4 DEF ContextType
  <2>6. Rendered(k, e) = d
    BY <1>1, <2>3 DEF defaultRenderError
  <2> HIDE DEF w, p
  <2>7. status \in Errors /\ ctype \in ContentTypes /\ Append(w.out, p) = <<p>> /\ p \in PieceType
    BY <2>1, <2>2, <2>5 DEF ContextType, ContentTypes, OwnPieces
  <2> HIDE DEF status, ctype
  <2>8. Append(w.out, p) \in Seq(PieceType)
    BY <2>5, <2>7
  <2>9. d \in ContextType /\ d.out = <<p>>
    BY <2>5, <2>7, <2>8 DEF ContextType
  <2> QED
    BY <2>2, <2>6, <2>9
<1>5. 500 \in Errors \ {0}
  BY DEF Errors
<1> QED
  BY <1>3, <1>4, <1>5, RenderPreIs

(* The step Timeout preserves the invariant.                               *)
LEMMA TimeoutPreserves ==
    ASSUME TypeOK, PipelineInv, NEW r \in Requests, Timeout(r)
    PROVE  TypeOK' /\ PipelineInv'
<1> DEFINE a == [status |-> 408, out |-> <<>>]
<1>1. answer' = [answer EXCEPT ![r] = a] /\ UNCHANGED <<remote, now, pool, ctx, rq, seen>>
  BY DEF Timeout
<1>2. TypeOK'
  BY <1>1 DEF TypeOK
<1>3. OwnAnswer(r, a)
  BY DEF OwnAnswer, Range
<1>4. \A q \in Requests : answer'[q] = answer[q] \/ (q = r /\ answer'[q] = a)
  BY <1>1 DEF TypeOK
<1> HIDE DEF a
<1>5. \A q \in Requests : answer'[q] # Nobody => OwnAnswer(q, answer'[q])
  BY <1>3, <1>4 DEF PipelineInv
<1> QED
  BY <1>1, <1>2, <1>5 DEF PipelineInv, Exclusive, NotStarted, Active

(* The step Render preserves the invariant: the client is shown a piece of *)
(* its own and the Context, nobody's now, goes into the pool.              *)
LEMMA RenderPreserves ==
    ASSUME TypeOK, PipelineInv, NEW r \in Requests, Render(r)
    PROVE  TypeOK' /\ PipelineInv'
<1> DEFINE k == Rendered(ctx[rq[r].c], rq[r].err)
           x == [rq[r] EXCEPT !.pc = "done", !.c = Nobody, !.err = 0]
           status == IF k.status = 0 THEN 200 ELSE k.status
           a == [status |-> status, out |-> k.out]
<1>1. Active(r) /\ rq[r].pc = "render"
  BY DEF Render, Active
<1>2. /\ rq[r].c \in Contexts /\ rq[r].msg \in Messages
      /\ ctx[rq[r].c] \in ContextType /\ rq[r] \in RequestType
      /\ OwnContext(r, ctx[rq[r].c], rq[r].msg) /\ History(r, rq[r])
  BY <1>1, ActiveIs
<1>3. k \in ContextType /\ \E p \in OwnPieces(r) : k.out = <<p>>
  <2>1. rq[r].err \in Errors
    BY <1>2 DEF RequestType
  <2> QED
    BY <1>2, <2>1, RenderedIs
<1>4. /\ ctx' = [ctx EXCEPT ![rq[r].c] = k]
      /\ answer' = [answer EXCEPT ![r] = IF answer[r] = Nobody THEN a ELSE answer[r]]
      /\ pool' = pool \cup {rq[r].c} /\ rq' = [rq EXCEPT ![r] = x]
      /\ UNCHANGED <<remote, now, seen>>
  BY DEF Render
<1> HIDE DEF k
<1>5. a \in [status : {200, 400, 401, 408, 500}, out : Seq(PieceType)]
  <2>1. status \in {200, 400, 401, 408, 500}
    BY <1>3 DEF ContextType, Errors
  <2> QED
    BY <1>3, <2>1 DEF ContextType
<1>6. OwnAnswer(r, a)
  <2>1. PICK p \in OwnPieces(r) : k.out = <<p>>
    BY <1>3
  <2>2. a.out = <<p>> /\ Len(a.out) = 1 /\ Range(a.out) = {p}
    BY <2>1 DEF Range
  <2> HIDE DEF a
  <2>3. Len(a.out) <= 1
    BY <2>2
  <2>4. p.of \in {Nobody, r} /\ (p.how \in {"code", "aes", "token"} => p.by = r)
    BY <2>1 DEF OwnPieces
  <2> QED
    BY <2>2, <2>3, <2>4 DEF OwnAnswer
<1>7. /\ x \in RequestType /\ x.pc = "done" /\ x.msg = rq[r].msg
      /\ x.handled = rq[r].handled /\ x.as = rq[r].as
  <2>1. "done" \in Stages /\ 0 \in Errors
    BY DEF Stages, Errors
  <2> QED
    BY <1>2, <2>1 DEF RequestType
<1> HIDE DEF a, x
<1>8. TypeOK'
  BY <1>2, <1>3, <1>4, <1>5, <1>7 DEF TypeOK
<1>9. rq'[r] = x /\ \A q \in Requests : q # r => rq'[q] = rq[q]
  BY <1>4 DEF TypeOK
<1>10. ~Active(r)' /\ \A q \in Requests : q # r => (Active(q)' <=> Active(q))
  BY <1>7, <1>9 DEF Active
<1>11. \A q \in Requests : q # r /\ Active(q) => rq[q].c # rq[r].c /\ ctx'[rq[q].c] = ctx[rq[q].c]
  BY <1>1, <1>4 DEF TypeOK, PipelineInv, Exclusive
<1>12. Exclusive'
  BY <1>4, <1>9, <1>10, <1>11 DEF PipelineInv, Exclusive
<1>13. NotStarted'
  BY <1>7, <1>9 DEF PipelineInv, NotStarted
<1>14. ASSUME NEW q \in Requests
       PROVE  /\ Active(q)' => RequestOK(q, rq'[q], ctx'[rq'[q].c])
              /\ History(q, rq'[q])
              /\ answer'[q] # Nobody => OwnAnswer(q, answer'[q])
  <2>1. CASE q = r
    <3>1. History(q, x)
      BY <1>2, <1>7, <2>1 DEF History
    <3>2. answer'[r] = a \/ answer'[r] = answer[r]
      BY <1>4 DEF TypeOK
    <3> QED
      BY <1>6, <1>9, <1>10, <2>1, <3>1, <3>2 DEF PipelineInv
  <2>2. CASE q # r
    <3>1. answer'[q] = answer[q]
      BY <1>4, <2>2 DEF TypeOK
    <3> QED
      BY <1>9, <1>10, <1>11, <2>2, <3>1 DEF PipelineInv
  <2> QED
    BY <2>1, <2>2
<1> QED
  BY <1>8, <1>12, <1>13, <1>14 DEF PipelineInv

(* The reset of a Context leaves nothing of its previous user in it.       *)
LEMMA ResetIs ==
    ASSUME NEW k \in ContextType, NEW m \in Messages, NEW r \in Requests
    PROVE  /\ reset(k, m) \in ContextType
           /\ OwnContext(r, reset(k, m), m)
           /\ reset(k, m).entity = Nobody
           /\ reset(k, m).pos <= At("Parameter")
<1> DEFINE n == [k EXCEPT !.route = m.route, !.completed = FALSE, !.pos = Following(0),
                          !.data = Nobody, !.plan = 0, !.entity = Nobody, !.status = 0,
                          !.out = <<>>, !.sub = Nobody, !.token = Nobody, !.payload = Nobody,
                          !.code = Nobody]
<1>1. reset(k, m) = n
  BY DEF reset, resetTokenStorage, resetSubject, resetResponse, resetJsonBody
<1>2. /\ 0 \in Plans /\ 0 \in Errors /\ Nobody \in Owners /\ m.route \in Routes
      /\ <<>> \in Seq(PieceType)
  BY DEF Plans, Errors, Owners, Routes
<1>3. Following(0) \in Places /\ Following(0) <= At("Parameter")
  BY FollowingIsNext, Positions, Chain DEF Places
<1>4. n \in ContextType
  BY <1>2, <1>3 DEF ContextType
<1>5. /\ n.route = m.route /\ n.data = Nobody /\ n.token = Nobody /\ n.payload = Nobody
      /\ n.sub = Nobody /\ n.code = Nobody /\ n.entity = Nobody /\ n.out = <<>>
      /\ n.pos = Following(0)
  BY DEF ContextType
<1> HIDE DEF n
<1>6. OwnContext(r, n, m)
  BY <1>5, HttpAssumption DEF OwnContext
<1> QED
  BY <1>1, <1>3, <1>4, <1>5, <1>6

(* The step doRequest preserves the invariant.                             *)
LEMMA doRequestPreserves ==
    ASSUME TypeOK, PipelineInv, NEW r \in Requests, NEW m \in Messages, doRequest(r, m)
    PROVE  TypeOK' /\ PipelineInv'
<1>1. PICK c \in Contexts :
        /\ c \notin InUse /\ pool' = pool \ {c}
        /\ ctx' = [ctx EXCEPT ![c] = reset(ctx[c], m)]
        /\ rq' = [rq EXCEPT ![r] = [rq[r] EXCEPT !.pc = "chain", !.msg = m, !.c = c]]
  BY DEF doRequest
<1>2. UNCHANGED <<remote, now, seen, answer>> /\ rq[r].pc = "idle" /\ rq[r] = idleRequest
  BY DEF doRequest, PipelineInv, NotStarted
<1> DEFINE k == reset(ctx[c], m)
           x == [rq[r] EXCEPT !.pc = "chain", !.msg = m, !.c = c]
<1>3. rq[r] \in RequestType /\ ctx[c] \in ContextType
  BY DEF TypeOK
<1>4. /\ k \in ContextType /\ OwnContext(r, k, m) /\ k.entity = Nobody
      /\ k.pos <= At("Parameter")
  BY <1>3, ResetIs
<1>5. /\ x \in RequestType /\ x.pc = "chain" /\ x.msg = m /\ x.c = c
      /\ x.handled = FALSE /\ x.as = Nobody
  <2>1. "chain" \in Stages
    BY DEF Stages
  <2>2. x.handled = rq[r].handled /\ x.as = rq[r].as
    BY <1>3 DEF RequestType
  <2>3. rq[r].handled = FALSE /\ rq[r].as = Nobody
    BY <1>2 DEF idleRequest
  <2>4. x \in RequestType /\ x.pc = "chain" /\ x.msg = m /\ x.c = c
    BY <1>3, <2>1 DEF RequestType
  <2> QED
    BY <2>2, <2>3, <2>4
<1>6. rq' = [rq EXCEPT ![r] = x] /\ ctx' = [ctx EXCEPT ![c] = k]
  BY <1>1
<1> HIDE DEF k, x
<1>7. TypeOK'
  BY <1>1, <1>2, <1>4, <1>5, <1>6 DEF TypeOK
<1>8. rq'[r] = x /\ \A q \in Requests : q # r => rq'[q] = rq[q]
  BY <1>6 DEF TypeOK
<1>9. /\ Active(r)' /\ ~Active(r)
      /\ \A q \in Requests : q # r => (Active(q)' <=> Active(q))
  BY <1>2, <1>5, <1>8 DEF Active
<1>10. \A q \in Requests : Active(q) => rq[q].c # c
  BY <1>1 DEF InUse, Active
<1>11. ctx'[c] = k /\ \A q \in Requests : Active(q) => ctx'[rq[q].c] = ctx[rq[q].c]
  BY <1>6, <1>10 DEF TypeOK, PipelineInv, Exclusive
<1>12. Exclusive'
  BY <1>1, <1>5, <1>8, <1>9, <1>10 DEF PipelineInv, Exclusive
<1>13. NotStarted'
  BY <1>5, <1>8 DEF PipelineInv, NotStarted
<1>14. RequestOK(r, x, k) /\ History(r, x)
  <2>1. ~(k.pos > At("Parameter")) /\ ~(k.pos > At("Session")) /\ ~(k.pos > At("Role"))
    BY <1>4, Positions DEF ContextType, Places
  <2> QED
    BY <1>4, <1>5, <2>1 DEF RequestOK, Passed, History
<1>15. ASSUME NEW q \in Requests
       PROVE  /\ Active(q)' => RequestOK(q, rq'[q], ctx'[rq'[q].c])
              /\ History(q, rq'[q])
              /\ answer'[q] # Nobody => OwnAnswer(q, answer'[q])
  <2>1. CASE q = r
    BY <1>2, <1>5, <1>8, <1>11, <1>14, <2>1 DEF PipelineInv
  <2>2. CASE q # r
    BY <1>2, <1>8, <1>9, <1>11, <2>2 DEF PipelineInv
  <2> QED
    BY <2>1, <2>2
<1> QED
  BY <1>7, <1>12, <1>13, <1>15 DEF PipelineInv

(* What the pool's New function builds.                                    *)
LEMMA NewContextType == newContext \in ContextType
<1>1. /\ Nobody \in Routes /\ 1 \in Places /\ Nobody \in Owners /\ 0 \in Plans
      /\ "json" \in ContentTypes /\ 0 \in Errors /\ <<>> \in Seq(PieceType)
  BY Chain DEF Routes, Places, Owners, Plans, ContentTypes, Errors
<1> QED
  BY <1>1 DEF newContext, ContextType

(* The step PoolDrop preserves the invariant: no request uses what lies in *)
(* the pool.                                                               *)
LEMMA PoolDropPreserves ==
    ASSUME TypeOK, PipelineInv, NEW c \in Contexts, PoolDrop(c)
    PROVE  TypeOK' /\ PipelineInv'
<1>1. TypeOK'
  BY NewContextType DEF PoolDrop, TypeOK
<1>2. \A q \in Requests : Active(q) => ctx'[rq[q].c] = ctx[rq[q].c]
  BY DEF TypeOK, PipelineInv, Exclusive, PoolDrop
<1>3. /\ rq' = rq /\ answer' = answer /\ pool' \subseteq pool
      /\ \A q \in Requests : Active(q)' <=> Active(q)
  BY DEF PoolDrop, Active
<1>4. Exclusive' /\ NotStarted'
  BY <1>3 DEF PipelineInv, Exclusive, NotStarted
<1> QED
  BY <1>1, <1>2, <1>3, <1>4 DEF PipelineInv

(* The clock preserves the invariant.                                      *)
LEMMA TickPreserves ==
    ASSUME TypeOK, PipelineInv, Tick
    PROVE  TypeOK' /\ PipelineInv'
<1>1. TypeOK'
  BY HttpAssumption DEF Tick, TypeOK
<1> QED
  BY <1>1 DEF Tick, PipelineInv, Exclusive, NotStarted, Active

(* The invariant holds when the node starts.                               *)
LEMMA InitPipeline == Init => TypeOK /\ PipelineInv
<1> SUFFICES ASSUME Init PROVE TypeOK /\ PipelineInv
  OBVIOUS
<1>1. idleRequest \in RequestType
  <2>1. "idle" \in Stages /\ 0 \in Errors /\ 0 \in 0 .. MaxTime
    BY HttpAssumption DEF Stages, Errors
  <2> QED
    BY <2>1 DEF idleRequest, RequestType, Owners
<1>2. TypeOK
  BY <1>1, NewContextType, HttpAssumption DEF Init, TypeOK
<1>3. \A r \in Requests : rq[r] = idleRequest /\ ~Active(r) /\ answer[r] = Nobody
  BY DEF Init, Active, idleRequest
<1>4. \A r \in Requests : History(r, rq[r])
  BY <1>3 DEF History, idleRequest
<1> QED
  BY <1>2, <1>3, <1>4 DEF PipelineInv, Exclusive, NotStarted
-----------------------------------------------------------------------------
(* The replay check.                                                       *)

(* What a request, its message and the cache must satisfy for ReplayInv.   *)
ReplayOK(r) ==
    /\ rq[r].pc \in {"exists", "put"} => now >= Msg(r).time - Window
    /\ rq[r].entered => rq[r].msg \in Messages /\ seen[Msg(r)] >= Msg(r).time + Window
    /\ \A q \in rq[r].before :
         /\ rq[q].entered
         /\ SharedCache /\ Msg(q) = Msg(r) => rq[r].looked >= Msg(r).time + Window

(* A step that leaves the cache, the clock and what a request has of them. *)
LEMMA ReplayKept ==
    ASSUME TypeOK, ReplayInv, NEW r \in Requests, NEW x,
           rq' = [rq EXCEPT ![r] = x], x.msg = rq[r].msg, x.entered = rq[r].entered,
           x.before = rq[r].before, x.looked = rq[r].looked,
           x.pc \notin {"exists", "put"} \/ x.pc = rq[r].pc,
           UNCHANGED <<now, seen>>
    PROVE  ReplayInv'
<1>1. rq'[r] = x /\ \A q \in Requests : q # r => rq'[q] = rq[q]
  BY DEF TypeOK
<1>2. \A q \in Requests : /\ rq'[q].msg = rq[q].msg /\ rq'[q].entered = rq[q].entered
                          /\ rq'[q].before = rq[q].before /\ rq'[q].looked = rq[q].looked
                          /\ rq'[q].pc \notin {"exists", "put"} \/ rq'[q].pc = rq[q].pc
  BY <1>1
<1>3. \A q \in Requests : rq[q].before \subseteq Requests
  BY DEF TypeOK, RequestType
<1> QED
  BY <1>2, <1>3 DEF ReplayInv, Msg

(* A request that returns to RenderHandleFilter, or passes on.             *)
LEMMA ReplayReturned ==
    ASSUME TypeOK, ReplayInv, NEW r \in Requests, UNCHANGED <<now, seen>>,
           rq' = rq \/ \E e \in Errors : rq' = Return(r, e)
    PROVE  ReplayInv'
<1>1. CASE rq' = rq
  BY <1>1 DEF ReplayInv, Msg
<1>2. ASSUME NEW e \in Errors, rq' = Return(r, e)
      PROVE  ReplayInv'
  <2> DEFINE x == Returned(rq[r], e)
  <2>1. /\ rq' = [rq EXCEPT ![r] = x] /\ x.pc = "render" /\ x.msg = rq[r].msg
        /\ x.entered = rq[r].entered /\ x.before = rq[r].before /\ x.looked = rq[r].looked
    BY <1>2, ReturnIs
  <2> HIDE DEF x
  <2> QED
    BY <2>1, ReplayKept
<1> QED
  BY <1>1, <1>2

(* The steps that neither look at the cache nor write to it.               *)
LEMMA OtherStepsReplay ==
    ASSUME TypeOK, PipelineInv, ReplayInv, NEW r \in Requests,
           \/ ExtFilter(r) \/ SessionFilter(r) \/ RoleFilter(r) \/ PostHandle(r)
           \/ Render(r) \/ Timeout(r) \/ replayError(r)
    PROVE  ReplayInv'
<1>1. {0, 400, 401, 500} \subseteq Errors /\ rq[r] \in RequestType
  BY DEF Errors, TypeOK
<1>2. CASE ExtFilter(r) \/ replayError(r) \/ Timeout(r)
  BY <1>1, <1>2, ReplayReturned DEF ExtFilter, replayError, Timeout
<1>3. CASE SessionFilter(r)
  <2>1. (rq' = rq \/ rq' = Return(r, 401)) /\ UNCHANGED <<now, seen>>
    BY <1>3 DEF SessionFilter
  <2> QED
    BY <1>1, <2>1, ReplayReturned
<1>4. CASE RoleFilter(r)
  <2>1. (rq' = rq \/ rq' = Return(r, 401) \/ rq' = Return(r, 500)) /\ UNCHANGED <<now, seen>>
    BY <1>4 DEF RoleFilter
  <2> QED
    BY <1>1, <2>1, ReplayReturned
<1>5. CASE Render(r)
  <2> DEFINE x == [rq[r] EXCEPT !.pc = "done", !.c = Nobody, !.err = 0]
  <2>1. rq' = [rq EXCEPT ![r] = x] /\ UNCHANGED <<now, seen>>
    BY <1>5 DEF Render
  <2>2. /\ x.pc = "done" /\ x.msg = rq[r].msg
        /\ x.entered = rq[r].entered /\ x.before = rq[r].before /\ x.looked = rq[r].looked
    BY <1>1 DEF RequestType
  <2> HIDE DEF x
  <2> QED
    BY <2>1, <2>2, ReplayKept
<1>6. CASE PostHandle(r)
  <2> DEFINE k == ctx[rq[r].c]
             as == IF k.data = Nobody THEN Nobody ELSE k.sub
             x(e) == [rq[r] EXCEPT !.pc = "render", !.err = e, !.handled = TRUE, !.as = as]
  <2>1. UNCHANGED <<now, seen>> /\ \E e \in {0, 500} : rq' = [rq EXCEPT ![r] = x(e)]
    BY <1>6, Zenon DEF PostHandle
  <2>2. PICK e \in {0, 500} : rq' = [rq EXCEPT ![r] = x(e)]
    BY <2>1
  <2>3. /\ x(e).pc = "render" /\ x(e).msg = rq[r].msg
        /\ x(e).entered = rq[r].entered /\ x(e).before = rq[r].before
        /\ x(e).looked = rq[r].looked
    BY <1>1 DEF RequestType
  <2> HIDE DEF x
  <2> QED
    BY <2>1, <2>2, <2>3, ReplayKept
<1> QED
  BY <1>2, <1>3, <1>4, <1>5, <1>6

(* A message is looked up only when it is not too far ahead of the clock.  *)
LEMMA readParamsReplay ==
    ASSUME TypeOK, PipelineInv, ReplayInv, NEW r \in Requests, readParams(r)
    PROVE  ReplayInv'
<1> DEFINE m == rq[r].msg
           x == [rq[r] EXCEPT !.pc = "exists"]
<1>1. UNCHANGED <<now, seen>> /\ rq[r] \in RequestType
  BY DEF readParams, TypeOK
<1>2. CASE rq' = rq \/ rq' = Return(r, 400)
  <2>1. 400 \in Errors
    BY DEF Errors
  <2> QED
    BY <1>1, <1>2, <2>1, ReplayReturned
<1>3. CASE m.time - now <= Window /\ rq' = [rq EXCEPT ![r] = x]
  <2>1. AtFilter(r, "Parameter")
    BY DEF readParams
  <2>2. m \in Messages /\ m.time \in Int /\ now \in Int /\ Window \in Int
    BY <2>1, AtFilterIs, HttpAssumption DEF TypeOK
  <2>3. now >= m.time - Window
    BY <1>3, <2>2
  <2>4. /\ x.pc = "exists" /\ x.msg = m
        /\ x.entered = rq[r].entered /\ x.before = rq[r].before /\ x.looked = rq[r].looked
    BY <1>1 DEF RequestType
  <2>5. rq'[r] = x /\ \A q \in Requests : q # r => rq'[q] = rq[q]
    BY <1>3 DEF TypeOK
  <2> HIDE DEF x
  <2>6. \A q \in Requests : /\ rq'[q].msg = rq[q].msg /\ rq'[q].entered = rq[q].entered
                            /\ rq'[q].before = rq[q].before /\ rq'[q].looked = rq[q].looked
                            /\ q = r \/ rq'[q].pc = rq[q].pc
    BY <2>4, <2>5
  <2>7. \A q \in Requests : rq[q].before \subseteq Requests
    BY DEF TypeOK, RequestType
  <2> QED
    BY <1>1, <2>3, <2>6, <2>7 DEF ReplayInv, Msg
<1> QED
  <2> DEFINE k == ctx[rq[r].c]
             t == [k EXCEPT !.token = IF m.token = "none" THEN Nobody ELSE r]
  <2>1. \/ rq' = rq \/ rq' = Return(r, 400)
        \/ BodyAcceptable(t, m) /\ rq' = [rq EXCEPT ![r] = x]
    BY Zenon DEF readParams, Msg
  <2>2. BodyAcceptable(t, m) => m.time - now <= Window
    BY DEF BodyAcceptable
  <2> HIDE DEF t, x
  <2> QED
    BY <1>2, <1>3, <2>1, <2>2

(* validReplayAttack finds no entry: whoever has put the message there     *)
(* before has seen it end, and it ends no earlier than the message.        *)
LEMMA replayExistsReplay ==
    ASSUME TypeOK, PipelineInv, ReplayInv, NEW r \in Requests, replayExists(r)
    PROVE  ReplayInv'
<1> DEFINE m == rq[r].msg
           x == [rq[r] EXCEPT !.pc = "put", !.before = Entered, !.looked = now]
<1>1. UNCHANGED <<now, seen>> /\ rq[r] \in RequestType /\ rq[r].pc = "exists"
  BY DEF replayExists, TypeOK
<1>2. CASE rq' = Return(r, 400)
  <2>1. 400 \in Errors
    BY DEF Errors
  <2> QED
    BY <1>1, <1>2, <2>1, ReplayReturned
<1>3. CASE (~SharedCache \/ seen[m] <= now) /\ rq' = [rq EXCEPT ![r] = x]
  <2>1. m \in Messages
    BY <1>1, ActiveIs DEF Active
  <2>2. m.time \in Int /\ now \in Int /\ Window \in Int /\ seen[m] \in Int
    BY <2>1, HttpAssumption DEF TypeOK
  <2>3. /\ x.pc = "put" /\ x.msg = m /\ x.entered = rq[r].entered
        /\ x.before = Entered /\ x.looked = now
    BY <1>1 DEF RequestType
  <2>4. rq'[r] = x /\ \A q \in Requests : q # r => rq'[q] = rq[q]
    BY <1>3 DEF TypeOK
  <2> HIDE DEF x
  <2>5. \A q \in Requests : /\ rq'[q].msg = rq[q].msg /\ rq'[q].entered = rq[q].entered
    BY <2>3, <2>4
  <2>6. \A q \in Entered : SharedCache /\ rq[q].msg = m => now >= m.time + Window
    BY <1>3, <2>1, <2>2 DEF ReplayInv, Entered, Msg
  <2>7. \A q \in Requests : rq[q].before \subseteq Requests
    BY DEF TypeOK, RequestType
  <2>8. ReplayOK(r)'
    BY <1>1, <2>3, <2>4, <2>5, <2>6 DEF ReplayInv, ReplayOK, Entered, Msg
  <2>9. ASSUME NEW q \in Requests, q # r PROVE ReplayOK(q)'
    BY <1>1, <2>4, <2>5, <2>7, <2>9 DEF ReplayInv, ReplayOK, Msg
  <2> QED
    BY <2>8, <2>9 DEF ReplayInv, ReplayOK
<1> QED
  BY <1>2, <1>3 DEF replayExists, Msg

(* The entry put now outlives the message, which is not too far ahead.     *)
LEMMA replayPutReplay ==
    ASSUME TypeOK, PipelineInv, ReplayInv, NEW r \in Requests, replayPut(r)
    PROVE  ReplayInv'
<1> DEFINE m == rq[r].msg
<1>1. now' = now /\ seen' = [seen EXCEPT ![m] = ReplayEnd] /\ rq[r] \in RequestType /\ rq[r].pc = "put"
  BY DEF replayPut, TypeOK, Msg
<1>2. m \in Messages
  BY <1>1, ActiveIs DEF Active
<1>3. m.time \in Int /\ now \in Int /\ Window \in Nat /\ seen[m] \in Int /\ ReplayTTL \in Nat
  BY <1>2, HttpAssumption DEF TypeOK
<1>4. seen'[m] >= m.time + Window
  <2>1. seen'[m] = now + ReplayTTL
    BY <1>1, <1>2 DEF TypeOK, ReplayEnd
  <2>2. now >= m.time - Window
    BY <1>1 DEF ReplayInv, Msg
  <2> QED
    BY <1>3, <2>1, <2>2, HttpAssumption
<1>5. \E x : /\ rq' = [rq EXCEPT ![r] = x] /\ x.pc \in {"chain", "render"} /\ x.msg = m
             /\ x.entered = TRUE /\ x.before = rq[r].before /\ x.looked = rq[r].looked
  <2>1. CASE Decodes(ctx[rq[r].c], m)
    <3> DEFINE x == [rq[r] EXCEPT !.pc = "chain", !.entered = TRUE]
    <3>1. rq' = [rq EXCEPT ![r] = x]
      BY <2>1 DEF replayPut, Msg
    <3>2. /\ x.pc = "chain" /\ x.msg = m
          /\ x.entered = TRUE /\ x.before = rq[r].before /\ x.looked = rq[r].looked
      BY <1>1 DEF RequestType
    <3> QED
      BY <3>1, <3>2
  <2>2. CASE ~Decodes(ctx[rq[r].c], m)
    <3> DEFINE x == [rq[r] EXCEPT !.pc = "render", !.err = 400, !.entered = TRUE]
    <3>1. rq' = [rq EXCEPT ![r] = x]
      BY <2>2 DEF replayPut, Msg
    <3>2. /\ x.pc = "render" /\ x.msg = m
          /\ x.entered = TRUE /\ x.before = rq[r].before /\ x.looked = rq[r].looked
      BY <1>1 DEF RequestType
    <3> QED
      BY <3>1, <3>2
  <2> QED
    BY <2>1, <2>2
<1>6. PICK x : /\ rq' = [rq EXCEPT ![r] = x] /\ x.pc \in {"chain", "render"} /\ x.msg = m
               /\ x.entered = TRUE /\ x.before = rq[r].before /\ x.looked = rq[r].looked
  BY <1>5
<1>7. rq'[r] = x /\ \A q \in Requests : q # r => rq'[q] = rq[q]
  BY <1>6 DEF TypeOK
<1>8. \A q \in Requests : /\ rq'[q].msg = rq[q].msg /\ rq'[q].before = rq[q].before
                          /\ rq'[q].looked = rq[q].looked
                          /\ rq[q].entered => rq'[q].entered
                          /\ q # r => rq'[q].entered = rq[q].entered
  BY <1>6, <1>7
<1>9. \A n \in Messages : n # m => seen'[n] = seen[n]
  BY <1>1, <1>2 DEF TypeOK
<1>10. ASSUME NEW q \in Requests PROVE ReplayOK(q)'
  <2>1. rq'[q].pc \in {"exists", "put"} => rq'[q] = rq[q]
    BY <1>6, <1>7
  <2>2. rq'[q].entered => rq'[q].msg \in Messages /\ seen'[rq'[q].msg] >= rq'[q].msg.time + Window
    BY <1>2, <1>4, <1>6, <1>7, <1>8, <1>9 DEF ReplayInv, Msg
  <2>3. rq[q].before \subseteq Requests
    BY DEF TypeOK, RequestType
  <2> QED
    BY <1>1, <1>8, <2>1, <2>2, <2>3 DEF ReplayInv, ReplayOK, Msg
<1> QED
  BY <1>10 DEF ReplayInv, ReplayOK

(* A request that starts has put nothing into the cache.                   *)
LEMMA doRequestReplay ==
    ASSUME TypeOK, PipelineInv, ReplayInv, NEW r \in Requests, NEW m \in Messages, doRequest(r, m)
    PROVE  ReplayInv'
<1>1. PICK c \in Contexts : rq' = [rq EXCEPT ![r] = [rq[r] EXCEPT !.pc = "chain", !.msg = m, !.c = c]]
  BY DEF doRequest
<1>2. UNCHANGED <<now, seen>> /\ rq[r] = idleRequest /\ rq[r] \in RequestType
  BY DEF doRequest, PipelineInv, NotStarted, TypeOK
<1> DEFINE x == [rq[r] EXCEPT !.pc = "chain", !.msg = m, !.c = c]
<1>3. x.pc = "chain" /\ x.entered = FALSE /\ x.before = {}
  <2>1. x.pc = "chain" /\ x.entered = rq[r].entered /\ x.before = rq[r].before
    BY <1>2 DEF RequestType
  <2>2. rq[r].entered = FALSE /\ rq[r].before = {}
    BY <1>2 DEF idleRequest
  <2> QED
    BY <2>1, <2>2
<1>4. rq[r].entered = FALSE
  BY <1>2 DEF idleRequest
<1>5. rq'[r] = x /\ \A q \in Requests : q # r => rq'[q] = rq[q]
  BY <1>1 DEF TypeOK
<1> HIDE DEF x
<1>6. ReplayOK(r)'
  BY <1>3, <1>5 DEF ReplayOK
<1>7. ASSUME NEW q \in Requests, q # r PROVE ReplayOK(q)'
  <2>1. rq[q].before \subseteq Requests /\ r \notin rq[q].before
    BY <1>4 DEF TypeOK, RequestType, ReplayInv
  <2>2. rq'[q] = rq[q] /\ \A p \in rq[q].before : rq'[p] = rq[p]
    BY <1>5, <1>7, <2>1
  <2> QED
    BY <1>2, <2>2 DEF ReplayInv, ReplayOK, Msg
<1> QED
  BY <1>6, <1>7 DEF ReplayInv, ReplayOK

(* The clock only goes forward.                                            *)
LEMMA TickReplay ==
    ASSUME TypeOK, PipelineInv, ReplayInv, Tick
    PROVE  ReplayInv'
<1>1. \A r \in Requests : rq[r].pc \in {"exists", "put"} => Msg(r).time \in Int
  BY HttpAssumption DEF PipelineInv, Exclusive, Active, Msg
<1> QED
  BY <1>1, HttpAssumption DEF Tick, TypeOK, ReplayInv, Msg

-----------------------------------------------------------------------------
(* The inductive invariant and the theorems.                               *)

(* The invariant holds initially.                                          *)
LEMMA InitIInv == Init => IInv
<1>1. Init => ReplayInv
  BY DEF Init, ReplayInv, idleRequest
<1> QED
  BY <1>1, InitPipeline DEF IInv

(* Every step preserves the invariant.                                     *)
LEMMA NextIInv == IInv /\ [Next]_vars => IInv'
<1> SUFFICES ASSUME IInv, [Next]_vars PROVE IInv'
  OBVIOUS
<1> USE DEF IInv
<1>1. ASSUME NEW r \in Requests, NEW m \in Messages, doRequest(r, m) PROVE IInv'
  BY <1>1, doRequestPreserves, doRequestReplay
<1>2. ASSUME NEW r \in Requests, ExtFilter(r) PROVE IInv'
  BY <1>2, ExtFilterPreserves, OtherStepsReplay
<1>3. ASSUME NEW r \in Requests, readParams(r) PROVE IInv'
  BY <1>3, readParamsPreserves, readParamsReplay
<1>4. ASSUME NEW r \in Requests, replayExists(r) PROVE IInv'
  BY <1>4, replayExistsPreserves, replayExistsReplay
<1>5. ASSUME NEW r \in Requests, replayPut(r) PROVE IInv'
  BY <1>5, replayPutPreserves, replayPutReplay
<1>6. ASSUME NEW r \in Requests, replayError(r) PROVE IInv'
  BY <1>6, replayErrorPreserves, OtherStepsReplay
<1>7. ASSUME NEW r \in Requests, SessionFilter(r) PROVE IInv'
  BY <1>7, SessionFilterPreserves, OtherStepsReplay
<1>8. ASSUME NEW r \in Requests, RoleFilter(r) PROVE IInv'
  BY <1>8, RoleFilterPreserves, OtherStepsReplay
<1>9. ASSUME NEW r \in Requests, PostHandle(r) PROVE IInv'
  BY <1>9, PostHandlePreserves, OtherStepsReplay
<1>10. ASSUME NEW r \in Requests, Render(r) PROVE IInv'
  BY <1>10, RenderPreserves, OtherStepsReplay
<1>11. ASSUME NEW r \in Requests, Timeout(r) PROVE IInv'
  BY <1>11, TimeoutPreserves, OtherStepsReplay
<1>12. ASSUME NEW c \in Contexts, PoolDrop(c) PROVE IInv'
  <2>1. ReplayInv'
    BY <1>12 DEF PoolDrop, ReplayInv, Msg
  <2> QED
    BY <1>12, <2>1, PoolDropPreserves
<1>13. CASE Tick
  BY <1>13, TickPreserves, TickReplay
<1>14. CASE UNCHANGED vars
  BY <1>14 DEF vars, TypeOK, PipelineInv, Exclusive, NotStarted, Active, ReplayInv, Msg
<1> QED
  BY <1>1, <1>2, <1>3, <1>4, <1>5, <1>6, <1>7, <1>8, <1>9, <1>10, <1>11, <1>12, <1>13, <1>14
     DEF Next, Step

(* The invariant holds in every reachable state of the pipeline.           *)
LEMMA Invariance == Spec => []IInv
  BY InitIInv, NextIInv, PTL DEF Spec

(* Every field of a Context, a request and an answer has the values the    *)
(* code gives it, in every reachable state.                                *)
THEOREM TypeCorrect == Spec => []TypeOK
<1>1. IInv => TypeOK
  BY DEF IInv
<1> QED
  BY <1>1, Invariance, PTL

(* However contexts are reused, a request is handled as its own subject,   *)
(* and its client receives at most one body, of its own entity and under   *)
(* its own random code or token (reset, defaultRenderPre, TimeoutHandler). *)
THEOREM AnswersAreOwn == Spec => []ResponseIsOwn
<1>1. IInv => ResponseIsOwn
  BY DEF IInv, PipelineInv, History, OwnAnswer, ResponseIsOwn
<1> QED
  BY <1>1, Invariance, PTL

(* With a shared cache whose entries live at least twice the window, a     *)
(* message is accepted again only by an overlapping request or in the last *)
(* second of its validity (validReplayAttack, validJsonBody).              *)
THEOREM ReplaysRefused == Spec => []ReplayRefused
<1>1. IInv => ReplayRefused
  BY DEF IInv, ReplayInv, ReplayRefused
<1> QED
  BY <1>1, Invariance, PTL
(* The roles a realm gives a subject are listed once each; RoleFilter      *)
(* counts matches, and a role listed twice would count twice.              *)
RolesListedOnce == \A m \in Messages : IsInjective(m.has)

(* RoleFilter's count decides what it is meant to decide.                  *)
LEMMA RolesGranted ==
    ASSUME NEW need \in Seq(Int), NEW has \in Seq(Int), IsInjective(has), NEW all,
           RoleAccess(need, has, all)
    PROVE  IF all THEN Range(need) \subseteq Range(has) ELSE Range(need) \cap Range(has) # {}
<1> DEFINE H == 1 .. Len(has)
           N == 1 .. Len(need)
           P == { p \in H \X N : has[p[1]] = need[p[2]] }
           f == [p \in P |-> p[2]]
<1>1. Len(has) \in Nat /\ Len(need) \in Nat /\ DOMAIN has = H /\ DOMAIN need = N
  OBVIOUS
<1>2. IsFiniteSet(N) /\ Cardinality(N) = Len(need)
  <2>1. \A n \in Nat : IsFiniteSet(1 .. n) /\ Cardinality(1 .. n) = n
    BY FS_Interval
  <2> QED
    BY <1>1, <2>1
<1>3. f \in Injection(P, N)
  <2>1. f \in [P -> N]
    OBVIOUS
  <2>2. ASSUME NEW p \in P, NEW q \in P, p[2] = q[2] PROVE p = q
    <3>1. p[1] \in H /\ q[1] \in H /\ has[p[1]] = has[q[1]]
      BY <2>2
    <3>2. p[1] = q[1]
      BY <1>1, <3>1 DEF IsInjective
    <3> QED
      BY <2>2, <3>2, SMTT(90)
  <2> QED
    BY <2>1, <2>2 DEF Injection, IsInjective
<1>4. IsFiniteSet(P) /\ Cardinality(P) <= Len(need) /\ Cardinality(P) \in Nat
  BY <1>2, <1>3, FS_Injection, FS_CardinalityType
<1>5. CASE all
  <2>1. Cardinality(P) >= Len(need)
    BY <1>5 DEF RoleAccess
  <2>2. Cardinality(P) = Cardinality(N)
    BY <1>1, <1>2, <1>4, <2>1
  <2>3. f \in Surjection(P, N)
    BY <1>2, <1>3, <2>2, FS_Injection
  <2>4. ASSUME NEW j \in N PROVE \E i \in H : has[i] = need[j]
    <3>1. PICK p \in P : f[p] = j
      BY <2>3 DEF Surjection
    <3>2. p[2] = j /\ p[1] \in H /\ has[p[1]] = need[p[2]]
      BY <3>1
    <3> QED
      BY <3>2
  <2> QED
    BY <1>1, <1>5, <2>4 DEF Range
<1>6. CASE ~all
  <2>1. Cardinality(P) > 0
    BY <1>6 DEF RoleAccess
  <2>2. P # {}
    <3> HIDE DEF P
    <3> QED
      BY <1>4, <2>1, FS_EmptySet
  <2>3. PICK p \in P : TRUE
    BY <2>2
  <2>4. p[1] \in H /\ p[2] \in N /\ has[p[1]] = need[p[2]]
    BY <2>3
  <2>5. need[p[2]] \in Range(need) \cap Range(has)
    BY <1>1, <2>4 DEF Range
  <2> QED
    BY <1>6, <2>5
<1> QED
  BY <1>5, <1>6

(* What the filters let through satisfies the route.                       *)
LEMMA AdmittedIsAuthorised ==
    ASSUME RolesListedOnce, NEW m \in Messages, Admitted(m)
    PROVE  Authorised(m)
<1>1. m.has \in Seq(Int) /\ m.route.need \in Seq(Int) /\ IsInjective(m.has)
  BY HttpAssumption DEF RolesListedOnce
<1>2. RoleAccess(m.route.need, m.has, m.route.all) =>
        IF m.route.all THEN Range(m.route.need) \subseteq Range(m.has)
        ELSE Range(m.route.need) \cap Range(m.has) # {}
  BY <1>1, RolesGranted
<1> QED
  BY <1>2 DEF Admitted, Signed, Authorised

(* If no subject is given a role twice, a handler runs only for a request  *)
(* whose own message has what its route demands, for every set of          *)
(* registered filters and every interleaving of requests over the pooled   *)
(* contexts (readParams, SessionFilter, RoleFilter, PostHandleFilter).     *)
THEOREM HandlersAuthorised ==
    ASSUME RolesListedOnce
    PROVE  Spec => []HandledOnlyAuthorised
<1>1. ASSUME IInv PROVE HandledOnlyAuthorised
  <2>1. \A r \in Requests : rq[r].handled => Admitted(rq[r].msg)
    BY <1>1 DEF IInv, PipelineInv, History
  <2>2. \A r \in Requests : rq[r].handled => rq[r].msg \in Messages
    BY <1>1 DEF IInv, PipelineInv, History
  <2> QED
    BY <2>1, <2>2, AdmittedIsAuthorised DEF HandledOnlyAuthorised, Msg
<1> QED
  BY <1>1, Invariance, PTL
-----------------------------------------------------------------------------
(* The graceful listener.                                                  *)

CloserStates == {"idle", "mark", "check", "wait", "nil", "error"}

ListenerTypes ==
    /\ count \in Nat /\ shutdown \in Nat /\ done \in Nat
    /\ conn \in [Conns -> ConnStates]
    /\ dec \in [Conns -> Nat]
    /\ pc \in [Closers -> CloserStates]

(* The flag is set before the count is read: a Close that reads it or      *)
(* waits has set the flag.                                                 *)
FlagSet == \A t \in Closers : pc[t] \in {"check", "wait"} => shutdown > 0

ListenerInv == ListenerTypes /\ FlagSet /\ NoLostSignal

(* The connections that are counted are finitely many.                     *)
LEMMA CountedFinite == IsFiniteSet(Counted)
  BY ConnsAssumption, FS_Subset DEF Counted

(* A connection that moves between two counted states, or two uncounted    *)
(* ones, changes the count of none.                                        *)
LEMMA CountKept ==
    ASSUME ListenerTypes, NEW c \in Conns, NEW s \in ConnStates, Move(c, s),
           conn[c] \in {"open", "closing", "stuck"} <=> s \in {"open", "closing", "stuck"}
    PROVE  Counted' = Counted
<1>1. conn'[c] = s /\ \A d \in Conns : d # c => conn'[d] = conn[d]
  BY DEF ListenerTypes, Move
<1> QED
  BY <1>1 DEF Counted

(* Every step of the listener, its connections and its closers preserves   *)
(* the invariant.                                                          *)
LEMMA ListenerStep == ListenerInv /\ [NextListener]_listenerVars => ListenerInv'
<1> SUFFICES ASSUME ListenerInv, [NextListener]_listenerVars PROVE ListenerInv'
  OBVIOUS
<1> DEFINE Signalled == done > 0 \/ \E c \in Conns : conn[c] = "lowered" /\ dec[c] = 0
           Heard == \A t \in Closers : pc[t] = "wait" /\ count = 0 => Signalled
<1>0. ListenerTypes /\ FlagSet /\ count = Cardinality(Counted) /\ Heard
  BY DEF ListenerInv, NoLostSignal
<1>q. ASSUME ListenerTypes', FlagSet', (count = Cardinality(Counted))', Heard'
      PROVE  ListenerInv'
  BY <1>q DEF ListenerInv, NoLostSignal
<1>1. ASSUME NEW c \in Conns, Accept(c) PROVE ListenerInv'
  <2>1. "accepted" \in ConnStates
    BY DEF ConnStates
  <2>2. ListenerTypes' /\ FlagSet'
    BY <1>0, <1>1, <2>1 DEF Accept, Move, ListenerTypes, FlagSet
  <2>3. Counted' = Counted
    BY <1>0, <1>1, <2>1, CountKept DEF Accept
  <2>4. Heard'
    BY <1>0, <1>1 DEF Accept, Move, ListenerTypes
  <2> QED
    BY <1>0, <1>1, <1>q, <2>2, <2>3, <2>4 DEF Accept
<1>2. ASSUME NEW c \in Conns, AcceptCount(c) PROVE ListenerInv'
  <2>1. "open" \in ConnStates
    BY DEF ConnStates
  <2>2. ListenerTypes' /\ FlagSet'
    BY <1>0, <1>2, <2>1 DEF AcceptCount, Move, ListenerTypes, FlagSet
  <2>3. Counted' = Counted \cup {c} /\ c \notin Counted
    BY <1>0, <1>2 DEF AcceptCount, Move, ListenerTypes, Counted
  <2>4. Cardinality(Counted') = Cardinality(Counted) + 1
    BY <2>3, CountedFinite, FS_AddElement
  <2>5. (count = Cardinality(Counted))'
    BY <1>0, <1>2, <2>4 DEF AcceptCount
  <2>6. count' # 0
    BY <1>0, <1>2 DEF AcceptCount, ListenerTypes
  <2> QED
    BY <1>q, <2>2, <2>5, <2>6
<1>3. ASSUME NEW c \in Conns, ConnClose(c) PROVE ListenerInv'
  <2>1. PICK s \in {"closing", "stuck"} : Move(c, s)
    BY <1>3 DEF ConnClose
  <2>2. s \in ConnStates
    BY DEF ConnStates
  <2>3. ListenerTypes' /\ FlagSet'
    BY <1>0, <1>3, <2>1, <2>2 DEF ConnClose, Move, ListenerTypes, FlagSet
  <2>4. Counted' = Counted
    BY <1>0, <1>3, <2>1, <2>2, CountKept DEF ConnClose
  <2>5. Heard'
    BY <1>0, <1>3, <2>1 DEF ConnClose, Move, ListenerTypes
  <2> QED
    BY <1>0, <1>3, <1>q, <2>3, <2>4, <2>5 DEF ConnClose
<1>4. ASSUME NEW c \in Conns, Lower(c) PROVE ListenerInv'
  <2>1. "lowered" \in ConnStates
    BY DEF ConnStates
  <2>2. Counted' = Counted \ {c} /\ c \in Counted
    BY <1>0, <1>4 DEF Lower, Move, ListenerTypes, Counted
  <2>3. Cardinality(Counted') = Cardinality(Counted) - 1 /\ Cardinality(Counted) > 0
    <3>1. Cardinality(Counted') = Cardinality(Counted) - 1
      BY <2>2, CountedFinite, FS_RemoveElement
    <3>2. Cardinality(Counted) \in Nat
      BY CountedFinite, FS_CardinalityType
    <3>3. Cardinality(Counted) # 0
      BY <2>2, CountedFinite, FS_EmptySet
    <3> QED
      BY <3>1, <3>2, <3>3
  <2>4. count - 1 \in Nat /\ count' = count - 1
    BY <1>0, <1>4, <2>3 DEF Lower, ListenerTypes
  <2>5. ListenerTypes' /\ FlagSet'
    BY <1>0, <1>4, <2>1, <2>4 DEF Lower, Move, ListenerTypes, FlagSet
  <2>6. (count = Cardinality(Counted))'
    BY <1>0, <2>3, <2>4
  <2>7. conn'[c] = "lowered" /\ dec'[c] = count'
    BY <1>0, <1>4 DEF Lower, Move, ListenerTypes
  <2> QED
    BY <1>q, <2>5, <2>6, <2>7
<1>5. ASSUME NEW c \in Conns, Signal(c) PROVE ListenerInv'
  <2>1. "closed" \in ConnStates
    BY DEF ConnStates
  <2>2. ListenerTypes' /\ FlagSet'
    BY <1>0, <1>5, <2>1 DEF Signal, Move, ListenerTypes, FlagSet
  <2>3. Counted' = Counted
    BY <1>0, <1>5, <2>1, CountKept DEF Signal
  <2>4. ASSUME NEW t \in Closers, pc'[t] = "wait", count' = 0 PROVE Signalled'
    <3>1. Signalled /\ shutdown # 0 /\ pc' = pc
      BY <1>0, <1>5, <2>4 DEF Signal, FlagSet, ListenerTypes
    <3>2. CASE done > 0 \/ dec[c] = 0
      BY <1>0, <1>5, <3>1, <3>2 DEF Signal, ListenerTypes
    <3>3. CASE ~(done > 0) /\ dec[c] # 0
      <4>1. PICK d \in Conns : conn[d] = "lowered" /\ dec[d] = 0
        BY <3>1, <3>3
      <4>2. conn'[d] = conn[d] /\ dec'[d] = dec[d]
        BY <1>0, <1>5, <3>3, <4>1 DEF Signal, Move, ListenerTypes
      <4> QED
        BY <4>1, <4>2
    <3> QED
      BY <3>2, <3>3
  <2> QED
    BY <1>0, <1>5, <1>q, <2>2, <2>3, <2>4 DEF Signal
<1>6. ASSUME NEW t \in Closers, Close(t) \/ Mark(t) \/ WaitDone(t) \/ WaitTimeout(t)
      PROVE  ListenerInv'
  <2>1. {"nil", "mark", "check", "error"} \subseteq CloserStates
    BY DEF CloserStates
  <2>2. UNCHANGED <<count, done, conn, dec>> /\ Counted' = Counted
    BY <1>6 DEF Close, Mark, WaitDone, WaitTimeout, Counted
  <2>3. \E l \in {"nil", "mark", "check", "error"} :
          /\ pc' = [pc EXCEPT ![t] = l]
          /\ \/ shutdown' = shutdown + 1
             \/ shutdown' = shutdown /\ l # "check"
    BY <1>6 DEF Close, Mark, WaitDone, WaitTimeout, Goto
  <2>4. ListenerTypes'
    BY <1>0, <2>1, <2>2, <2>3 DEF ListenerTypes
  <2>5. FlagSet'
    BY <1>0, <2>3 DEF FlagSet, ListenerTypes
  <2>6. \A u \in Closers : pc'[u] = "wait" => pc[u] = "wait"
    BY <1>0, <2>3 DEF ListenerTypes
  <2> QED
    BY <1>0, <1>q, <2>2, <2>4, <2>5, <2>6
<1>7. ASSUME NEW t \in Closers, Check(t) PROVE ListenerInv'
  <2>1. {"nil", "wait"} \subseteq CloserStates
    BY DEF CloserStates
  <2>2. UNCHANGED <<count, shutdown, conn, dec>> /\ Counted' = Counted
    BY <1>7 DEF Check, Counted
  <2>3. \/ count = 0 /\ done' = done + 1 /\ pc' = [pc EXCEPT ![t] = "nil"]
        \/ count # 0 /\ done' = done /\ pc' = [pc EXCEPT ![t] = "wait"]
    BY <1>7 DEF Check, Goto
  <2>4. ListenerTypes'
    BY <1>0, <2>1, <2>2, <2>3 DEF ListenerTypes
  <2>5. FlagSet'
    BY <1>0, <1>7, <2>2, <2>3 DEF FlagSet, ListenerTypes, Check
  <2>6. Heard'
    BY <1>0, <2>2, <2>3 DEF ListenerTypes
  <2> QED
    BY <1>0, <1>q, <2>2, <2>4, <2>5, <2>6
<1>8. CASE UNCHANGED listenerVars
  BY <1>0, <1>8, <1>q DEF listenerVars, ListenerTypes, FlagSet, Counted
<1> HIDE DEF Heard
<1> QED
  BY <1>1, <1>2, <1>3, <1>4, <1>5, <1>6, <1>7, <1>8 DEF NextListener

(* For any number of connections and of goroutines that call Close, the    *)
(* count is that of the open connections, and no Close is left waiting     *)
(* when the last of them is gone (closeConn, waitForZeroConns).            *)
THEOREM SignalsNotLost == ListenerSpec => []NoLostSignal
<1>1. InitListener => ListenerInv
  <2> SUFFICES ASSUME InitListener PROVE ListenerInv
    OBVIOUS
  <2>1. ListenerTypes
    BY DEF InitListener, ListenerTypes, ConnStates, CloserStates
  <2>2. Counted = {}
    BY DEF InitListener, Counted
  <2> QED
    BY <2>1, <2>2, FS_EmptySet DEF InitListener, ListenerInv, FlagSet, NoLostSignal
<1>2. ListenerInv => NoLostSignal
  BY DEF ListenerInv
<1> QED
  BY <1>1, <1>2, ListenerStep, PTL DEF ListenerSpec
=============================================================================

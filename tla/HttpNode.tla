------------------------------ MODULE HttpNode ------------------------------
(***************************************************************************)
(* The request pipeline of node/node_http.go, node/node.go, node/filter.go *)
(* and utils/jwt/subject.go: a Context is taken out of the sync.Pool and   *)
(* reset, the filter chain reads and verifies the request, runs the        *)
(* handler and renders its answer, and the Context goes back to the pool   *)
(* for the next request, while fasthttp's TimeoutHandler may answer the    *)
(* client earlier.                                                         *)
(*                                                                         *)
(* Data is abstracted to its origin.  What a Context holds (token bytes,   *)
(* payload, body, random code, entity, output) is the request it came      *)
(* from, or Nobody; a signature is the message it was computed over and    *)
(* the key it was computed with.                                           *)
(***************************************************************************)
EXTENDS Integers, Sequences, FiniteSets, SequencesExt

CONSTANTS
  Requests,    \* the requests that arrive
  Contexts,    \* Context objects of ctxPool
  Messages,    \* the messages a request may carry: what Header and Body hold
  ExtFilters,  \* filters registered with AddFilter: [name, order, tie]
  SharedCache, \* TRUE iff CacheAware returns the same cache at every call
  Window,      \* jwt.FIVE_MINUTES, in seconds of the model
  ReplayTTL,   \* the 600 seconds a signature stays in the cache
  MaxTime,     \* bound on the clock
  Nobody

\* The cache keeps a signature for as long as its message may be accepted: 600
\* seconds, with five minutes of skew on either side.
ASSUME HttpAssumption ==
  /\ Nobody \notin Requests \cup Contexts \cup Messages
  /\ Window \in Nat /\ MaxTime \in Nat /\ MaxTime >= Window
  /\ ReplayTTL \in Nat /\ ReplayTTL >= 2 * Window
  /\ \A m \in Messages : m.time \in Int /\ m.has \in Seq(Int) /\ m.route.need \in Seq(Int)

VARIABLES
  remote,  \* TRUE iff SetEncipher gave the node a remote encipher
  now,     \* utils.UnixSecond()
  pool,    \* the contexts lying in ctxPool
  ctx,     \* ctx[c]: the fields of Context c
  rq,      \* rq[r]: where request r is, its Context, its error and history
  seen,    \* seen[m]: when the cache entry of m's signature ends, 0 if none
  answer   \* answer[r]: what the client of r received, if anything

vars == <<remote, now, pool, ctx, rq, seen, answer>>

-----------------------------------------------------------------------------
(* The filter chain *)

MinInt == -1000
MaxInt == 1000

FilterMap ==
  { [name |-> "Gateway",   order |-> -100,   tie |-> 0],
    [name |-> "Parameter", order |-> -90,    tie |-> 0],
    [name |-> "Session",   order |-> -80,    tie |-> 0],
    [name |-> "UserRate",  order |-> -70,    tie |-> 0],
    [name |-> "Role",      order |-> -60,    tie |-> 0],
    [name |-> "Post",      order |-> MaxInt, tie |-> 0],
    [name |-> "Render",    order |-> MinInt, tie |-> 0] }

Filters == FilterMap \cup ExtFilters

\* The sort by Order is not stable: tie stands for the place it happens to give
\* a filter among those of its order.
Before(f) == { g \in Filters : g.order < f.order \/ (g.order = f.order /\ g.tie < f.tie) }

createFilterChain ==
  [i \in 1..Cardinality(Filters) |-> CHOOSE f \in Filters : Cardinality(Before(f)) = i - 1]

\* A name registered twice makes createFilterChain panic at the start.
ASSUME FiltersAssumption ==
  /\ IsFiniteSet(ExtFilters)
  /\ \A f \in ExtFilters : f.order \in Int /\ f.tie \in Int
  /\ \A f \in ExtFilters, g \in FilterMap : f.name # g.name
  /\ \A f, g \in Filters :
       f.name = g.name \/ (f.order = g.order /\ f.tie = g.tie) => f = g

\* Gateway and UserRate have their limiters commented out and only call the
\* chain; Render, the first of the chain, works when the chain returns to it.
PassThrough(i) == createFilterChain[i].name \in {"Render", "Gateway", "UserRate"}

\* chain.DoFilter after position p: the next filter with something to do, or
\* the end of the chain.
Following(p) ==
  Min({ i \in (p + 1)..Len(createFilterChain) : ~PassThrough(i) } \cup {Len(createFilterChain) + 1})

-----------------------------------------------------------------------------
(* Context objects *)

\* What the New function of the pool builds.
newContext ==
  [route |-> Nobody, completed |-> FALSE, pos |-> 1, data |-> Nobody, plan |-> 0,
   token |-> Nobody, payload |-> Nobody, sub |-> Nobody, code |-> Nobody,
   ctype |-> "json", entity |-> Nobody, status |-> 0, out |-> <<>>]

resetJsonBody(c) == [c EXCEPT !.data = Nobody, !.plan = 0]

\* Faulty: the output buffer is not reset.
resetResponseKeepsOutput(c) == [c EXCEPT !.entity = Nobody, !.status = 0]

\* ContentType keeps what the last request left in it.
resetResponse(c) == [c EXCEPT !.entity = Nobody, !.status = 0, !.out = <<>>]

\* Faulty: the token bytes are left.
resetSubjectKeepsToken(c) == [c EXCEPT !.sub = Nobody, !.payload = Nobody]

resetSubject(c) == [c EXCEPT !.sub = Nobody, !.token = Nobody, !.payload = Nobody]

resetTokenStorage(c) == [c EXCEPT !.code = Nobody]

reset(c, m) ==
  LET started == [c EXCEPT !.route = m.route, !.completed = FALSE, !.pos = Following(0)]
  IN  resetTokenStorage(resetSubject(resetResponse(resetJsonBody(started))))

idleRequest ==
  [pc |-> "idle", msg |-> Nobody, c |-> Nobody, err |-> 0, before |-> {}, looked |-> 0,
   entered |-> FALSE, handled |-> FALSE, as |-> Nobody]

Init ==
  /\ remote \in BOOLEAN
  /\ now = Window
  /\ pool = {}
  /\ ctx = [c \in Contexts |-> newContext]
  /\ rq = [r \in Requests |-> idleRequest]
  /\ seen = [m \in Messages |-> 0]
  /\ answer = [r \in Requests |-> Nobody]

\* The message whose token bytes, header or body a Context field points into.
Msg(r) == rq[r].msg

\* The contexts out of the pool: those of the requests on their way.
InUse == { rq[r].c : r \in { q \in Requests : rq[q].pc \notin {"idle", "done"} } }

-----------------------------------------------------------------------------
(* doRequest: Get returns any pooled context, or a new one. *)

doRequest(r, m) ==
  /\ rq[r].pc = "idle"
  /\ \E c \in Contexts :
       /\ c \notin InUse
       /\ \/ c \in pool
          \/ ctx[c] = newContext
       /\ pool' = pool \ {c}
       /\ ctx' = [ctx EXCEPT ![c] = reset(@, m)]
       /\ rq' = [rq EXCEPT ![r] = [@ EXCEPT !.pc = "chain", !.msg = m, !.c = c]]
  /\ UNCHANGED <<remote, now, seen, answer>>

\* Every filter but Render calls the chain as the last thing it does, so an
\* error or the end of the chain leads straight back to RenderHandleFilter.
Return(r, err) == [rq EXCEPT ![r] = [@ EXCEPT !.pc = "render", !.err = err]]

\* chain.DoFilter picks the next filter; pos is raised before it runs.
AtFilter(r, name) ==
  LET c == ctx[rq[r].c] IN
  /\ rq[r].pc = "chain"
  /\ c.pos <= Len(createFilterChain)
  /\ createFilterChain[c.pos].name = name

Pass(r) == [ctx EXCEPT ![rq[r].c].pos = Following(@)]

\* A registered filter: passed over when its MatchPattern is for other paths
\* or when it calls the chain, or it stops the chain, with an error or without.
ExtFilter(r) ==
  /\ \E f \in ExtFilters : AtFilter(r, f.name)
  /\ ctx' = Pass(r)
  /\ rq' \in {rq, Return(r, 0), Return(r, 400)}
  /\ UNCHANGED <<remote, now, pool, seen, answer>>

-----------------------------------------------------------------------------
(* ParameterFilter: readParams and validJsonBody *)

\* UseRSA routes are signed with the public key, the others with the secret
\* of the token.  A remote encipher is asked for TokenSignature(checkBody, "")
\* and its answer is never the signature of a message.
SignatureValid(c, m) ==
  IF c.route.rsa THEN m.signed = "server"
  ELSE ~remote /\ m.signed = "token" /\ c.token # Nobody

\* Everything validJsonBody looks at before the signature is entered.
BodyAcceptable(c, m) ==
  /\ m.body = "ok"
  /\ m.plan \in {0, 1, 2}
  /\ now - m.time <= Window /\ m.time - now <= Window
  /\ c.route.aesReq => m.plan = 1
  /\ m.plan \in {0, 1} => c.token # Nobody
  /\ m.plan = 2 => c.route.rsa
  /\ SignatureValid(c, m)

\* The payload in the clear; plan 2 also keeps the client's random code.
Decodes(c, m) ==
  \/ m.plan \in {0, 1} /\ ~c.route.rsa /\ m.data
  \/ m.plan = 2 /\ c.route.rsa /\ m.code = "ok" /\ m.data

readParams(r) ==
  LET c == ctx[rq[r].c]
      m == Msg(r)
      tokenRead == [c EXCEPT !.token = IF m.token = "none" THEN Nobody ELSE r]
  IN
  /\ AtFilter(r, "Parameter")
  /\ \/ /\ ~c.route.post
        /\ ctx' = Pass(r)
        /\ UNCHANGED rq
     \/ /\ c.route.post /\ c.route.guest
        /\ ctx' = [ctx EXCEPT ![rq[r].c] = [c EXCEPT !.pos = Following(@),
                                !.data = IF m.body = "none" THEN Nobody ELSE r]]
        /\ UNCHANGED rq
     \/ /\ c.route.post /\ ~c.route.guest /\ m.token = "long"
        /\ ctx' = Pass(r)
        /\ rq' = Return(r, 400)
     \/ /\ c.route.post /\ ~c.route.guest /\ m.token # "long"
        /\ ctx' = [ctx EXCEPT ![rq[r].c] =
                     [tokenRead EXCEPT !.pos = Following(@), !.data = r, !.plan = m.plan]]
        /\ \/ /\ BodyAcceptable(tokenRead, m)
              /\ rq' = [rq EXCEPT ![r] = [@ EXCEPT !.pc = "exists"]]
           \/ /\ ~BodyAcceptable(tokenRead, m) \/ (remote /\ c.route.rsa)
              /\ rq' = Return(r, 400)          \* or the encipher gives no key
  /\ UNCHANGED <<remote, now, pool, seen, answer>>

-----------------------------------------------------------------------------
(* validReplayAttack: two calls of the cache, which other requests and the  *)
(* clock may come between.  A cache made for the call holds nothing.        *)

\* History: the requests whose Put was done before this Exists.  In the very
\* second its time to live ends, an entry may still be there or not.
Entered == { q \in Requests : rq[q].entered }

replayExists(r) ==
  /\ rq[r].pc = "exists"
  /\ \/ /\ SharedCache /\ seen[Msg(r)] >= now
        /\ rq' = Return(r, 400)
     \/ /\ ~SharedCache \/ seen[Msg(r)] <= now
        /\ rq' = [rq EXCEPT ![r] = [@ EXCEPT !.pc = "put", !.before = Entered, !.looked = now]]
  /\ UNCHANGED <<remote, now, pool, ctx, seen, answer>>

\* Faulty: the entry lives as long as a message may be old.
ReplayEndShort == now + Window

\* When the entry of a signature put now is gone.
ReplayEnd == now + ReplayTTL

replayPut(r) ==
  LET m == Msg(r) IN
  /\ rq[r].pc = "put"
  /\ seen' = [seen EXCEPT ![m] = ReplayEnd]
  /\ ctx' = IF Decodes(ctx[rq[r].c], m) /\ m.plan = 2
            THEN [ctx EXCEPT ![rq[r].c] = [@ EXCEPT !.code = r]] ELSE ctx
  /\ rq' = IF Decodes(ctx[rq[r].c], m)
            THEN [rq EXCEPT ![r] = [@ EXCEPT !.pc = "chain", !.entered = TRUE]]
            ELSE [rq EXCEPT ![r] = [@ EXCEPT !.pc = "render", !.err = 400, !.entered = TRUE]]
  /\ UNCHANGED <<remote, now, pool, answer>>

\* The cache cannot be reached: the request is refused.
replayError(r) ==
  /\ rq[r].pc \in {"exists", "put"}
  /\ SharedCache
  /\ rq' = Return(r, 400)
  /\ UNCHANGED <<remote, now, pool, ctx, seen, answer>>

-----------------------------------------------------------------------------
(* SessionFilter, RoleFilter and PostHandleFilter *)

\* Subject.Verify of the token bytes the Context holds: there are some, in
\* three parts, the signature is right and they have not expired.
Verify(owner) == owner # Nobody /\ Msg(owner).token \in {"anon", "user"}

SessionFilter(r) ==
  LET c == ctx[rq[r].c] IN
  /\ AtFilter(r, "Session")
  /\ \/ /\ c.route.rsa \/ c.route.guest
        /\ ctx' = Pass(r)
        /\ UNCHANGED rq
     \/ /\ ~c.route.rsa /\ ~c.route.guest
        /\ Verify(c.token)
        /\ ctx' = [ctx EXCEPT ![rq[r].c] =
                     [c EXCEPT !.pos = Following(@), !.payload = c.token,
                               !.sub = IF Msg(c.token).token = "user" THEN c.token ELSE Nobody]]
        /\ UNCHANGED rq
     \/ /\ ~c.route.rsa /\ ~c.route.guest
        /\ ~Verify(c.token)
        /\ ctx' = Pass(r)
        /\ rq' = Return(r, 401)
  /\ UNCHANGED <<remote, now, pool, seen, answer>>

\* accessCount runs over the pairs of an owned and a needed role.
RoleAccess(need, has, all) ==
  LET accessCount == Cardinality({ p \in (1..Len(has)) \X (1..Len(need)) : has[p[1]] = need[p[2]] })
  IN  IF all THEN accessCount >= Len(need) ELSE accessCount > 0

Authenticated(c) == c.sub # Nobody

RoleFilter(r) ==
  LET c == ctx[rq[r].c]
      need == c.route.need
  IN
  /\ AtFilter(r, "Role")
  /\ ctx' = Pass(r)
  /\ \/ /\ ~Authenticated(c) \/ need = <<>>
        /\ UNCHANGED rq
     \/ /\ Authenticated(c) /\ need # <<>>
        /\ rq' = IF RoleAccess(need, Msg(c.sub).has, c.route.all) THEN rq ELSE Return(r, 401)
     \/ /\ Authenticated(c)            \* roleRealm fails
        /\ rq' = Return(r, 500)
  /\ UNCHANGED <<remote, now, pool, seen, answer>>

\* Context.Handle: the handler of the route, which answers with Json or Text,
\* with neither, or fails; then the chain is at its end.  Its Parser fills in the identity of the Subject.
PostHandle(r) ==
  LET c == ctx[rq[r].c]
      done == [c EXCEPT !.pos = Following(@), !.completed = TRUE]
      ran(err) == [rq EXCEPT ![r] = [@ EXCEPT !.pc = "render", !.err = err, !.handled = TRUE,
                                       !.as = IF c.data = Nobody THEN Nobody ELSE c.sub]]
  IN
  /\ AtFilter(r, "Post")
  /\ \/ /\ ~c.completed
        /\ \/ /\ ctx' = [ctx EXCEPT ![rq[r].c] = [done EXCEPT !.ctype = "json", !.entity = r]]
              /\ rq' = ran(0)
           \/ /\ ctx' = [ctx EXCEPT ![rq[r].c] = [done EXCEPT !.ctype = "text", !.entity = r]]
              /\ rq' = ran(0)
           \/ /\ ctx' = [ctx EXCEPT ![rq[r].c] = done]
              /\ rq' \in {ran(0), ran(500)}
  /\ UNCHANGED <<remote, now, pool, seen, answer>>

-----------------------------------------------------------------------------
(* RenderHandleFilter, once the chain has returned to it *)

\* One piece of output: whose entity it shows, the request whose random code
\* or token encrypts or signs it, and how.
Piece(owner, by, how) == [of |-> owner, by |-> by, how |-> how]

\* defaultRenderPre: the output, or an error and no output.  Every route that is neither Guest
\* nor UseRSA signs with the secret of the token; with a remote encipher too.
defaultRenderPre(c) ==
  LET shown(by, how) == [err |-> 0, out |-> <<Piece(c.entity, by, how)>>]
      failed == [err |-> 500, out |-> <<>>]
  IN  IF c.ctype = "text"      THEN shown(Nobody, "text")
      ELSE IF c.entity = Nobody THEN failed
      ELSE IF c.route.guest    THEN shown(Nobody, "json")
      ELSE IF c.route.rsa      THEN IF c.plan = 2 /\ c.code # Nobody THEN shown(c.code, "code") ELSE failed
      ELSE shown(c.token, IF c.route.aesResp THEN "aes" ELSE "token")

\* defaultRenderError: the message of the error, and for Guest routes its status.
defaultRenderError(c, err) ==
  [c EXCEPT !.out = Append(@, Piece(Nobody, Nobody, "error")),
            !.status = IF c.route.guest /\ err <= 600 THEN err ELSE @,
            !.ctype = IF c.route.guest THEN "text" ELSE "json"]

Rendered(c, err) ==
  LET pre == IF err = 0 THEN defaultRenderPre(c) ELSE [err |-> err, out |-> <<>>]
      written == [c EXCEPT !.out = @ \o pre.out,
                           !.code = IF pre.out # <<>> /\ pre.out[1].how = "code" THEN Nobody ELSE @]
  IN  IF pre.err = 0 THEN written ELSE defaultRenderError(written, pre.err)

\* The chain has returned: rendering, defaultRenderTo and the Put of doRequest.
\* What is written after the timeout does not reach the client.
Render(r) ==
  LET c == Rendered(ctx[rq[r].c], rq[r].err) IN
  /\ rq[r].pc = "render"
  /\ ctx' = [ctx EXCEPT ![rq[r].c] = c]
  /\ answer' = [answer EXCEPT ![r] = IF @ = Nobody
                  THEN [status |-> IF c.status = 0 THEN 200 ELSE c.status, out |-> c.out] ELSE @]
  /\ pool' = pool \cup {rq[r].c}
  /\ rq' = [rq EXCEPT ![r] = [@ EXCEPT !.pc = "done", !.c = Nobody, !.err = 0]]
  /\ UNCHANGED <<remote, now, seen>>

\* fasthttp.TimeoutHandler, installed by addRouter: the client is answered,
\* the handler goes on with its Context.  It may strike at any time, but only
\* Render looks at whether it has, so striking just before that stands for all.
Timeout(r) ==
  /\ rq[r].pc = "render"
  /\ answer[r] = Nobody
  /\ answer' = [answer EXCEPT ![r] = [status |-> 408, out |-> <<>>]]
  /\ UNCHANGED <<remote, now, pool, ctx, rq, seen>>

\* The garbage collector may empty the sync.Pool; the object is gone.
PoolDrop(c) ==
  /\ c \in pool
  /\ pool' = pool \ {c}
  /\ ctx' = [ctx EXCEPT ![c] = newContext]
  /\ UNCHANGED <<remote, now, rq, seen, answer>>

Tick ==
  /\ now < MaxTime
  /\ now' = now + 1
  /\ UNCHANGED <<remote, pool, ctx, rq, seen, answer>>

Step(r) ==
  \/ \E m \in Messages : doRequest(r, m)
  \/ ExtFilter(r) \/ readParams(r)
  \/ replayExists(r) \/ replayPut(r) \/ replayError(r)
  \/ SessionFilter(r) \/ RoleFilter(r) \/ PostHandle(r)
  \/ Render(r) \/ Timeout(r)

Next == (\E r \in Requests : Step(r)) \/ (\E c \in Contexts : PoolDrop(c)) \/ Tick

Spec == Init /\ [][Next]_vars

-----------------------------------------------------------------------------
(* Properties *)

Owners == Requests \cup {Nobody}

PieceType == [of : Owners, by : Owners, how : {"text", "json", "code", "aes", "token", "error"}]

Routes == {m.route : m \in Messages} \cup {Nobody}
Plans == {m.plan : m \in Messages} \cup {0}
Places == 1..(Len(createFilterChain) + 1)
Errors == {0, 400, 401, 500}
Stages == {"idle", "chain", "exists", "put", "render", "done"}
ContentTypes == {"json", "text"}

ContextType ==
  [route : Routes, completed : BOOLEAN, pos : Places, data : Owners, plan : Plans,
   token : Owners, payload : Owners, sub : Owners, code : Owners, ctype : ContentTypes,
   entity : Owners, status : Errors, out : Seq(PieceType)]

RequestType ==
  [pc : Stages, msg : Messages \cup {Nobody}, c : Contexts \cup {Nobody}, err : Errors,
   before : SUBSET Requests, looked : 0..MaxTime, entered : BOOLEAN, handled : BOOLEAN,
   as : Owners]

TypeOK ==
  /\ remote \in BOOLEAN /\ now \in Window..MaxTime /\ pool \subseteq Contexts
  /\ ctx \in [Contexts -> ContextType]
  /\ rq \in [Requests -> RequestType]
  /\ seen \in [Messages -> 0..(MaxTime + ReplayTTL)]
  /\ answer \in [Requests -> [status : {200, 400, 401, 408, 500}, out : Seq(PieceType)] \cup {Nobody}]

\* What a route demands of the message itself: a Guest route nothing; a UseRSA
\* route, if it is posted, a signature under the server's key; any other route
\* a message posted and signed with the secret of a token that is valid, and
\* the roles the realm asks of its subject (one of them, or all of them).
Authorised(m) ==
  \/ m.route.guest
  \/ m.route.rsa /\ (m.route.post => m.signed = "server" /\ m.plan = 2)
  \/ /\ m.route.post /\ m.signed = "token" /\ m.token \in {"anon", "user"}
     /\ m.route.aesReq => m.plan = 1
     /\ m.token = "user" /\ m.route.need # <<>> =>
          IF m.route.all THEN Range(m.route.need) \subseteq Range(m.has)
          ELSE Range(m.route.need) \cap Range(m.has) # {}

\* A handler runs only for a request whose own message satisfies its route,
\* however the Context it runs in was used before (doRequest and the filters).
HandledOnlyAuthorised == \A r \in Requests : rq[r].handled => Authorised(Msg(r))

\* A request is handled as its own subject, and what its client receives is at
\* most one body, made of its own entity and encrypted or signed with its own
\* random code or token, never those of the Context's previous user (reset,
\* defaultRenderPre, TimeoutHandler).
ResponseIsOwn ==
  \A r \in Requests :
    /\ rq[r].as \in {Nobody, r}
    /\ answer[r] # Nobody =>
         /\ Len(answer[r].out) <= 1
         /\ \A p \in Range(answer[r].out) :
              /\ p.of \in {Nobody, r}
              /\ p.how \in {"code", "aes", "token"} => p.by = r

\* With a cache that all requests share, a message accepted once is accepted a
\* second time only by a request that overlapped the first one in the replay
\* check, or when the message has reached the last second of its validity
\* (validReplayAttack's 600 seconds against the five minutes of validJsonBody).
ReplayRefused ==
  \A r \in Requests : \A q \in rq[r].before \ {r} :
    SharedCache /\ rq[r].entered /\ Msg(q) = Msg(r) => rq[r].looked >= Msg(r).time + Window

=============================================================================

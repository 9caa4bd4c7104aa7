---------------------------- MODULE MCAlgorithms ----------------------------
(***************************************************************************)
(* The computations of Decimal, CronSpec, Query, Pages and Limiter on      *)
(* small inputs: one of the five runs while the others are idle.           *)
(***************************************************************************)
EXTENDS Decimal, CronSpec, Query, Pages, Limiter

\* 1.50 and 1.5, halves of both signs, and a number of tens.
MCOperands == {New(v, e) : v \in {-15, 0, 5, 7, 150}, e \in {-2, -1, 0}} \cup {Zero, New(-3, 1)}
MCTexts == {Text(n, i, f, e) : n \in BOOLEAN, i \in {<<>>, <<0>>, <<1, 2>>},
                               f \in {<<>>, <<0>>, <<0, 5>>, <<5, 0>>}, e \in {-1, 0, 1}}

\* A month of two days and one of three, in a week of three.
MCMonthDays == <<2, 3>>
MCStarts == {2 * s : s \in 0..39} \cup {2 * s + 1 : s \in 30..40}

Number(n) == <<Range1(n, None, None)>>
Every1 == <<Range1(Any, None, None)>>
SixFields == {"Second", "Minute", "Hour", "Dom", "Month", "Dow"}
Expression(options, fields) ==
  [kind |-> "fields", tz |-> Local, options |-> options, fields |-> fields]
Named(options, name) ==
  [kind |-> "descriptor", tz |-> Local, options |-> options, fields |-> <<>>, name |-> name]
MCSpecs ==
  {Expression(SixFields, <<s, Number(0), Number(1), d, m, w>>) :
     s \in {Every1, Number(1)}, m \in {Every1, Number(1)},
     d \in {Every1, Number(1), Number(3), <<Range1(Any, None, 2)>>, Number(1) \o Number(3)},
     w \in {Every1, Number(1), <<Range1(1, 2, None)>>}}
  \cup {[Expression((SixFields \ {"Second"}) \cup {"SecondOptional"}, f) EXCEPT !.tz = MinuteLen] :
     f \in {<<Number(1), Number(0), Every1, Every1, Every1>>,
            <<Number(1), Every1, Number(1), Every1, Every1, Every1>>}}
  \cup {Expression({"Minute", "Dom", "Month", "DowOptional"}, f) :
     f \in {<<Every1, Number(2), Every1>>, <<Every1, Number(2), Every1, Number(0)>>, <<Every1>>}}
  \cup {Expression({"SecondOptional", "DowOptional"}, <<>>)}
  \cup {Expression(SixFields, <<Every1, Every1, Every1, f, Every1, Every1>>) :
     f \in {<<>>, Number(4), Number(0), Number(NaN), <<Range1(3, 2, None)>>, <<Range1(1, 2, 0)>>,
            <<Range1(1, NaN, None)>>, <<Range1(2, None, 1)>>, <<Range1(1, 3, 2)>>}}
  \cup {Named({"Descriptor"}, name) : name \in DOMAIN Pinned \cup {"never"}}
  \cup {Named({}, "daily")}
  \cup {[kind |-> "every", tz |-> Local, options |-> {"Descriptor"}, fields |-> <<>>, delay |-> d] :
     d \in {-3, 1, 2, 5}}
  \cup {[kind |-> "every", tz |-> Local, options |-> {}, fields |-> <<>>, delay |-> 2]}
  \cup {[Named({"Descriptor"}, "") EXCEPT !.kind = k] : k \in Malformed \cup {"zoneOnly"}}

\* A null, an a that contains another, and ids that are not consecutive.
MCTable == {[id |-> 1, a |-> 2], [id |-> 2, a |-> Null], [id |-> 3, a |-> 12],
            [id |-> 4, a |-> 1], [id |-> 12, a |-> 2]}
\* A row with two partners, rows with none, a partner of no row.
MCOthers == {[id |-> 1, of |-> 1], [id |-> 2, of |-> 1], [id |-> 3, of |-> 4], [id |-> 4, of |-> 9]}
Single(logic, key, values) == <<Condition(logic, key, values, <<>>)>>
MCOrParts ==
  {<<>>, <<<<>>>>,
   <<Single("EQ", "id", <<1>>), Single("GT", "a", <<2>>) \o Single("LT", "id", <<12>>)>>,
   <<Single("IS_NULL", "a", <<>>), Single("IS_NOT_NULL", "a", <<>>)>>,
   <<Single("BETWEEN2", "id", <<1, 2>>)>>}

vars == <<decimalVars, cron, queryVars, pageVars, limiterVars>>
Init ==
  \/ InitDecimal /\ IdleCron /\ IdleQuery /\ IdlePages /\ IdleLimiter
  \/ IdleDecimal /\ InitCron /\ IdleQuery /\ IdlePages /\ IdleLimiter
  \/ IdleDecimal /\ IdleCron /\ InitQuery /\ IdlePages /\ IdleLimiter
  \/ IdleDecimal /\ IdleCron /\ IdleQuery /\ InitPages /\ IdleLimiter
  \/ IdleDecimal /\ IdleCron /\ IdleQuery /\ IdlePages /\ InitLimiter
Next ==
  \/ NextDecimal /\ UNCHANGED <<cron, queryVars, pageVars, limiterVars>>
  \/ NextCron /\ UNCHANGED <<decimalVars, queryVars, pageVars, limiterVars>>
  \/ NextQuery /\ UNCHANGED <<decimalVars, cron, pageVars, limiterVars>>
  \/ NextPages /\ UNCHANGED <<decimalVars, cron, queryVars, limiterVars>>
  \/ NextLimiter /\ UNCHANGED <<decimalVars, cron, queryVars, pageVars>>
Spec == Init /\ [][Next]_vars
=============================================================================

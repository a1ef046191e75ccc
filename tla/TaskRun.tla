------------------------------ MODULE TaskRun -------------------------------
(***************************************************************************)
(* One execution of a task by the agent: TaskExecutor calls Execute, which *)
(* runs the steps of the task while the provider's configuration may be    *)
(* replaced under it.  The provider is the cell of ConfigCell, which       *)
(* AutoConfig implements.                                                  *)
(***************************************************************************)
EXTENDS ConfigCell, TaskSteps, ProviderOptions, SequencesExt, FiniteSets

CONSTANTS
  Programs,    \* per task, its schema and steps
  Stores,      \* what the system asked may hold: sequences of items, in the order it answers
  LimitValues, \* how many items a caller may ask for
  BoundValues, \* how many items the provider's limits may allow
  NoLimit,     \* a limit that no answer reaches
  Matching,    \* the items that the filters let through
  MaxClients   \* bound: clients ever made

ASSUME TaskRunAssumption ==
  /\ MaxClients \in Nat \ {0} /\ Stores \subseteq Seq(Nat)
  /\ LimitValues \subseteq Nat \ {0} /\ BoundValues \subseteq Nat \ {0}
  /\ NoLimit \in Nat \ {0}
  /\ \A n \in LimitValues \cup BoundValues : n < NoLimit
  /\ \A s \in Stores : Len(s) < NoLimit
  /\ \A t \in DOMAIN Programs : WellFormed(Programs[t].steps)

VARIABLES
  made,     \* per client made so far, the configuration it was built from
  unbuilt,  \* the clients among them that could not be built
  task, pc, outcome,
  last,     \* the value of the parameter read last
  given,    \* the parameters given, of those that filter the answer
  limit,    \* how many items were asked for
  bound,    \* how many items the provider's limits allow
  held,     \* the client that was fetched
  asked,    \* the clients that were called
  limitsOf, \* the configuration whose limits are applied
  store,    \* what the system asked holds
  items,    \* the items of the answer
  lost,     \* items left out for an error of their own, or of a call that the answer tells of
  sieved,   \* were the items filtered?
  says      \* does the answer say that it was cut?

runVars == <<task, pc, outcome, last, given, limit, bound, held, asked, limitsOf,
             store, items, lost, sieved, says>>
vars == <<cellVars, made, unbuilt, runVars>>

Provider == Programs[task].provider
Schema   == Programs[task].schema
Steps    == Programs[task].steps
Here     == Steps[pc]

\* The tasks of linux and network ask the host, with a configuration that never changes.
HasClient   == Provider \in DOMAIN OptionSets
ChecksInit  == HasClient /\ OptionSets[Provider].checksInit
HostOptions == [selective |-> FALSE, hasClose |-> FALSE]

Wanted(i)   == i \in Matching
WantedOf(s) == {i \in ToSet(s) : Wanted(i)}

\* The numbers of a finite set in their order; what a sequence has at some of its places,
\* and the items of it that are in a set.
Sorted(S) == CHOOSE f \in [1..Cardinality(S) -> S] :
               \A i, j \in 1..Cardinality(S) : i < j => f[i] < f[j]
AtPlaces(s, I) == LET f == Sorted(I) IN [i \in 1..Cardinality(I) |-> s[f[i]]]
Only(s, S)     == AtPlaces(s, {i \in DOMAIN s : s[i] \in S})

At(op)  == outcome = "running" /\ pc <= Len(Steps) /\ Here.op = op
GoOn    == pc' = pc + 1 /\ UNCHANGED outcome
Stop(o) == outcome' = o /\ UNCHANGED pc

\* The parameters whose presence decides what a step does.
Filters == UNION {CASE s.op = "keep" -> s.by \cup s.unless
                    [] s.op \in {"below", "around"} -> s.by
                    [] s.op = "call" -> s.unless
                    [] s.op = "cut"  -> s.if
                    [] OTHER         -> {} : s \in ToSet(Steps)}

TypeOK ==
  /\ task \in DOMAIN Programs /\ pc \in 1..Len(Steps) + 1
  /\ outcome \in {"running", "refused", "failed", "panicked", "done"}
  /\ last \in Values \cup {"nothing"}
  /\ given \subseteq Filters \cup {"always"} /\ limit \in LimitValues \cup {NoLimit}
  /\ bound \in BoundValues \cup {NoLimit}
  /\ held \in 0..MaxClients /\ asked \subseteq 1..MaxClients
  /\ limitsOf \in Configs \cup {<<>>}
  /\ store \in Stores \cup {<<>>} /\ ToSet(items) \cup lost \subseteq ToSet(store)
  /\ sieved \in BOOLEAN /\ says \in BOOLEAN
  /\ unbuilt \subseteq DOMAIN made /\ client \in DOMAIN made

Init ==
  /\ CellInit
  /\ task \in DOMAIN Programs
  /\ LET o == IF HasClient THEN OptionSets[Provider] ELSE HostOptions IN
       options = [selective |-> o.selective, hasClose |-> o.hasClose, concurrent |-> FALSE]
  /\ made = <<config>> /\ unbuilt \in IF HasClient THEN {{}, {1}} ELSE {{}}
  /\ pc = 1 /\ outcome = "running" /\ last = "nothing"
  /\ given = {} /\ limit = NoLimit /\ bound = NoLimit /\ held = 0 /\ asked = {} /\ limitsOf = <<>>
  /\ store = <<>> /\ items = <<>> /\ lost = {} /\ sieved = FALSE /\ says = FALSE

-----------------------------------------------------------------------------
(* The provider's configuration.                                           *)

UpdateConfigUnmade(raw) ==
  /\ outcome = "running" /\ HasClient
  /\ client' = client \/ (client' = Len(made) + 1 /\ client' <= MaxClients)
  /\ Update(raw)
  /\ UNCHANGED <<made, unbuilt, runVars>>

\* Provider.UpdateConfig: an update is applied; if it needs another client, that one is
\* installed even if it could not be built.
UpdateConfig(raw) ==
  /\ outcome = "running" /\ HasClient
  /\ \/ client' = client
     \/ client' = Len(made) + 1 /\ client' <= MaxClients
  /\ Update(raw)
  /\ IF client' = client THEN UNCHANGED <<made, unbuilt>>
     ELSE /\ made' = Append(made, config')
          /\ unbuilt' \in {unbuilt, unbuilt \cup {client'}}
  /\ UNCHANGED runVars

\* The grace period of a replaced client ends.
Expire(k) ==
  /\ outcome = "running"
  /\ CloseRetired(k)
  /\ UNCHANGED <<made, unbuilt, runVars>>

-----------------------------------------------------------------------------
(* The steps of Execute.                                                   *)

cell == <<cellVars, made, unbuilt, task>>
paramVars  == <<given, limit>>
clientVars == <<bound, held, asked, limitsOf>>
answerVars == <<store, items, lost, sieved, says>>

\* Does v, or the default it stands for, ask for something?
Asks(v) == \/ v \notin Here.mute
           \/ v = "absent" /\ Here.default = "true"

\* The values that a step takes.
MustTake == Here.takes \ {"absent"}
Takes    == Here.takes

\* A parameter is read and checked: one that the step does not take ends the execution.
Read(v) ==
  /\ At("read")
  /\ last' = v
  /\ IF v \notin Takes
     THEN Stop("refused") /\ UNCHANGED <<given, limit>>
     ELSE /\ GoOn
          /\ given' = IF Asks(v) /\ Here.param \in Filters THEN given \cup {Here.param}
                      ELSE given
          /\ limit' \in IF Here.cap # Unsaid /\ v = "whole" THEN LimitValues ELSE {limit}
  /\ UNCHANGED <<cell, clientVars, answerVars>>

VerifyParams ==
  /\ At("verify")
  /\ GoOn \/ Stop("refused")
  /\ last' = "nothing"
  /\ UNCHANGED <<cell, paramVars, clientVars, answerVars>>

HoldClientAlive ==
  /\ At("hold")
  /\ \/ GoOn
     \/ client \in unbuilt /\ ChecksInit /\ Stop("failed")
  /\ held' = client /\ asked' = asked \cup {client} /\ last' = "nothing"
  /\ UNCHANGED <<cell, paramVars, bound, limitsOf, answerVars>>

\* The client is fetched; where none could be built the task may end here.
HoldClient ==
  /\ At("hold")
  /\ \/ GoOn
     \/ client \in unbuilt /\ ChecksInit /\ Stop("failed")
  /\ held' = client /\ last' = "nothing"
  /\ UNCHANGED <<cell, paramVars, bound, asked, limitsOf, answerVars>>

\* The configuration whose limits a step reads.
LimitsNow == made[client]
LimitsAt  == CASE Here.of = "held"    -> made[held]
               [] Here.of = "current" -> made[client]
               [] Here.of = "start"   -> made[1]

ReadLimits ==
  /\ At("limits")
  /\ GoOn
  /\ limitsOf' = LimitsAt
  /\ IF Here.bounds THEN bound' \in BoundValues \cup {NoLimit} ELSE UNCHANGED bound
  /\ last' = "nothing"
  /\ UNCHANGED <<cell, paramVars, held, asked, answerVars>>

LimitOnly == limit

\* The lower of the limit and the bound.
Least == IF limit < bound THEN limit ELSE bound
Take(s, n) == SubSeq(s, 1, IF n < Len(s) THEN n ELSE Len(s))
LastOf(s, n) == SubSeq(s, IF n < Len(s) THEN Len(s) - n + 1 ELSE 1, Len(s))

\* The first of several pages.
FirstPage(s) == store' = s /\ lost' = {} /\ items' = Take(s, 1)

\* The answer of a call: what the system holds, in the system's order or in no order at
\* all, and cut to the limit if the call passed it on; or its end, cut to the limit unless
\* a search needs more.
Answer(s) ==
  /\ store' = s /\ lost' = {}
  /\ items' \in CASE Here.answer = "ordered"   -> {s}
                  [] Here.answer = "unordered" -> SetToSeqs(ToSet(s))
                  [] Here.answer = "limited"   -> {Take(s, Least)}
                  [] Here.answer = "tail"      -> {LastOf(s, IF given = {} THEN Least ELSE bound)}

\* A call that fails answers nothing, whatever the system holds.
NoAnswer(s) == /\ store' = s /\ items' = <<>>
               /\ lost' = IF Here.onError = "report" THEN ToSet(s) ELSE {}

\* The client that a call goes to.
CallNow == client
CallTo  == IF Here.via = "held" THEN held ELSE client

\* A call to the client.  One that was closed, or not built, returns an error; kafka and
\* prometheus call through the nil pointer of one that was not built.
CallClient ==
  /\ At("call") /\ Here.unless \cap given = {}
  /\ asked' = asked \cup {CallTo}
  /\ \/ /\ CallTo \notin closed \cup unbuilt
        /\ IF Here.onError = "else" THEN pc' = Len(Steps) + 1 /\ UNCHANGED outcome ELSE GoOn
        /\ IF Here.answer = "none" THEN UNCHANGED <<store, items, lost>>
           ELSE \E s \in Stores : Answer(s)
     \/ /\ IF CallTo \in unbuilt /\ ~ChecksInit THEN Stop("panicked")
           ELSE Here.onError = "fail" /\ Stop("failed")
        /\ UNCHANGED <<store, items, lost>>
     \/ /\ CallTo \notin unbuilt \/ ChecksInit
        /\ Here.onError # "fail" /\ GoOn
        /\ IF Here.answer = "none" THEN UNCHANGED <<store, items, lost>>
           ELSE \E s \in Stores : NoAnswer(s)
  /\ last' = "nothing"
  /\ UNCHANGED <<cell, paramVars, bound, held, limitsOf, sieved, says>>

SkipCall ==
  /\ At("call") /\ Here.unless \cap given # {}
  /\ GoOn
  /\ last' = "nothing"
  /\ UNCHANGED <<cell, paramVars, clientVars, answerVars>>

EndEarly ==
  /\ At("mayEnd")
  /\ \/ GoOn
     \/ pc' = Len(Steps) + 1 /\ UNCHANGED outcome
  /\ last' = "nothing"
  /\ UNCHANGED <<cell, paramVars, clientVars, answerVars>>

Each ==
  /\ At("each")
  /\ \E bad \in {{}} \cup {{i} : i \in ToSet(items)} :
       IF bad # {} /\ Here.onError = "fail" THEN Stop("failed") /\ UNCHANGED <<items, lost>>
       ELSE /\ GoOn
            /\ items' = Only(items, ToSet(items) \ bad)
            /\ lost' = lost \cup bad
  /\ last' = "nothing"
  /\ UNCHANGED <<cell, paramVars, clientVars, store, sieved, says>>

FindItem ==
  /\ At("find")
  /\ GoOn \/ Stop("failed")
  /\ last' = "nothing"
  /\ UNCHANGED <<cell, paramVars, clientVars, answerVars>>

Filtering == \/ Here.by \cap given # {}
             \/ Here.op = "keep" /\ Here.unless # {} /\ Here.unless \cap given = {}

KeepItems ==
  /\ At("keep")
  /\ GoOn
  /\ items' = IF Filtering THEN Only(items, WantedOf(items)) ELSE items
  /\ sieved' = (sieved \/ Filtering)
  /\ last' = "nothing"
  /\ UNCHANGED <<cell, paramVars, clientVars, store, lost, says>>

\* A process of another user hides those below it in the tree, wanted or not.
KeepItemsBelow ==
  /\ At("below")
  /\ GoOn
  /\ LET shown == {n \in 0..Len(items) : \A i \in 1..n : Wanted(items[i])} IN
       items' = IF Filtering THEN Take(items, Max(shown)) ELSE items
  /\ sieved' = (sieved \/ Filtering)
  /\ last' = "nothing"
  /\ UNCHANGED <<cell, paramVars, clientVars, store, lost, says>>

SortItemsNot ==
  /\ At("sort")
  /\ GoOn
  /\ last' = "nothing"
  /\ UNCHANGED <<cell, paramVars, clientVars, answerVars>>

SortItems ==
  /\ At("sort")
  /\ GoOn
  /\ items' = Sorted(ToSet(items))
  /\ last' = "nothing"
  /\ UNCHANGED <<cell, paramVars, clientVars, store, lost, sieved, says>>

LogContextTooWide(lines, max) ==
  LET near == {i \in DOMAIN lines :
                 \E j \in (i - max)..(i + max) : j \in DOMAIN lines /\ Wanted(lines[j])}
  IN Take(AtPlaces(lines, near), max)

\* extractLogContext: the lines no further than half the limit from one that matches, cut
\* to the limit from the first on.
extractLogContext(lines, max) ==
  LET half == IF max \div 2 < 1 THEN 1 ELSE max \div 2
      near == {i \in DOMAIN lines :
                 \E j \in (i - half)..(i + half) : j \in DOMAIN lines /\ Wanted(lines[j])}
  IN Take(AtPlaces(lines, near), max)

ItemsAround ==
  /\ At("around")
  /\ GoOn
  /\ items' = IF Here.by \subseteq given THEN extractLogContext(items, Least) ELSE items
  /\ last' = "nothing"
  /\ UNCHANGED <<cell, paramVars, clientVars, store, lost, sieved, says>>

PickItem ==
  /\ At("pick")
  /\ GoOn
  /\ items' = Take(items, 1)
  /\ last' = "nothing"
  /\ UNCHANGED <<cell, paramVars, clientVars, store, lost, sieved, says>>

CutItemsUntold ==
  /\ At("cut")
  /\ GoOn
  /\ IF Here.if \subseteq given
     THEN items' = Take(items, Least) /\ says' = (Here.says /\ Len(items) > limit)
     ELSE UNCHANGED <<items, says>>
  /\ last' = "nothing"
  /\ UNCHANGED <<cell, paramVars, clientVars, store, lost, sieved>>

CutItems ==
  /\ At("cut")
  /\ GoOn
  /\ IF Here.if \subseteq given
     THEN items' = Take(items, Least) /\ says' = (Here.says /\ Len(items) > Least)
     ELSE UNCHANGED <<items, says>>
  /\ last' = "nothing"
  /\ UNCHANGED <<cell, paramVars, clientVars, store, lost, sieved>>

\* The item read last is kept once more, unless the system holds no further one.
AddLastItem ==
  /\ At("addLast")
  /\ GoOn
  /\ items' \in {items} \cup IF Len(items) = limit /\ items[limit] # store[Len(store)]
                             THEN {Append(items, items[limit])} ELSE {}
  /\ last' = "nothing"
  /\ UNCHANGED <<cell, paramVars, clientVars, store, lost, sieved, says>>

Return ==
  /\ outcome = "running" /\ pc = Len(Steps) + 1
  /\ Stop("done")
  /\ last' = "nothing"
  /\ UNCHANGED <<cell, paramVars, clientVars, answerVars>>

Execute ==
  \/ \E v \in Values : Read(v)
  \/ VerifyParams \/ HoldClient \/ ReadLimits \/ CallClient \/ SkipCall \/ EndEarly
  \/ Each \/ FindItem \/ KeepItems \/ KeepItemsBelow \/ SortItems \/ ItemsAround
  \/ PickItem \/ CutItems \/ AddLastItem \/ Return

Next == \/ Execute
        \/ \E raw \in Raws : UpdateConfig(raw)
        \/ \E k \in retired : Expire(k)

Spec == Init /\ [][Next]_vars

-----------------------------------------------------------------------------
(* What an execution should keep to.                                       *)

\* The parameter before pc is the one read last.
JustRead == last # "nothing" /\ outcome \in {"running", "refused"}
Reader   == IF outcome = "refused" THEN Here ELSE Steps[pc - 1]

\* The schema has the parameter that step r reads, and states its default and its maximum
\* (a guardrail of the provider aside).
Stated(schema, r) ==
  LET f == schema[r.param] IN
    /\ r.param \in DOMAIN schema
    /\ f.default # Unsaid => f.default = r.default
    /\ f.max # Unsaid /\ r.cap \notin {Unsaid, "guardrail"} => f.max = r.cap

\* The schema does not admit v, free strings that do not parse aside.
Excluded(f, v) ==
  /\ v = "absent" => f.required
  /\ v \in f.admits => "blank" \in f.admits /\ v \in {"blank", "odd"}

\* What the schema says of the parameter just read is what Execute does with it.
AsDocumented == /\ Stated(Schema, Reader)
                /\ outcome = "refused" => Excluded(Schema[Reader.param], last)

ParamsRead(steps) == {s.param : s \in {t \in ToSet(steps) : t.op = "read" /\ t.used}}

\* An execution honours its schema: no parameter is refused, read otherwise than
\* documented, not read at all or read in vain.
Honours == /\ JustRead => AsDocumented
           /\ outcome = "done" => DOMAIN Schema = ParamsRead(Steps)

\* What was asked for: the items the system holds that pass the filters.
AskedFor == {i \in ToSet(store) : sieved => Wanted(i)}

\* The answer has every item asked for, those aside that came with an error or whose error
\* it tells.
Complete == AskedFor \subseteq ToSet(items) \cup lost

Cuts(told) == \E s \in ToSet(Steps) : s.op = "cut" /\ s.says = told

\* An answer shorter than it may be is complete.
ShortComplete == outcome = "done" /\ Len(items) < Least => Complete

\* An answer that says it was not cut is complete.
UncutComplete == outcome = "done" /\ Cuts(TRUE) /\ ~says => Complete

\* The answer is the same each time, and in the same order, in whatever order Go iterates a
\* map.
Repeatable ==
  outcome = "done" /\ (\E s \in ToSet(Steps) : s.op = "call" /\ s.answer = "unordered")
    => items = Take(Sorted(AskedFor \ lost), Least)

\* The caller asked for a search.
Searched == \E s \in ToSet(Steps) : s.op = "around" /\ s.by \subseteq given

\* A search among the lines read shows a line that matches, if more than one may be shown.
SearchShown ==
  outcome = "done" /\ Searched /\ Least > 1 =>
    \A i \in ToSet(LastOf(store, bound)) : Wanted(i) => \E j \in ToSet(items) : Wanted(j)

\* The answer is no longer than the provider's limits allow, nor than was asked for where
\* it is cut.
Bounded ==
  outcome = "done" =>
    /\ Len(items) <= bound
    /\ (\E s \in ToSet(Steps) : s.op = "cut" /\ s.if \subseteq given) => Len(items) <= limit
=============================================================================

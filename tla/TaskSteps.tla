----------------------------- MODULE TaskSteps ------------------------------
(***************************************************************************)
(* The vocabulary in which the tasks of the providers are written down.  A *)
(* task has a JSON schema, which says what parameters it takes, and the    *)
(* steps of its Execute in their order: parameters read and checked, the   *)
(* client fetched, calls made, and the answer cut down to what was asked   *)
(* for.  TaskRun executes them.  Values of parameters are the classes that *)
(* the helpers and the schemas tell apart:                                 *)
(*   blank      a string of spaces       list, none  an array, an empty one*)
(*   text       a string that parses,    map         an object             *)
(*              or of the enumeration    whole       an integer in range   *)
(*   odd        any other string         low, huge   below and above it    *)
(*   yes, no    a boolean                absent      no such key           *)
(***************************************************************************)
EXTENDS Integers, Sequences

Values == {"absent", "blank", "text", "odd", "yes", "no", "list", "none", "map",
           "whole", "low", "huge"}
Unsaid == "-"

-----------------------------------------------------------------------------
(* Schemas: what they admit, and the default and the maximum they state.   *)

Field(admits) == [admits |-> admits, required |-> FALSE, default |-> Unsaid, max |-> Unsaid]

Str     == Field({"blank", "text", "odd"})
Choice  == Field({"text"})                  \* an enumeration, or a string with a format
Whole   == Field({"whole", "low", "huge"})
Counted == Field({"whole", "huge"})         \* an integer from 1
Flag    == Field({"yes", "no"})
List    == Field({"list", "none"})
Filled  == Field({"list"})                  \* minItems
Obj     == Field({"map"})

Must(f)       == [f EXCEPT !.required = TRUE]
Or(f, d)      == [f EXCEPT !.default = d]
UpTo(d, m)    == [Field({"whole"}) EXCEPT !.default = d, !.max = m]
NoParams      == <<>>
With(f, g)    == [p \in DOMAIN f \cup DOMAIN g |-> IF p \in DOMAIN f THEN f[p] ELSE g[p]]

-----------------------------------------------------------------------------
(* Steps that read a parameter: the values they take, what stands for an   *)
(* absent one and the cap on large ones.                                   *)

Reading(p, takes, d, m) ==
  [op |-> "read", param |-> p, takes |-> takes, default |-> d, cap |-> m, used |-> TRUE,
   mute |-> {"absent", "blank", "none", "no", "low"}]   \* values that ask for nothing

\* common.RequireString: neither absent nor blank.
Need(p) == Reading(p, {"text", "odd"}, Unsaid, Unsaid)

\* A required string that has to parse.
NeedParsed(p) == Reading(p, {"text"}, Unsaid, Unsaid)

\* common.OptionalString: a blank string counts as an absent one.
Text(p, d) == Reading(p, {"absent", "blank", "text", "odd"}, d, Unsaid)

\* ... that has to be one of an enumeration, or to parse.
Parsed(p, d) == Reading(p, {"absent", "blank", "text"}, d, Unsaid)

\* common.OptionalInt and its like: whole numbers, whatever their size.
Num(p, d) == Reading(p, {"absent", "whole", "low", "huge"}, d, Unsaid)
NeedNum(p) == Reading(p, {"whole", "low", "huge"}, Unsaid, Unsaid)

\* An integer that must be above zero.
Above(p, d) == Reading(p, {"absent", "whole", "huge"}, d, Unsaid)

\* common.NormalizeLimit and its like: above zero, and cut to the cap.
Limit(p, d, m) == Reading(p, {"absent", "whole", "huge"}, d, m)

\* A number cut to a maximum that the provider sets, and not checked otherwise.
Guarded(p, d) == Reading(p, {"absent", "whole", "low", "huge"}, d, "guardrail")

\* common.OptionalBool.
Bool(p, d) == Reading(p, {"absent", "yes", "no"}, d, Unsaid)

Strings(p)     == Reading(p, {"absent", "list", "none"}, Unsaid, Unsaid)
NeedStrings(p) == Reading(p, {"list"}, Unsaid, Unsaid)
Map(p)         == Reading(p, {"absent", "map"}, Unsaid, Unsaid)

\* A parameter that asks for something whatever its value.
Heard(step) == [step EXCEPT !.mute = {"absent"}]

\* A parameter whose conversion error is dropped: a value of another type counts as absent.
Lax(step) == [step EXCEPT !.takes = Values,
                          !.mute = @ \cup IF step.default = "true" THEN {} ELSE Values \ step.takes]

\* A parameter read and checked, and then without effect.
Vain(step) == [step EXCEPT !.used = FALSE]

-----------------------------------------------------------------------------
(* The other steps.                                                        *)

\* A check of several parameters, or of one against the limits in force.
Verify == [op |-> "verify"]

\* The client is fetched, once, for the calls that follow.
Hold == [op |-> "hold"]

\* The provider's limits, or another of its settings, are read: those of the client that
\* is held, of the client that is current now, or the ones the task was made with.
Limits(of) == [op |-> "limits", of |-> of, bounds |-> FALSE]

\* ... and one of them bounds the number of items of the answer.
Bounds(of) == [op |-> "limits", of |-> of, bounds |-> TRUE]

\* A call.  An error ends the execution, or is passed over: the answer then is what it would
\* be if the system held nothing.
Call(via, answer, onError) ==
  [op |-> "call", via |-> via, answer |-> answer, onError |-> onError, unless |-> {}]

\* ... made unless parameter p was given; ... whose success ends the execution; ... whose
\* error is told in the answer.
Without(p, call) == [call EXCEPT !.unless = {p}]
OrElse(call)     == [call EXCEPT !.onError = "else"]
Reports(call)    == [call EXCEPT !.onError = "report"]

\* What the last call said may leave nothing more to do.
MayEnd == [op |-> "mayEnd"]

\* Items of the answer that came with an error of their own are left out, or end the
\* execution; what was asked for and is not among the items ends it too.
Leave  == [op |-> "each", onError |-> "pass"]
Strict == [op |-> "each", onError |-> "fail"]
Find   == [op |-> "find"]

\* The items are filtered: by the parameters in ps that were given, by a flag that was
\* not set, or in any case.
Keep(ps)      == [op |-> "keep", by |-> ps, unless |-> {}]
KeepUnless(p) == [op |-> "keep", by |-> {}, unless |-> {p}]
KeepOnly      == [op |-> "keep", by |-> {}, unless |-> {"always"}]

\* If p was given, an item that it does not let through hides those below it.
KeepBelow(p) == [op |-> "below", by |-> {p}]

Sort == [op |-> "sort"]

\* The items are put into a map, in which they have no order but that of their keys.
Keyed == Sort

\* Only the first item is used.
Pick == [op |-> "pick"]

\* If p was given, the items are replaced by those around the ones that match, as many as
\* were asked for.
Around(p) == [op |-> "around", by |-> {p}]

\* The items are cut to the limit and to the bound, and the result says so or does not;
\* or only if parameter p was given.
Cut         == [op |-> "cut", says |-> FALSE, if |-> {}]
CutSay      == [op |-> "cut", says |-> TRUE, if |-> {}]
CutIfGiven(p) == [op |-> "cut", says |-> TRUE, if |-> {p}]

\* The reading stops at the limit, and what was read last is added to the answer again.
AddLast == [op |-> "addLast"]

\* What the steps of a task must be for an execution to make sense of them: calls answer and
\* fail, and limits are somebody's, in one of the ways above, and a client is held before it
\* is used as the one that is held.
UsesHeld(s) == \/ s.op = "call" /\ s.via = "held"
               \/ s.op = "limits" /\ s.of = "held"
WellFormed(steps) ==
  /\ Len(steps) \in Nat /\ DOMAIN steps = 1..Len(steps)
  /\ \A i \in 1..Len(steps) :
       LET s == steps[i] IN
         /\ s.op = "call"   => /\ s.answer \in {"none", "ordered", "unordered", "limited", "tail"}
                               /\ s.onError \in {"fail", "pass", "else", "report"}
         /\ s.op = "limits" => s.of \in {"held", "current", "start"}
         /\ UsesHeld(s)     => \E j \in 1..Len(steps) : j < i /\ steps[j].op = "hold"

Task(provider, schema, steps) == [provider |-> provider, schema |-> schema, steps |-> steps]
=============================================================================

------------------------------ MODULE LogTasks ------------------------------
(***************************************************************************)
(* internal/provider/log: the four Graylog tasks.  Each reads its          *)
(* parameters, fetches the client once, checks the time range against the  *)
(* guardrails of that client and asks one question.                        *)
(***************************************************************************)
EXTENDS TaskSteps

\* parseTimerange: the last 15 minutes stand for an absent one.
parseTimerange == Map("timerange")

\* ValidateTimerange.
Guards == <<Hold, Bounds("held"), Verify>>
Ask(answer) == <<Call("held", answer, "fail")>>

QueryFields == [query |-> Str, timerange |-> Obj, streams |-> List]

\* One row: the number of messages.
Count == Task("graylog", QueryFields,
  <<Text("query", ""), parseTimerange, Strings("streams")>> \o Guards \o Ask("none"))

\* The messages are grouped by the values of the field; the first group alone is returned.
Fieldstats == Task("graylog",
  With([field |-> Must(Str)], QueryFields),
  <<Need("field"), Text("query", ""), parseTimerange, Strings("streams")>> \o Guards
    \o Ask("ordered") \o <<Pick>>)

\* A bucket per interval, as many as the range has; the guardrail is not consulted.
Histogram == Task("graylog",
  With([interval |-> Obj], QueryFields),
  <<Text("query", ""), parseTimerange, Strings("streams"), Map("interval")>> \o Guards
    \o Ask("ordered"))

\* The limit and the guardrail are passed on; the answer comes with the number of all the
\* messages, and from that it is told whether it was cut.  Graylog is taken to answer with as
\* many messages as there are, up to the limit: the cut is its own, written as the task's, and
\* the flag's other condition, that as many came as were asked for, then says nothing more.
Search == Task("graylog",
  With([fields |-> List, limit |-> UpTo("100", "1000"), include_messages |-> Or(Flag, "true")],
       QueryFields),
  <<Text("query", ""), parseTimerange, Strings("fields"), Strings("streams"),
    Limit("limit", "100", "1000"), Bool("include_messages", "true")>> \o Guards
    \o Ask("ordered") \o <<CutSay>>)

LogTasks == [log_graylog_count |-> Count, log_graylog_fieldstats |-> Fieldstats,
             log_graylog_histogram |-> Histogram, log_graylog_search |-> Search]
=============================================================================

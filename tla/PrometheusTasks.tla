-------------------------- MODULE PrometheusTasks ---------------------------
(***************************************************************************)
(* internal/provider/prometheus: the 20 tasks.  Each fetches the client    *)
(* once, takes its guardrails, and then reads its parameters: what a       *)
(* guardrail bounds depends on the client.                                 *)
(***************************************************************************)
EXTENDS TaskSteps

HoldGuarded == <<Hold, Bounds("held")>>
Ask(answer) == <<Call("held", answer, "fail")>>

\* Its default and its maximum are the guardrail.
GuardedLimit == Limit("limit", "guardrail", "guardrail")

\* parseOptionalRange.
parseOptionalRange == <<Parsed("start", ""), Parsed("end", "")>>
RangeFields == [start |-> Choice, end |-> Choice]


-----------------------------------------------------------------------------
AlertsList == Task("prometheus",
  [state |-> Or(Choice, "all"), match_labels |-> Obj, limit |-> Counted],
  HoldGuarded \o <<Parsed("state", "all"), Map("match_labels"), GuardedLimit>>
    \o Ask("ordered") \o <<Keep({"state"}), Keep({"match_labels"}), CutSay>>)

\* The range is checked, against the guardrail too; the exemplars are not counted.
ExemplarsQuery == Task("prometheus",
  With([query |-> Must(Str)], [start |-> Must(Choice), end |-> Must(Choice)]),
  <<Need("query"), Hold, Limits("held"), NeedParsed("start"), NeedParsed("end"), Verify>>
    \o Ask("ordered"))

LabelValues == Task("prometheus",
  With([label |-> Must(Str), match |-> List, limit |-> Counted], RangeFields),
  <<Need("label")>> \o HoldGuarded \o <<Strings("match")>> \o parseOptionalRange
    \o <<GuardedLimit>> \o Ask("ordered") \o <<CutSay>>)

LabelsList == Task("prometheus",
  With([match |-> List], RangeFields),
  HoldGuarded \o <<Strings("match")>> \o parseOptionalRange \o Ask("ordered") \o <<CutSay>>)

\* The answer is a map, and is cut in the order Go iterates it.
MetadataGet == Task("prometheus",
  [metric |-> Str, limit |-> Counted],
  HoldGuarded \o <<Text("metric", ""), GuardedLimit>> \o Ask("unordered") \o <<CutSay>>)

MetricNames == Task("prometheus",
  With([match |-> List, search |-> Str, limit |-> Counted], RangeFields),
  HoldGuarded \o <<Strings("match")>> \o parseOptionalRange
    \o <<Text("search", ""), GuardedLimit>> \o Ask("ordered") \o <<Keep({"search"}), CutSay>>)

\* clientImpl.Query appends the guardrail's timeout to the options, over the one of the
\* parameter.  The server cuts the answer to the guardrail before truncateVector does.
QueryInstant == Task("prometheus",
  [query |-> Must(Str), time |-> Choice, timeout_seconds |-> UpTo("30", "300")],
  <<Need("query")>> \o HoldGuarded
    \o <<Parsed("time", ""), Vain(Above("timeout_seconds", "30"))>>
    \o Ask("limited") \o <<Find, CutSay>>)

\* The step must not be below the guardrail either; see QueryInstant for the rest.
QueryRange == Task("prometheus",
  [query |-> Must(Str), start |-> Must(Choice), end |-> Must(Choice), step |-> Str,
   timeout_seconds |-> UpTo("30", "300")],
  <<Need("query")>> \o HoldGuarded
    \o <<NeedParsed("start"), NeedParsed("end"), Verify, Parsed("step", "guardrail"),
         Verify, Vain(Above("timeout_seconds", "30"))>>
    \o Ask("limited") \o <<Find, CutSay>>)

RulesList == Task("prometheus",
  [type |-> Or(Choice, "all"), rule_group |-> Str, file |-> Str, match_labels |-> Obj,
   limit |-> Counted],
  HoldGuarded
    \o <<Parsed("type", "all"), Text("rule_group", ""), Text("file", ""),
         Map("match_labels"), GuardedLimit>>
    \o Ask("ordered")
    \o <<Keep({"rule_group"}), Keep({"file"}), Keep({"type"}), Keep({"match_labels"}), CutSay>>)

\* The pools are counted in a map; the answer has them all, in any order.
ScrapePoolsList == Task("prometheus",
  [include_counts |-> Or(Flag, "true")],
  <<Hold, Bool("include_counts", "true")>> \o Ask("unordered"))

SeriesList == Task("prometheus",
  With([match |-> Must(Filled), limit |-> Counted], RangeFields),
  <<NeedStrings("match")>> \o HoldGuarded \o parseOptionalRange \o <<GuardedLimit>>
    \o Ask("ordered") \o <<CutSay>>)

StatusConfig == Task("prometheus",
  [redact_secrets |-> Or(Flag, "true")],
  <<Hold, Bool("redact_secrets", "true")>> \o Ask("none") \o <<Find>>)

StatusFlags   == Task("prometheus", NoParams, <<Hold>> \o Ask("none"))
StatusHealthy == Task("prometheus", NoParams, <<Hold>> \o Ask("none"))
StatusReady   == Task("prometheus", NoParams, <<Hold>> \o Ask("none"))
StatusRuntime == Task("prometheus", NoParams, <<Hold>> \o Ask("none") \o Ask("none"))

\* Without a limit, or with a limit of 0, the statistics are not cut to the guardrail either.
StatusTsdb == Task("prometheus",
  [limit |-> Counted],
  HoldGuarded \o <<GuardedLimit>> \o Ask("ordered") \o <<CutIfGiven("limit")>>)

\* One of the three is required, as the schema does not say; the first match is returned.
TargetGet == Task("prometheus",
  [job |-> Str, instance |-> Str, scrape_pool |-> Str],
  <<Hold, Text("job", ""), Text("instance", ""), Text("scrape_pool", ""), Verify>>
    \o Ask("ordered") \o <<Keep({"job", "instance", "scrape_pool"}), Find>>)

TargetMetadata == Task("prometheus",
  [match_target |-> Obj, metric |-> Str, limit |-> Counted],
  HoldGuarded \o <<Map("match_target"), Text("metric", ""), GuardedLimit>> \o Ask("ordered")
    \o <<CutSay>>)

TargetsList == Task("prometheus",
  [state |-> Or(Choice, "any"), job |-> Str, instance |-> Str, limit |-> Counted],
  HoldGuarded
    \o <<Parsed("state", "any"), Text("job", ""), Text("instance", ""), GuardedLimit>>
    \o Ask("ordered") \o <<Keep({"state"}), Keep({"job"}), Keep({"instance"}), CutSay>>)

-----------------------------------------------------------------------------
PrometheusTasks == [
  prometheus_alerts_list |-> AlertsList, prometheus_exemplars_query |-> ExemplarsQuery,
  prometheus_label_values |-> LabelValues, prometheus_labels_list |-> LabelsList,
  prometheus_metadata_get |-> MetadataGet, prometheus_metric_names |-> MetricNames,
  prometheus_query_instant |-> QueryInstant, prometheus_query_range |-> QueryRange,
  prometheus_rules_list |-> RulesList, prometheus_scrape_pools_list |-> ScrapePoolsList,
  prometheus_series_list |-> SeriesList, prometheus_status_config |-> StatusConfig,
  prometheus_status_flags |-> StatusFlags, prometheus_status_healthy |-> StatusHealthy,
  prometheus_status_ready |-> StatusReady, prometheus_status_runtime |-> StatusRuntime,
  prometheus_status_tsdb |-> StatusTsdb, prometheus_target_get |-> TargetGet,
  prometheus_target_metadata |-> TargetMetadata, prometheus_targets_list |-> TargetsList]
=============================================================================

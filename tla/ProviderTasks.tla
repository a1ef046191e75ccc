--------------------------- MODULE ProviderTasks ----------------------------
(***************************************************************************)
(* The tasks of all providers, and what TaskRun's executions of them keep  *)
(* to.  A property names the tasks that do not keep to it.                 *)
(***************************************************************************)
EXTENDS TaskRun

Azure      == INSTANCE AzureTasks
Kafka      == INSTANCE KafkaTasks
Kubernetes == INSTANCE KubernetesTasks
Linux      == INSTANCE LinuxTasks
Log        == INSTANCE LogTasks
Network    == INSTANCE NetworkTasks
Postgres   == INSTANCE PostgresTasks
Prometheus == INSTANCE PrometheusTasks

AllPrograms == Azure!AzureTasks @@ Kafka!KafkaTasks @@ Kubernetes!KubernetesTasks
                 @@ Linux!LinuxTasks @@ Log!LogTasks @@ Network!NetworkTasks
                 @@ Postgres!PostgresTasks @@ Prometheus!PrometheusTasks

-----------------------------------------------------------------------------
(* What the steps of a program must be for its executions to keep to that. *)

StepsOf(p, ops) == {i \in 1..Len(p.steps) : p.steps[i].op \in ops}
Precede(I, J)   == \A i \in I, j \in J : i < j
AskHost(p)      == p.provider \notin DOMAIN OptionSets

\* Every parameter is read and checked before the first call.
ChecksPrecedeCalls(p) == Precede(StepsOf(p, {"read", "verify"}), StepsOf(p, {"call"}))

\* The client is fetched before the first of these steps, and not again.
HeldFor(p, ops) == /\ Precede(StepsOf(p, {"hold"}), StepsOf(p, ops))
                   /\ \A j \in StepsOf(p, ops) : \E i \in StepsOf(p, {"hold"}) : i < j

CallsVia(p, via) == \A i \in StepsOf(p, {"call"}) : p.steps[i].via = via
LimitsOf(p, of)  == \A i \in StepsOf(p, {"limits"}) : p.steps[i].of \in of

\* All calls go to a client fetched once, or to a host; or there is one call only.
FetchesOnce(p) == \/ CallsVia(p, "held") /\ HeldFor(p, {"call"})
                  \/ CallsVia(p, "current") /\ AskHost(p)
                  \/ \A i, j \in StepsOf(p, {"call"}) : i = j

\* The limits read are those of the client that is called.
LimitsOfClient(p) ==
  \/ StepsOf(p, {"limits"}) = {}
  \/ StepsOf(p, {"call"}) = {}
  \/ CallsVia(p, "held") /\ LimitsOf(p, {"held"}) /\ HeldFor(p, {"call", "limits"})
  \/ CallsVia(p, "current") /\ LimitsOf(p, {"current", "start"}) /\ AskHost(p)

\* The parameters read are those of the schema, and read as it states.
ReadsSchema(p) ==
  /\ \A i \in StepsOf(p, {"read"}) :
       LET r == p.steps[i] IN
         Stated(p.schema, r) /\ \A v \in Values \ r.takes : Excluded(p.schema[r.param], v)
  /\ DOMAIN p.schema = ParamsRead(p.steps)

\* Calls that answer with items, and those of them that cut the answer; what sets how many
\* items are wanted; what drops items; where an execution may end early.
Answering(p)  == {i \in StepsOf(p, {"call"}) : p.steps[i].answer # "none"}
ServerCuts(p) == {i \in Answering(p) : p.steps[i].answer \in {"limited", "tail"}}
Limiting(p)   == {i \in StepsOf(p, {"read"}) : p.steps[i].cap # Unsaid}
Bounding(p)   == {i \in StepsOf(p, {"limits"}) : p.steps[i].bounds}
Dropping(p)   == StepsOf(p, {"keep"}) \cup
                 {i \in StepsOf(p, {"each"}) : p.steps[i].onError # "fail"}
Ending(p)     == StepsOf(p, {"mayEnd"}) \cup
                 {i \in StepsOf(p, {"call"}) : p.steps[i].onError = "else"}

Unlimited(p)     == Limiting(p) = {} /\ Bounding(p) = {}
DropsInOrder(p)  == StepsOf(p, {"below", "around", "pick"}) = {}

\* Calls whose error is passed over and told nowhere; those after which the answer is what
\* was asked for, or says what it lacks.
Passing(p)  == {i \in Answering(p) : p.steps[i].onError \in {"pass", "else"}}
Settling(p) == {i \in Answering(p) : /\ p.steps[i].onError \in {"fail", "report"}
                                     /\ p.steps[i].unless = {}}

\* Call j settles what the calls from i on have passed over.
Settles(p, j, i) == /\ j \in Settling(p) /\ i <= j
                    /\ \A k \in Ending(p) \ Answering(p) : k < i \/ j < k

\* The answer is cut last, if at all, and loses nothing in another way, such as an error that
\* is passed over.
CutsLast(p) ==
  /\ DropsInOrder(p)
  /\ \A i \in Passing(p) : \E j \in Settling(p) : Settles(p, j, i)
  /\ \/ Unlimited(p)
     \/ Precede(StepsOf(p, {"read", "limits", "sort"}) \cup Dropping(p),
                StepsOf(p, {"cut"}) \cup ServerCuts(p))

\* The task that says whether it cut does so itself, once.
TellsCuts(p) ==
  (\E i \in StepsOf(p, {"cut"}) : p.steps[i].says) =>
    /\ DropsInOrder(p) /\ ServerCuts(p) = {} /\ Passing(p) = {}
    /\ \A i, j \in StepsOf(p, {"cut"}) : i = j

\* What is answered in any order is sorted, and before it is cut.
SortsBeforeCuts(p) ==
  (\E i \in Answering(p) : p.steps[i].answer = "unordered") =>
    /\ DropsInOrder(p) /\ StepsOf(p, {"addLast"}) = {} /\ StepsOf(p, {"sort"}) # {}
    /\ \A i, j \in Answering(p) : i = j /\ p.steps[i].onError = "fail"
    /\ Precede(Answering(p), StepsOf(p, {"each", "keep", "sort", "cut"}))
    /\ Precede(Ending(p), Answering(p))
    /\ \/ Unlimited(p)
       \/ /\ StepsOf(p, {"cut"}) # {}
          /\ Precede(StepsOf(p, {"read", "limits", "each", "keep", "sort"}), StepsOf(p, {"cut"}))
          /\ \A i \in StepsOf(p, {"cut"}) :
               p.steps[i].if = {} /\ \E j \in StepsOf(p, {"sort"}) : j < i

\* An answer that has a bound comes cut to it, or is cut before it is returned.
StaysShort(p) ==
  /\ StepsOf(p, {"addLast"}) = {}
  /\ StepsOf(p, {"cut"}) # {} => Precede(Ending(p), Answering(p))
  /\ Precede(StepsOf(p, {"read"}) \cup Answering(p), StepsOf(p, {"cut"}))
  /\ \/ Bounding(p) = {}
     \/ Answering(p) = {}
     \/ Answering(p) = ServerCuts(p) /\ Precede(Bounding(p), Answering(p))
     \/ /\ Precede(Ending(p), Answering(p))
        /\ \E i \in StepsOf(p, {"cut", "pick"}) :
             /\ p.steps[i].op = "cut" => p.steps[i].if = {}
             /\ Precede(Answering(p) \cup Bounding(p), {i})

\* A search goes through the last lines there are, and its result is not touched.
SearchesLast(p) ==
  StepsOf(p, {"around"}) # {} =>
    /\ \A i, j \in Answering(p) :
         i = j /\ p.steps[i].answer = "tail" /\ p.steps[i].onError = "fail"
    /\ \A i, j \in StepsOf(p, {"around"}) : i = j /\ p.steps[i].by # {}
    /\ Precede(Answering(p), StepsOf(p, {"around"}))
    /\ Precede(StepsOf(p, {"read", "limits"}), Answering(p))
    /\ StepsOf(p, {"each", "keep", "below", "sort", "pick", "cut", "addLast"}) = {}
    /\ Ending(p) = {}

-----------------------------------------------------------------------------
(* Parameters. *)

\* Two kafka tasks compile their pattern after the call, and of linux one reads the
\* environment first, one looks up the path, and two need the mounts to check theirs.
ChecksLate == {"kafka_consumer_group_list", "kafka_topic_list", "linux_system_environment",
               "linux_filesystem_space_consumers", "linux_cgroup_get",
               "linux_cgroup_processes"}

\* Parameters are checked before anything is asked of the system.
ChecksFirst == task \notin ChecksLate => (outcome = "refused" => asked = {})

\* Linux tasks whose schemas state no minimum for a pid or a limit that must be above zero.
MinimumUnstated == {"linux_process_get", "linux_process_open_files", "linux_process_limits",
                    "linux_process_threads", "linux_process_stack",
                    "linux_process_environment", "linux_process_list", "linux_login_history",
                    "linux_package_list"}

\* These read a parameter in vain or not at all, or refuse a value or apply a limit that
\* their schema states otherwise.
ReadsOtherwise == MinimumUnstated \cup
  {"kafka_topic_config_diff", "kafka_logdir_replica_sizes_get", "kafka_partition_offsets_get",
   "kafka_consumer_group_list", "kafka_topic_list", "kafka_partition_list",
   "postgres_connection_ping", "prometheus_query_instant", "prometheus_query_range",
   "linux_journal_query"}

\* The schema a task publishes is what Execute does with the parameters, under every
\* value that the schema admits.
SchemaHonoured == task \notin ReadsOtherwise => Honours

-----------------------------------------------------------------------------
(* An update of the configuration between two steps. *)

\* The kafka tasks of more than one call fetch the client for each.
Refetches == {"kafka_cluster_describe", "kafka_broker_config_diff",
              "kafka_partition_under_min_isr_list", "kafka_partition_offsets_compare",
              "kafka_consumer_group_offset_commit_verify", "kafka_partition_offsets_get"}

\* One execution talks to one client, whatever configuration is applied meanwhile.
OneClient == task \notin Refetches => Cardinality(asked) <= 1

\* These take their limits from another configuration: kafka fetches a client for them
\* alone, azure reads its configuration apart, and kubernetes' pod_logs keeps the limit it
\* was made with.
LimitsApart == {"kafka_cluster_metadata_get", "azure_logs_query_appgw",
                "azure_logs_query_vnet_flow", "kubernetes_pod_logs"}

\* The limits and settings applied are those of the configuration whose client is asked.
LimitsInForce ==
  task \notin LimitsApart => (limitsOf # <<>> => \A c \in asked : limitsOf = made[c])

\* Whatever state its client is in, a task ends with a result (kafka/client.go:97,
\* prometheus/client.go:51).
UsableClient == outcome # "panicked"

-----------------------------------------------------------------------------
(* The answer. *)

\* These go on where their call failed, and answer as if the system held nothing, or less.
PassedOver == {"linux_socket_list", "linux_network_route_list", "linux_network_neighbor_list",
               "linux_network_rule_list", "linux_firewall_iptables_rules",
               "linux_systemd_unit_list", "linux_systemd_unit_definition",
               "linux_systemd_unit_logs", "linux_journal_query", "linux_journal_boots",
               "linux_service_failed", "linux_core_dump_list",
               "postgres_maintenance_progress", "kafka_partition_offsets_compare"}

\* The server cuts what two of these filter afterwards; a search in a log cuts it too,
\* Graylog's first group stands for all, and a process of another user hides those below it.
Incomplete == PassedOver \cup
              {"kubernetes_pod_describe", "kubernetes_service_list", "kubernetes_pod_logs",
               "log_graylog_fieldstats", "linux_process_tree"}

\* An answer with fewer items than were asked for lacks none, unless it tells of an error.
CompleteAnswer == task \notin Incomplete => ShortComplete

\* The prometheus server cuts the answer of a query before the task counts it.
CutUntold == {"prometheus_query_instant", "prometheus_query_range"}

\* An answer that is not marked as truncated lacks none.
TruncationTold == task \notin CutUntold => UncutComplete

\* These answer in the order in which Go iterates a map (metadata_get.go:52,
\* scrape_pools_list.go:73, partition_logdirs_get.go:55).
Unsorted == {"prometheus_metadata_get", "prometheus_scrape_pools_list",
             "kafka_partition_logdirs_get"}

\* Asked twice, a task answers the same in the same order, although Go iterates maps in any.
RepeatableAnswer == task \notin Unsorted => Repeatable

\* These have no limit unless one is asked for, never look at the guardrail
\* (log/guardrails.go:84), or list a package twice (linux/package_list.go:92).
Unguarded == {"prometheus_status_tsdb", "log_graylog_histogram", "linux_package_list"}

\* No answer is longer than was asked for, or than the guardrails of the provider allow.
GuardrailsKept == task \notin Unguarded => Bounded

\* A search in a log shows a match if there is one, where more than one line may be shown.
\* Where one line was asked for, the code shows the line before the match (pod_logs.go:123-126
\* takes a context of one line nevertheless, and cuts it from its first line on).
MatchShown == SearchShown

-----------------------------------------------------------------------------
(* The tasks of all providers, as far as Programs has them, meet these.    *)

\* A task that is not named above has its steps in an order that gives what it should keep to.
ASSUME ExceptionsSuffice ==
  \A t \in DOMAIN Programs :
    /\ t \in ChecksLate     \/ ChecksPrecedeCalls(Programs[t])
    /\ t \in ReadsOtherwise \/ ReadsSchema(Programs[t])
    /\ t \in Refetches      \/ FetchesOnce(Programs[t])
    /\ t \in LimitsApart    \/ LimitsOfClient(Programs[t])
    /\ t \in Incomplete     \/ CutsLast(Programs[t])
    /\ t \in CutUntold      \/ TellsCuts(Programs[t])
    /\ t \in Unsorted       \/ SortsBeforeCuts(Programs[t])
    /\ t \in Unguarded      \/ StaysShort(Programs[t])
    /\ SearchesLast(Programs[t])

\* A task that is named has not: none is excepted without need.
ASSUME ExceptionsNeeded ==
  \A t \in DOMAIN Programs :
    /\ t \in ChecksLate     => ~ChecksPrecedeCalls(Programs[t])
    /\ t \in ReadsOtherwise => ~ReadsSchema(Programs[t])
    /\ t \in Refetches      => ~FetchesOnce(Programs[t])
    /\ t \in LimitsApart    => ~LimitsOfClient(Programs[t])
    /\ t \in Incomplete     => ~CutsLast(Programs[t])
    /\ t \in CutUntold      => ~TellsCuts(Programs[t])
    /\ t \in Unsorted       => ~SortsBeforeCuts(Programs[t])
    /\ t \in Unguarded      => ~StaysShort(Programs[t])
=============================================================================

----------------------------- MODULE KafkaTasks -----------------------------
(***************************************************************************)
(* internal/provider/kafka: the 38 tasks.  Each fetches the client anew    *)
(* for every call, after its parameters; its check for a nil client never  *)
(* holds, for the interface it is given wraps a pointer.                   *)
(***************************************************************************)
EXTENDS TaskSteps

Ask(answer) == Call("current", answer, "fail")
Try(answer) == Call("current", answer, "pass")

\* NormalizeLimitKafka, and the schema of its parameter.
NormalizeLimitKafka == Limit("limit", "100", "1000")
LimitField == UpTo("100", "1000")

GroupField  == [group_id |-> Must(Str)]
TopicsField == [topics |-> List]

-----------------------------------------------------------------------------
(* Brokers and the cluster.                                                *)

\* The brokers are listed first if none are given.
BrokerConfigDiff == Task("kafka",
  [broker_ids |-> List, keys |-> List],
  <<Strings("broker_ids"), Strings("keys"), Without("broker_ids", Ask("none")),
    Ask("unordered"), Leave,
    Keep({"keys"}), KeepOnly, Sort>>)

BrokerConfigGet == Task("kafka",
  [broker_id |-> Must(Whole), keys |-> List, include_defaults |-> Or(Flag, "true")],
  <<NeedNum("broker_id"), Strings("keys"), Bool("include_defaults", "true"),
    Ask("ordered"), Strict, Keep({"keys"}), KeepUnless("include_defaults")>>)

BrokerDescribe == Task("kafka",
  [broker_id |-> Must(Whole)],
  <<NeedNum("broker_id"), Ask("ordered"), Find>>)

BrokerList == Task("kafka", NoParams, <<Ask("ordered")>>)

ClusterApiVersionsGet == Task("kafka",
  [broker_id |-> Whole],
  <<Num("broker_id", "-1"), Ask("unordered"), Sort, Keep({"broker_id"}), Leave>>)

ClusterConfigGet == Task("kafka",
  [keys |-> List],
  <<Strings("keys"), Ask("ordered"), Strict, Keep({"keys"})>>)

ClusterDescribe == Task("kafka", NoParams, <<Ask("ordered"), Try("none")>>)

ClusterFeaturesGet == Task("kafka", NoParams, <<Ask("ordered"), Find>>)

\* The guardrails are those of the client fetched for them alone.  The items are the topics;
\* that the partitions of a topic are cut too, under the same flag, is left out with them.
ClusterMetadataGet == Task("kafka",
  [topics |-> List, include_internal |-> Or(Flag, "false"),
   max_partitions |-> UpTo(Unsaid, "10000")],
  <<Strings("topics"), Bool("include_internal", "false"), Num("max_partitions", "0"),
    Bounds("current"), Ask("unordered"), Sort, KeepUnless("include_internal"), CutSay>>)

-----------------------------------------------------------------------------
(* Consumer groups.                                                        *)

DescribesGroup == Task("kafka", GroupField, <<Need("group_id"), Ask("ordered"), Find>>)

ConsumerGroupAssignmentGet  == DescribesGroup
ConsumerGroupDescribe       == DescribesGroup
ConsumerGroupMembersList    == DescribesGroup
ConsumerGroupStateGet       == DescribesGroup
ConsumerGroupCoordinatorGet == DescribesGroup

\* timeout_ms bounds both calls; the second is a probe whose error is reported.
ConsumerGroupOffsetCommitVerify == Task("kafka",
  [group_id |-> Must(Str), timeout_ms |-> UpTo("10000", "60000")],
  <<Need("group_id"), Num("timeout_ms", "10000"), Ask("ordered"), Find, Try("none")>>)

ConsumerGroupOffsetsGet == Task("kafka",
  [group_id |-> Must(Str), topics |-> List],
  <<Need("group_id"), Strings("topics"), Ask("unordered"), Sort, Keep({"topics"})>>)

\* The pattern is compiled while the groups are filtered, after the call; page_token is
\* not read.
ConsumerGroupList == Task("kafka",
  [state |-> List, pattern |-> Str, limit |-> LimitField, page_token |-> Str],
  <<Strings("state"), Text("pattern", ""), NormalizeLimitKafka,
    Ask("unordered"), Sort, Verify, Keep({"pattern"}), CutSay>>)

ConsumerGroupLagGet == Task("kafka",
  [group_id |-> Must(Str), topics |-> List, aggregate |-> Or(Choice, "none")],
  <<Need("group_id"), Strings("topics"), Parsed("aggregate", "none"),
    Ask("unordered"), Find, Sort, Keep({"topics"})>>)


-----------------------------------------------------------------------------
(* Log directories: DescribeAllLogDirs asks every broker; the directories  *)
(* are sorted and those of other brokers left out (sortedLogDirs).         *)

AskLogDirs == <<Ask("unordered"), Sort, Keep({"broker_ids"})>>

\* The items are the directories; the replicas in each come in any order.
LogdirDescribe == Task("kafka",
  [broker_ids |-> List, topics |-> List],
  <<Strings("broker_ids"), Strings("topics")>> \o AskLogDirs \o <<Keep({"topics"})>>)

LogdirErrorsList == Task("kafka",
  [broker_ids |-> List],
  <<Strings("broker_ids")>> \o AskLogDirs \o <<KeepOnly>>)

LogdirList == Task("kafka",
  [broker_ids |-> List],
  <<Strings("broker_ids")>> \o AskLogDirs)

LogdirReplicaSizes == Task("kafka",
  [broker_ids |-> List, topics |-> List, limit |-> UpTo("1000", "10000")],
  <<Strings("broker_ids"), Strings("topics"), NormalizeLimitKafka>> \o AskLogDirs
    \o <<Keep({"topics"}), CutSay>>)

\* The directories are sorted, the topics and partitions in each are not.
PartitionLogdirsGet == Task("kafka",
  [topic |-> Str, partition |-> Whole, broker_ids |-> List],
  <<Text("topic", ""), Num("partition", "-1"), Strings("broker_ids"), Ask("unordered"),
    Keep({"broker_ids"}), Keep({"topic"}), Keep({"partition"})>>)

StorageTopicSizes == Task("kafka",
  [topics |-> List, broker_ids |-> List],
  <<Strings("topics"), Strings("broker_ids")>> \o AskLogDirs \o <<Keep({"topics"})>>)

-----------------------------------------------------------------------------
(* Topics.                                                                 *)

TopicConfigDiff == Task("kafka",
  [topics |-> Must(List), keys |-> List],
  <<NeedStrings("topics"), Strings("keys"), Ask("unordered"), Leave, Keep({"keys"}),
    KeepOnly, Sort>>)

TopicConfigGet == Task("kafka",
  [topic |-> Must(Str), keys |-> List, include_defaults |-> Or(Flag, "true")],
  <<Need("topic"), Strings("keys"), Bool("include_defaults", "true"), Ask("ordered"),
    Find, Keep({"keys"}), KeepUnless("include_defaults")>>)

TopicDescribe == Task("kafka", [topic |-> Must(Str)],
  <<Need("topic"), Ask("unordered"), Find, Sort>>)

TopicList == Task("kafka",
  [include_internal |-> Or(Flag, "false"), pattern |-> Str, limit |-> LimitField,
   page_token |-> Str],
  <<Bool("include_internal", "false"), Text("pattern", ""), NormalizeLimitKafka,
    Ask("unordered"), Sort, KeepUnless("include_internal"), Verify, Keep({"pattern"}),
    CutSay>>)

-----------------------------------------------------------------------------
(* Partitions.                                                             *)

PartitionDescribe == Task("kafka",
  [topic |-> Must(Str), partition |-> Must(Whole)],
  <<Need("topic"), NeedNum("partition"), Ask("ordered"), Find>>)

PartitionISRDescribe == Task("kafka",
  [topic |-> Must(Str), partitions |-> List],
  <<Need("topic"), Strings("partitions"), Ask("unordered"), Find, Sort,
    Keep({"partitions"})>>)

PartitionLeaderDistribution == Task("kafka", TopicsField,
  <<Strings("topics"), Ask("unordered"), Sort, KeepOnly>>)

PartitionReplicaDistribution == Task("kafka", TopicsField,
  <<Strings("topics"), Ask("unordered"), Sort>>)

\* page_token is not read.
PartitionList == Task("kafka",
  [topics |-> List, leader_id |-> Whole, replica_id |-> Whole,
   include_internal |-> Or(Flag, "false"), limit |-> LimitField, page_token |-> Str],
  <<Strings("topics"), Num("leader_id", "-1"), Num("replica_id", "-1"),
    Bool("include_internal", "false"), NormalizeLimitKafka, Ask("unordered"), Sort,
    KeepUnless("include_internal"), Keep({"leader_id"}), Keep({"replica_id"}), CutSay>>)

\* The partitions in trouble.
ListsPartitions == Task("kafka",
  [topics |-> List, limit |-> LimitField],
  <<Strings("topics"), NormalizeLimitKafka, Ask("unordered"), Sort, KeepOnly, CutSay>>)

PartitionOfflineList         == ListsPartitions
PartitionUnderReplicatedList == ListsPartitions

\* Topics whose configuration could not be read are left out.
PartitionUnderMinISRList == Task("kafka",
  [topics |-> List, limit |-> LimitField],
  <<Strings("topics"), NormalizeLimitKafka, Ask("unordered"), Ask("none"), Leave, Sort,
    KeepOnly, CutSay>>)

\* Each replica is asked for its end offset; one that does not answer is listed with an
\* offset of -1, as if it were behind.  The items are the offsets.
PartitionOffsetsCompare == Task("kafka",
  [topic |-> Must(Str), partition |-> Must(Whole)],
  <<Need("topic"), NeedNum("partition"), Ask("none"), Find, Ask("none"), Try("ordered"),
    Sort>>)

\* The code takes "earliest" and "latest" only, and then returns both.
PartitionOffsetsGet == Task("kafka",
  [topic |-> Must(Str), partitions |-> List,
   timestamp |-> Or(Field({"text", "odd"}), "latest")],
  <<Need("topic"), Strings("partitions"), Parsed("timestamp", "latest"), Ask("none"),
    Ask("unordered"), Keep({"partitions"}), Sort>>)

-----------------------------------------------------------------------------
KafkaTasks == [
  kafka_broker_config_diff |-> BrokerConfigDiff, kafka_broker_config_get |-> BrokerConfigGet,
  kafka_broker_describe |-> BrokerDescribe, kafka_broker_list |-> BrokerList,
  kafka_cluster_api_versions_get |-> ClusterApiVersionsGet,
  kafka_cluster_config_get |-> ClusterConfigGet, kafka_cluster_describe |-> ClusterDescribe,
  kafka_cluster_features_get |-> ClusterFeaturesGet,
  kafka_cluster_metadata_get |-> ClusterMetadataGet,
  kafka_consumer_group_assignment_get |-> ConsumerGroupAssignmentGet,
  kafka_consumer_group_coordinator_get |-> ConsumerGroupCoordinatorGet,
  kafka_consumer_group_describe |-> ConsumerGroupDescribe,
  kafka_consumer_group_lag_get |-> ConsumerGroupLagGet,
  kafka_consumer_group_list |-> ConsumerGroupList,
  kafka_consumer_group_members_list |-> ConsumerGroupMembersList,
  kafka_consumer_group_offset_commit_verify |-> ConsumerGroupOffsetCommitVerify,
  kafka_consumer_group_offsets_get |-> ConsumerGroupOffsetsGet,
  kafka_consumer_group_state_get |-> ConsumerGroupStateGet,
  kafka_logdir_describe |-> LogdirDescribe, kafka_logdir_errors_list |-> LogdirErrorsList,
  kafka_logdir_list |-> LogdirList, kafka_logdir_replica_sizes_get |-> LogdirReplicaSizes,
  kafka_partition_describe |-> PartitionDescribe,
  kafka_partition_isr_describe |-> PartitionISRDescribe,
  kafka_partition_leader_distribution_get |-> PartitionLeaderDistribution,
  kafka_partition_list |-> PartitionList, kafka_partition_logdirs_get |-> PartitionLogdirsGet,
  kafka_partition_offline_list |-> PartitionOfflineList,
  kafka_partition_offsets_compare |-> PartitionOffsetsCompare,
  kafka_partition_offsets_get |-> PartitionOffsetsGet,
  kafka_partition_replica_distribution_get |-> PartitionReplicaDistribution,
  kafka_partition_under_min_isr_list |-> PartitionUnderMinISRList,
  kafka_partition_under_replicated_list |-> PartitionUnderReplicatedList,
  kafka_storage_topic_sizes_get |-> StorageTopicSizes,
  kafka_topic_config_diff |-> TopicConfigDiff, kafka_topic_config_get |-> TopicConfigGet,
  kafka_topic_describe |-> TopicDescribe, kafka_topic_list |-> TopicList]
=============================================================================

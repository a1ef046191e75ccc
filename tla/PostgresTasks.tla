--------------------------- MODULE PostgresTasks ----------------------------
(***************************************************************************)
(* internal/provider/postgres: the 14 tasks.  Each fetches the client once *)
(* and asks it one or a few queries; the server sorts, filters and limits. *)
(***************************************************************************)
EXTENDS TaskSteps

\* A query, its rows scanned one by one.
Query   == <<Call("held", "limited", "fail"), Strict>>
QueryRow == <<Call("held", "none", "fail")>>

LimitTo1000(default) == Limit("limit", default, "1000")

ConnectionPing  == Task("postgres", [timeout |-> Str], <<Hold>> \o QueryRow)
ConnectionStats == Task("postgres", NoParams, <<Hold>> \o QueryRow)
InstanceInfo    == Task("postgres", NoParams, <<Hold>> \o QueryRow)

LockBlocking == Task("postgres",
  [limit |-> UpTo("50", "1000")],
  <<LimitTo1000("50"), Hold>> \o Query)

\* Five views, one after the other; one that cannot be read counts as empty.
MaintenanceProgress == Task("postgres", NoParams,
  <<Hold, Call("held", "limited", "pass"), Leave, Call("held", "none", "pass")>>)

\* pg_stat_statements, and pg_stat_activity if that cannot be read.
QueryTop == Task("postgres",
  [limit |-> UpTo("10", "1000"), sort_by |-> Or(Choice, "total_time")],
  <<LimitTo1000("10"), Text("sort_by", "total_time"), Hold,
    OrElse(Call("held", "limited", "pass"))>> \o Query)

ReplicationSlots == Task("postgres",
  [limit |-> UpTo("50", "1000"), slot_type |-> Choice],
  <<LimitTo1000("50"), Parsed("slot_type", ""), Hold>> \o Query)

ReplicationStatus == Task("postgres", NoParams, <<Hold>> \o QueryRow \o Query)

\* The default and the maximum are the guardrail max_rows where that is set.
SessionList == Task("postgres",
  [limit |-> UpTo("50", "1000"), state |-> Choice],
  <<Hold, Bounds("held"), LimitTo1000("50"), Text("state", "")>> \o Query)

StorageLargestRelations == Task("postgres",
  [schema |-> Or(Str, "public"), limit |-> UpTo("50", "1000"),
   include_indexes |-> Or(Flag, "true")],
  <<Text("schema", "public"), LimitTo1000("50"), Bool("include_indexes", "true"), Hold>>
    \o Query)

TableStats == Task("postgres",
  [schema |-> Or(Str, "public"), limit |-> UpTo("50", "1000")],
  <<Text("schema", "public"), LimitTo1000("50"), Hold>> \o Query)

TableVacuumStatus == Task("postgres",
  [schema |-> Or(Str, "public"), limit |-> UpTo("50", "1000"),
   dead_tup_ratio_threshold |-> Or(Counted, "10")],
  <<Text("schema", "public"), LimitTo1000("50"), Above("dead_tup_ratio_threshold", "10"),
    Hold>> \o Query)

TransactionLongRunning == Task("postgres",
  [min_duration |-> Or(Str, "5m"), limit |-> UpTo("50", "1000")],
  <<LimitTo1000("50"), Parsed("min_duration", "5m"), Hold>> \o Query)

\* The archiver is asked about unless archive_mode is off.
WalArchiver == Task("postgres", NoParams, <<Hold>> \o QueryRow \o <<MayEnd>> \o QueryRow)

PostgresTasks == [
  postgres_connection_ping |-> ConnectionPing, postgres_connection_stats |-> ConnectionStats,
  postgres_instance_info |-> InstanceInfo, postgres_lock_blocking |-> LockBlocking,
  postgres_maintenance_progress |-> MaintenanceProgress, postgres_query_top |-> QueryTop,
  postgres_replication_slots |-> ReplicationSlots,
  postgres_replication_status |-> ReplicationStatus, postgres_session_list |-> SessionList,
  postgres_storage_largest_relations |-> StorageLargestRelations,
  postgres_table_stats |-> TableStats, postgres_table_vacuum_status |-> TableVacuumStatus,
  postgres_transaction_long_running |-> TransactionLongRunning,
  postgres_wal_archiver |-> WalArchiver]
=============================================================================

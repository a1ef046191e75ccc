----------------------------- MODULE LinuxTasks -----------------------------
(***************************************************************************)
(* internal/provider/linux: the 74 tasks.  The system asked is the host:   *)
(* files under /proc, /sys and /etc, netlink, and the output of commands.  *)
(* The provider has no client, and its configuration never changes.        *)
(***************************************************************************)
EXTENDS TaskSteps

Ask(answer) == <<Call("current", answer, "fail")>>
Try(answer) == <<Call("current", answer, "pass")>>
Tell(answer) == <<Reports(Call("current", answer, "fail"))>>
Configured  == <<Limits("current")>>

NormalizeLimit == Limit("limit", "100", "1000")
FreeLimit  == Or(Whole, "100")
LimitField == UpTo("100", "1000")
LaxText(p) == Lax(Text(p, ""))
LaxNum(p)  == Lax(Num(p, "0"))

\* A file whose lines are the items; those that cannot be parsed are left out.
Lines == Ask("ordered") \o <<Leave>>

\* A part of the kernel that need not be there.
IfThere(answer) == <<MayEnd>> \o Ask(answer)

\* A file, or several, read as they are.
ReadsFile  == Task("linux", NoParams, Ask("none"))
ListsFile  == Task("linux", NoParams, Lines)
TriesFiles == Task("linux", NoParams, Try("none"))

-----------------------------------------------------------------------------
(* The system and its kernel.                                              *)

SystemInfo   == TriesFiles
SystemTime   == TriesFiles
SystemUptime == Task("linux", NoParams, Ask("none") \o Ask("none"))

\* The names are checked after the environment was read; given at all, they filter.
SystemEnvironment == Task("linux", [names |-> List],
  Configured \o Ask("unordered") \o <<Heard(Strings("names")), Keep({"names"}), Keyed>>)

KernelCmdline     == Task("linux", NoParams, Ask("ordered"))
KernelModulesList == ListsFile
KernelTaint       == ReadsFile

\* One key, or several; the ones that cannot be read are reported.
KernelSysctlGet == Task("linux", [key |-> Str, keys |-> List],
  <<LaxText("key"), Lax(Strings("keys")), Verify>> \o Tell("ordered") \o <<Leave>>)

\* The first messages, as many as were asked for.
KernelDmesg == Task("linux", [limit |-> LimitField, filter |-> Str],
  <<NormalizeLimit, LaxText("filter")>> \o Ask("ordered") \o <<Keep({"filter"}), Cut>>)

-----------------------------------------------------------------------------
(* Processes.  One that ends between the listing of /proc and the reading  *)
(* of its files is left out.                                               *)

ProcessList == Task("linux",
  [pid |-> Whole, user |-> Str, name |-> Str, sort |-> Or(Choice, "pid"), limit |-> FreeLimit],
  <<LaxNum("pid"), LaxText("user"), LaxText("name"), Lax(Text("sort", "pid")),
    NormalizeLimit>>
    \o Lines \o <<Keep({"pid", "user", "name"}), Sort, Cut>>)

\* A process of another user hides those below it.
ProcessTree == Task("linux", [pid |-> Whole, user |-> Str],
  <<Lax(Num("pid", "1")), LaxText("user")>> \o Lines \o <<KeepBelow("user"), Find>>)

\* ValidatePID.
NeedPID == [Above("pid", "0") EXCEPT !.takes = @ \ {"absent"}]
OfProcess(steps) == Task("linux", [pid |-> Must(Whole)], <<NeedPID>> \o steps)

ProcessGet         == OfProcess(Ask("none") \o Try("none"))
ProcessOpenFiles   == OfProcess(Ask("ordered"))
ProcessLimits      == OfProcess(Lines)
ProcessEnvironment == OfProcess(Configured \o Ask("unordered") \o <<Keyed>>)
ProcessThreads     == OfProcess(Lines)
ProcessStack       == OfProcess(Ask("ordered"))

-----------------------------------------------------------------------------
(* Memory, processors and load.                                            *)

MemoryInfo   == ListsFile
MemoryVmstat == ListsFile
CpuInfo      == Task("linux", NoParams, Ask("ordered"))

CpuStats == Task("linux", [per_cpu |-> Or(Flag, "false")],
  <<Lax(Bool("per_cpu", "false"))>> \o Lines \o <<KeepUnless("per_cpu")>>)

LoadInfo    == ReadsFile
PressureGet == TriesFiles
SwapList    == ListsFile

-----------------------------------------------------------------------------
(* Filesystems and block devices.  Paths have to be below the allowed ones.*)

FilesystemList   == ListsFile
FilesystemInodes == ListsFile
FilesystemMounts == ListsFile

\* ValidateReadPath.
ReadPath(limits) == <<Need("path"), limits, Verify>>

FilesystemStat == Task("linux", [path |-> Must(Str)],
  ReadPath(Limits("current")) \o Ask("none"))

\* MaxReadBytes of the file from the offset on.
FilesystemRead == Task("linux", [path |-> Must(Str), offset |-> Whole],
  ReadPath(Bounds("current")) \o <<Num("offset", "0"), Verify>>
    \o Ask("none") \o Ask("ordered") \o <<CutSay>>)

FilesystemListDirectory == Task("linux", [path |-> Must(Str)],
  ReadPath(Bounds("current")) \o Ask("none") \o Ask("ordered") \o <<CutSay>>)

\* The path is looked up before the limit is read, and a limit below 1 counts as absent;
\* what cannot be read is left out.
FilesystemSpaceConsumers == Task("linux", [path |-> Must(Str), limit |-> Or(Whole, "50")],
  ReadPath(Limits("current")) \o Ask("none")
    \o <<[Limit("limit", "50", "1000") EXCEPT !.takes = @ \cup {"low"}]>>
    \o Lines \o <<Sort, Cut>>)

BlockdeviceList  == Task("linux", NoParams, Ask("ordered") \o Try("none"))
BlockdeviceStats == ListsFile

-----------------------------------------------------------------------------
(* Sockets, interfaces and routes.                                         *)

\* listSockets: the tables of each protocol, as far as they can be read.
SocketList == Task("linux", [protocol |-> Choice, state |-> Str],
  <<LaxText("protocol"), LaxText("state")>> \o Try("ordered")
    \o <<Leave, Keep({"protocol", "state"})>>)

Port == Field({"whole"})
SocketGet == Task("linux",
  [local_address |-> Str, local_port |-> Port, remote_address |-> Str, remote_port |-> Port,
   protocol |-> Choice],
  <<LaxText("local_address"), LaxNum("local_port"), LaxText("remote_address"),
    LaxNum("remote_port"), LaxText("protocol")>> \o Try("none") \o <<Find>>)

InterfaceList == Task("linux", [include_down |-> Or(Flag, "true")],
  <<Lax(Bool("include_down", "true"))>> \o Try("none") \o Ask("ordered")
    \o <<KeepUnless("include_down")>>)

OfFamily == Task("linux", [family |-> Choice],
  <<LaxText("family")>> \o Try("ordered") \o <<Leave, Keep({"family"})>>)

RouteList    == OfFamily
NeighborList == OfFamily

RouteLookup == Task("linux", [destination |-> Must(Str)],
  <<NeedParsed("destination")>> \o Ask("none") \o <<Find>>)

RuleList     == Task("linux", NoParams, Try("ordered") \o <<Leave>>)
NetworkStats == TriesFiles
DnsConfig    == ReadsFile

\* A record type that is not known ends it.
DnsResolve == Task("linux", [target |-> Must(Str), record_type |-> Or(Choice, "A")],
  <<Need("target"), [Lax(Text("record_type", "A")) EXCEPT !.takes = @ \ {"odd"}]>>
    \o Ask("ordered"))

-----------------------------------------------------------------------------
(* Firewalls.                                                              *)

NftablesList == Task("linux", [table_name |-> Str, family |-> Choice],
  <<Text("table_name", ""), Parsed("family", "")>> \o Ask("ordered")
    \o <<Keep({"table_name", "family"}), Strict>>)

NftablesTableGet == Task("linux", [table_name |-> Must(Str), family |-> Or(Choice, "inet")],
  <<Need("table_name"), Parsed("family", "inet")>> \o Ask("none") \o Ask("none"))

\* From the kernel, or else from /proc; the errors are among the messages of the answer.
NftablesRuleset == Task("linux", NoParams,
  <<OrElse(Call("current", "ordered", "fail"))>> \o Tell("ordered"))

IptablesRules   == Task("linux", NoParams, Try("ordered"))
FirewalldStatus == TriesFiles

FirewalldZoneGet == Task("linux", [zone |-> Must(Str)],
  <<Need("zone"), Verify>> \o Ask("none"))

-----------------------------------------------------------------------------
(* systemd and its journal.                                                *)

SystemdUnitList == Task("linux", NoParams, Try("ordered") \o <<Sort>>)

\* findUnitFile.
OfUnit(steps) == Task("linux", [unit |-> Must(Str)], <<Need("unit")>> \o Ask("none") \o steps)

SystemdUnitStatus       == OfUnit(Try("none"))
SystemdUnitShow         == OfUnit(<<>>)
SystemdUnitDefinition   == OfUnit(Try("ordered") \o <<Sort, Leave>>)
SystemdUnitDependencies == OfUnit(<<>>)

\* listJournalFiles.
JournalFiles(p) == Configured \o Try("ordered") \o <<Leave, Keep({p}), Sort>>

SystemdUnitLogs == Task("linux", [unit |-> Must(Str)], <<Need("unit")>> \o JournalFiles("unit"))

\* Entries are not read: priority, since and until are repeated in the answer.
JournalQuery == Task("linux", [service |-> Str, priority |-> Str, since |-> Str, until |-> Str],
  <<Text("service", ""), Vain(Text("priority", "")), Vain(Text("since", "")),
    Vain(Text("until", ""))>> \o JournalFiles("service"))

JournalBoots  == Task("linux", NoParams, Configured \o Try("ordered") \o <<Sort>>)
ServiceFailed == Task("linux", NoParams, Try("ordered"))

-----------------------------------------------------------------------------
(* Users, security, cgroups, packages and logins.                          *)

UserList  == ListsFile
GroupList == ListsFile
UserGet   == Task("linux", [user |-> Must(Str)],
  <<Need("user")>> \o Ask("none") \o <<Find>> \o Try("none"))

\* Without a pid above zero, the agent's own process, or the first.
OfAnyProcess(steps) == Task("linux", [pid |-> Whole], <<LaxNum("pid")>> \o steps)

CapabilitiesGet == OfAnyProcess(Ask("none"))
SelinuxStatus   == Task("linux", NoParams, IfThere("none"))
ApparmorStatus  == Task("linux", NoParams, IfThere("ordered"))
CgroupList      == OfAnyProcess(Lines)
NamespaceList   == OfAnyProcess(Lines)

\* The path is checked against where the cgroups are mounted.
OfCgroup(steps) == Task("linux", [path |-> Must(Str)],
  <<Need("path")>> \o Ask("none") \o <<Verify>> \o steps)

CgroupGet       == OfCgroup(Try("none"))
CgroupProcesses == OfCgroup(Lines)

PackageGet == Task("linux", [name |-> Must(Str)], <<Need("name")>> \o Ask("none"))

\* Of dpkg, the package that the reading stops at is listed again after the loop.
PackageList == Task("linux", [filter |-> Str, limit |-> FreeLimit],
  <<LaxText("filter"), NormalizeLimit>> \o IfThere("ordered")
    \o <<Keep({"filter"}), Cut, AddLast>>)

CoreDumpList == Task("linux", NoParams, Try("ordered") \o <<Leave>>)
CoreDumpInfo == Task("linux", [file |-> Must(Str)], <<Need("file")>> \o Try("none") \o <<Find>>)

LoginSessions == Task("linux", NoParams, Lines \o <<KeepOnly>>)

\* The first entries, as many as were asked for.
LoginHistory == Task("linux", [limit |-> FreeLimit], <<NormalizeLimit>> \o Lines \o <<Cut>>)

-----------------------------------------------------------------------------

LinuxTasks ==
  [linux_system_info |-> SystemInfo, linux_system_uptime |-> SystemUptime,
   linux_system_time |-> SystemTime, linux_system_environment |-> SystemEnvironment,
   linux_kernel_cmdline |-> KernelCmdline, linux_kernel_modules_list |-> KernelModulesList,
   linux_kernel_taint |-> KernelTaint, linux_kernel_sysctl_get |-> KernelSysctlGet,
   linux_kernel_dmesg |-> KernelDmesg, linux_process_list |-> ProcessList,
   linux_process_get |-> ProcessGet, linux_process_tree |-> ProcessTree,
   linux_process_open_files |-> ProcessOpenFiles, linux_process_limits |-> ProcessLimits,
   linux_process_environment |-> ProcessEnvironment, linux_process_threads |-> ProcessThreads,
   linux_process_stack |-> ProcessStack, linux_memory_info |-> MemoryInfo,
   linux_memory_vmstat |-> MemoryVmstat, linux_cpu_info |-> CpuInfo,
   linux_cpu_stats |-> CpuStats, linux_load_info |-> LoadInfo,
   linux_pressure_get |-> PressureGet, linux_swap_list |-> SwapList,
   linux_filesystem_list |-> FilesystemList, linux_filesystem_inodes |-> FilesystemInodes,
   linux_filesystem_mounts |-> FilesystemMounts, linux_filesystem_stat |-> FilesystemStat,
   linux_filesystem_read |-> FilesystemRead,
   linux_filesystem_list_directory |-> FilesystemListDirectory,
   linux_filesystem_space_consumers |-> FilesystemSpaceConsumers,
   linux_blockdevice_list |-> BlockdeviceList, linux_blockdevice_stats |-> BlockdeviceStats,
   linux_socket_list |-> SocketList, linux_socket_get |-> SocketGet,
   linux_network_interface_list |-> InterfaceList, linux_network_route_list |-> RouteList,
   linux_network_route_lookup |-> RouteLookup, linux_network_rule_list |-> RuleList,
   linux_network_neighbor_list |-> NeighborList, linux_network_stats |-> NetworkStats,
   linux_network_dns_config |-> DnsConfig, linux_network_dns_resolve |-> DnsResolve,
   linux_firewall_nftables_list |-> NftablesList,
   linux_firewall_nftables_table_get |-> NftablesTableGet,
   linux_firewall_nftables_ruleset |-> NftablesRuleset,
   linux_firewall_iptables_rules |-> IptablesRules,
   linux_firewall_firewalld_status |-> FirewalldStatus,
   linux_firewall_firewalld_zone_get |-> FirewalldZoneGet,
   linux_systemd_unit_list |-> SystemdUnitList, linux_systemd_unit_status |-> SystemdUnitStatus,
   linux_systemd_unit_show |-> SystemdUnitShow,
   linux_systemd_unit_definition |-> SystemdUnitDefinition,
   linux_systemd_unit_dependencies |-> SystemdUnitDependencies,
   linux_systemd_unit_logs |-> SystemdUnitLogs, linux_journal_query |-> JournalQuery,
   linux_journal_boots |-> JournalBoots, linux_service_failed |-> ServiceFailed,
   linux_user_list |-> UserList, linux_group_list |-> GroupList, linux_user_get |-> UserGet,
   linux_security_capabilities_get |-> CapabilitiesGet,
   linux_security_selinux_status |-> SelinuxStatus,
   linux_security_apparmor_status |-> ApparmorStatus, linux_cgroup_list |-> CgroupList,
   linux_cgroup_get |-> CgroupGet, linux_cgroup_processes |-> CgroupProcesses,
   linux_namespace_list |-> NamespaceList, linux_package_get |-> PackageGet,
   linux_package_list |-> PackageList, linux_core_dump_list |-> CoreDumpList,
   linux_core_dump_info |-> CoreDumpInfo, linux_login_sessions |-> LoginSessions,
   linux_login_history |-> LoginHistory]
=============================================================================

-------------------------- MODULE KubernetesTasks ---------------------------
(***************************************************************************)
(* internal/provider/kubernetes: the 54 tasks.  Each reads its parameters, *)
(* fetches the client once and asks the API server one question, or two.   *)
(* A list is cut by the server, which is passed the limit, and does not    *)
(* say so.                                                                 *)
(***************************************************************************)
EXTENDS TaskSteps

Ask(answer) == <<Hold, Call("held", answer, "fail")>>

\* common.NormalizeLimit, and the schema of its parameter.
NormalizeLimit == Limit("limit", "100", "1000")
LimitField == UpTo("100", "1000")

Each(ps, read(_)) == [i \in 1..Len(ps) |-> read(ps[i])]
Fields(ps, f)     == [p \in {ps[i] : i \in 1..Len(ps)} |-> f]

\* One object, found by the parameters ps.
GetBy(ps) == Task("kubernetes", Fields(ps, Must(Str)), Each(ps, Need) \o Ask("none"))

\* A list of objects, selected by the parameters ps.
Selectors(ps) == Each(ps, LAMBDA p : Text(p, ""))
ListBy(ps) == Task("kubernetes", With(Fields(ps, Str), [limit |-> LimitField]),
  Selectors(ps) \o <<NormalizeLimit>> \o Ask("limited"))

-----------------------------------------------------------------------------
(* Objects of a namespace.                                                 *)

NamespacedGet == GetBy(<<"namespace", "name">>)

ConfigmapGet      == NamespacedGet
CronjobGet        == NamespacedGet
DaemonsetGet      == NamespacedGet
DeploymentGet     == NamespacedGet
EndpointsGet      == NamespacedGet
EndpointsliceGet  == NamespacedGet
EventGet          == NamespacedGet
IngressGet        == NamespacedGet
JobGet            == NamespacedGet
LimitrangeGet     == NamespacedGet
NetworkpolicyGet  == NamespacedGet
PodGet            == NamespacedGet
PodGetFull        == NamespacedGet
ReplicasetGet     == NamespacedGet
ResourcequotaGet  == NamespacedGet
RoleGet           == NamespacedGet
RolebindingGet    == NamespacedGet
ServiceGet        == NamespacedGet
ServiceaccountGet == NamespacedGet
StatefulsetGet    == NamespacedGet

\* Selected by namespace, labels and fields, or by namespace and labels.
SelectedList == ListBy(<<"namespace", "label_selector", "field_selector">>)
LabelledList == ListBy(<<"namespace", "label_selector">>)

ConfigmapList      == LabelledList
CronjobList        == SelectedList
DaemonsetList      == SelectedList
DeploymentList     == SelectedList
EndpointsList      == SelectedList
EndpointsliceList  == LabelledList
IngressList        == SelectedList
JobList            == SelectedList
LimitrangeList     == LabelledList
NetworkpolicyList  == LabelledList
PodList            == SelectedList
ReplicasetList     == SelectedList
ResourcequotaList  == LabelledList
RoleList           == LabelledList
RolebindingList    == LabelledList
ServiceaccountList == LabelledList
StatefulsetList    == SelectedList

EventList == ListBy(<<"namespace", "field_selector">>)

\* The type is not a selector: it filters the list that the server cut.
ServiceList == Task("kubernetes",
  With(Fields(<<"namespace", "label_selector", "field_selector">>, Str),
       [type |-> Choice, limit |-> LimitField]),
  Selectors(<<"namespace", "label_selector", "field_selector">>)
    \o <<Parsed("type", ""), NormalizeLimit>> \o Ask("limited") \o <<Keep({"type"})>>)

-----------------------------------------------------------------------------
(* Objects of the cluster.                                                 *)

NamedGet == GetBy(<<"name">>)

ClusterroleGet        == NamedGet
ClusterrolebindingGet == NamedGet
NamespaceGet          == NamedGet
NodeGet               == NamedGet

ClusterroleList        == ListBy(<<"label_selector">>)
ClusterrolebindingList == ListBy(<<"label_selector">>)
NamespaceList          == ListBy(<<"label_selector", "field_selector">>)
NodeList               == ListBy(<<"label_selector", "field_selector">>)

VersionGet == Task("kubernetes", NoParams, Ask("none"))

\* The groups whose discovery failed are left out unless all did; given at all, namespaced
\* filters, be it false.
APIResourcesList == Task("kubernetes",
  [api_group |-> Str, namespaced |-> Flag],
  <<Text("api_group", ""), Heard(Bool("namespaced", "false"))>> \o Ask("ordered")
    \o <<Leave, Keep({"api_group"}), Keep({"namespaced"})>>)

CustomResourceGet == GetBy(<<"api_group", "version", "resource", "namespace", "name">>)

CustomResourceList == Task("kubernetes",
  With(Fields(<<"api_group", "version", "resource">>, Must(Str)),
       [namespace |-> Str, limit |-> LimitField]),
  Each(<<"api_group", "version", "resource">>, Need)
    \o <<Text("namespace", ""), NormalizeLimit>> \o Ask("limited"))

\* Asked of the user, or of the agent itself if none is named; the groups count for a
\* user only.
AuthorizationCheck == Task("kubernetes",
  With(With(Fields(<<"verb", "resource">>, Must(Str)), [groups |-> List]),
       Fields(<<"namespace", "name", "api_group", "subresource", "user">>, Str)),
  Each(<<"verb", "resource">>, Need)
    \o Selectors(<<"namespace", "name", "api_group", "subresource", "user">>)
    \o <<Strings("groups")>> \o Ask("none"))

-----------------------------------------------------------------------------
(* Pods.                                                                   *)

\* The events are cut by the server, and then checked to be of this pod.
PodDescribe == Task("kubernetes",
  With(Fields(<<"namespace", "name">>, Must(Str)), [event_limit |-> UpTo("20", "100")]),
  Each(<<"namespace", "name">>, Need) \o <<Limit("event_limit", "20", "100")>>
    \o Ask("none") \o <<Call("held", "limited", "fail"), KeepOnly, Cut>>)

\* The maximum is the one the task was made with.  A search reads that many lines and
\* returns those around the matches, as many as were asked for.
PodLogs == Task("kubernetes",
  With(Fields(<<"namespace", "name">>, Must(Str)),
       [container |-> Str, tail_lines |-> UpTo("100", "10000"),
        previous |-> Or(Flag, "false"), search |-> Str]),
  Each(<<"namespace", "name">>, Need)
    \o <<Text("container", ""), Guarded("tail_lines", "100"), Bool("previous", "false"),
         Text("search", ""), Hold, Bounds("start"), Call("held", "tail", "fail"),
         Around("search")>>)

-----------------------------------------------------------------------------
KubernetesTasks == [
  kubernetes_api_resources_list |-> APIResourcesList,
  kubernetes_authorization_check |-> AuthorizationCheck,
  kubernetes_clusterrole_get |-> ClusterroleGet, kubernetes_clusterrole_list |-> ClusterroleList,
  kubernetes_clusterrolebinding_get |-> ClusterrolebindingGet,
  kubernetes_clusterrolebinding_list |-> ClusterrolebindingList,
  kubernetes_configmap_get |-> ConfigmapGet, kubernetes_configmap_list |-> ConfigmapList,
  kubernetes_cronjob_get |-> CronjobGet, kubernetes_cronjob_list |-> CronjobList,
  kubernetes_custom_resource_get |-> CustomResourceGet,
  kubernetes_custom_resource_list |-> CustomResourceList,
  kubernetes_daemonset_get |-> DaemonsetGet, kubernetes_daemonset_list |-> DaemonsetList,
  kubernetes_deployment_get |-> DeploymentGet, kubernetes_deployment_list |-> DeploymentList,
  kubernetes_endpoints_get |-> EndpointsGet, kubernetes_endpoints_list |-> EndpointsList,
  kubernetes_endpointslice_get |-> EndpointsliceGet,
  kubernetes_endpointslice_list |-> EndpointsliceList,
  kubernetes_event_get |-> EventGet, kubernetes_event_list |-> EventList,
  kubernetes_ingress_get |-> IngressGet, kubernetes_ingress_list |-> IngressList,
  kubernetes_job_get |-> JobGet, kubernetes_job_list |-> JobList,
  kubernetes_limitrange_get |-> LimitrangeGet, kubernetes_limitrange_list |-> LimitrangeList,
  kubernetes_namespace_get |-> NamespaceGet, kubernetes_namespace_list |-> NamespaceList,
  kubernetes_networkpolicy_get |-> NetworkpolicyGet,
  kubernetes_networkpolicy_list |-> NetworkpolicyList,
  kubernetes_node_get |-> NodeGet, kubernetes_node_list |-> NodeList,
  kubernetes_pod_describe |-> PodDescribe, kubernetes_pod_get |-> PodGet,
  kubernetes_pod_get_full |-> PodGetFull, kubernetes_pod_list |-> PodList,
  kubernetes_pod_logs |-> PodLogs,
  kubernetes_replicaset_get |-> ReplicasetGet, kubernetes_replicaset_list |-> ReplicasetList,
  kubernetes_resourcequota_get |-> ResourcequotaGet,
  kubernetes_resourcequota_list |-> ResourcequotaList,
  kubernetes_role_get |-> RoleGet, kubernetes_role_list |-> RoleList,
  kubernetes_rolebinding_get |-> RolebindingGet, kubernetes_rolebinding_list |-> RolebindingList,
  kubernetes_service_get |-> ServiceGet, kubernetes_service_list |-> ServiceList,
  kubernetes_serviceaccount_get |-> ServiceaccountGet,
  kubernetes_serviceaccount_list |-> ServiceaccountList,
  kubernetes_statefulset_get |-> StatefulsetGet, kubernetes_statefulset_list |-> StatefulsetList,
  kubernetes_version_get |-> VersionGet]
=============================================================================

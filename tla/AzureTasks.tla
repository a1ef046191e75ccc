----------------------------- MODULE AzureTasks -----------------------------
(***************************************************************************)
(* internal/provider/azure: the 9 tasks.  Each reads its parameters, takes *)
(* one of the clients made together for a subscription, and asks Azure one *)
(* question.                                                               *)
(***************************************************************************)
EXTENDS TaskSteps

\* The client fetches every page; an error on one of them fails the call.
AllPages == <<Hold, Call("held", "ordered", "fail")>>

normalizeMaxRows == Limit("max_rows", "100", "1000")
MaxRowsField     == UpTo("100", "1000")

\* The workspace of the configuration, read apart from the client, stands for an absent
\* one; there must be one of them.
resolveWorkspaceID == <<Limits("current"), Text("workspace_id", "configured"), Verify>>

\* A duration of Go or of ISO 8601.
parseTimespan == <<Parsed("timespan", "PT1H")>>
TimespanField == Or(Str, "PT1H")

Filter(p) == Text(p, "")

-----------------------------------------------------------------------------
\* The events are cut here, and the result does not say so.
ActivityChanges == Task("azure",
  [timespan |-> TimespanField, max_rows |-> MaxRowsField, resource_group |-> Str,
   resource_type |-> Str, operation_name |-> Str],
  parseTimespan
    \o <<normalizeMaxRows, Filter("resource_group"), Filter("resource_type"),
         Filter("operation_name")>>
    \o AllPages \o <<Cut>>)

AppGatewayBackendHealth == Task("azure",
  [resource_group |-> Must(Str), app_gateway_name |-> Must(Str)],
  <<Need("resource_group"), Need("app_gateway_name")>> \o AllPages)

AppGatewayListeners == AppGatewayBackendHealth

LBHealth == Task("azure",
  [resource_group |-> Must(Str), load_balancer_name |-> Must(Str)],
  <<Need("resource_group"), Need("load_balancer_name")>> \o AllPages)

LBRules == LBHealth

\* A query for at most max_rows rows.
QueryWorkspace == <<Hold, Call("held", "limited", "fail")>>

AppGatewayLogs == Task("azure",
  [workspace_id |-> Str, timespan |-> TimespanField, max_rows |-> MaxRowsField,
   app_gateway_name |-> Str],
  resolveWorkspaceID \o parseTimespan \o <<normalizeMaxRows, Filter("app_gateway_name")>>
    \o QueryWorkspace)

VNetFlowLogs == Task("azure",
  [workspace_id |-> Str, timespan |-> TimespanField, max_rows |-> MaxRowsField,
   nsg_name |-> Str, source_ip |-> Str, dest_ip |-> Str],
  resolveWorkspaceID \o parseTimespan
    \o <<normalizeMaxRows, Filter("nsg_name"), Filter("source_ip"), Filter("dest_ip")>>
    \o QueryWorkspace)

\* Of the resource group, or of the subscription; without the rules if so asked.
NSG == Task("azure",
  [resource_group |-> Str, include_rules |-> Or(Flag, "true")],
  <<Filter("resource_group"), Bool("include_rules", "true")>> \o AllPages)

UDR == Task("azure",
  [resource_group |-> Str, include_routes |-> Or(Flag, "true")],
  <<Filter("resource_group"), Bool("include_routes", "true")>> \o AllPages)

-----------------------------------------------------------------------------
AzureTasks == [
  azure_activity_changes |-> ActivityChanges, azure_logs_query_appgw |-> AppGatewayLogs,
  azure_logs_query_vnet_flow |-> VNetFlowLogs,
  azure_network_appgw_backend_health |-> AppGatewayBackendHealth,
  azure_network_appgw_listeners_list |-> AppGatewayListeners,
  azure_network_lb_rule_health |-> LBHealth, azure_network_lb_rules_list |-> LBRules,
  azure_network_nsg_list |-> NSG, azure_network_udr_list |-> UDR]
=============================================================================

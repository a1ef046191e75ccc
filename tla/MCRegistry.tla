----------------------------- MODULE MCRegistry -----------------------------
\* Registry with a provider of two capabilities, of which the whitelist hides
\* one, a provider that needs two fields, one hidden altogether and a static one
\* (os) whose capability has no task.
EXTENDS Registry, TLC

MCProviders == {"prometheus", "azure", "os"}
MCCaps == {"prometheus.query", "prometheus.labels", "azure.nsg", "os.file"}
MCCapsOf == [p \in MCProviders |->
  CASE p = "prometheus" -> {"prometheus.query", "prometheus.labels"}
    [] p = "azure" -> {"azure.nsg"}
    [] p = "os" -> {"os.file"}]
MCHasTask == MCCaps \ {"os.file"}
MCEnabled == {"prometheus.query", "azure.nsg", "os.file"}
MCNames == MCCaps \cup {"prometheus", "azure", "other"}
MCNamedAfter == [p \in MCProviders |-> MCCapsOf[p] \cup ({p} \cap Names)]
MCFewNames == MCCaps
MCFields == {"url", "key"}
MCRequired == [p \in MCProviders |->
  CASE p = "prometheus" -> {"url"} [] p = "azure" -> {"url", "key"} [] p = "os" -> {}]
=============================================================================

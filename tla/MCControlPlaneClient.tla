------------------------ MODULE MCControlPlaneClient ------------------------
(* TLC instance of ControlPlaneClient. *)
EXTENDS ControlPlaneClient, TLC

\* Bound: where a configuration was pushed or has taken effect, one command was sent.
OneWithConfigs ==
  pushes > 0 \/ lastApplied > 0 => Cardinality({j \in Jobs : exec[j] # "idle"}) <= 1

CommandSymmetry == Permutations(Commands)
=============================================================================

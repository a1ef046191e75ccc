----------------------------- MODULE ConfigCell -----------------------------
(***************************************************************************)
(* What a provider's runtime configuration promises its tasks: one cell    *)
(* with a configuration and a client made for it.  An update is applied as *)
(* a whole to the configuration it finds; a client that is replaced is     *)
(* retired, and closed later, once.  Updates that overlap may each start   *)
(* from a configuration that is no longer in force.                        *)
(***************************************************************************)
EXTENDS Integers

CONSTANTS
  Keys, Rests   \* values of the fields a client is built from, and of the others

Unset == "unset"
Configs == [key : Keys, rest : Rests]

\* A manifest sets one field, or both, or nothing.
Raws == [key : Keys \cup {Unset}, rest : Rests \cup {Unset}]

Merge(cfg, raw) ==
  [key  |-> IF raw.key = Unset THEN cfg.key ELSE raw.key,
   rest |-> IF raw.rest = Unset THEN cfg.rest ELSE raw.rest]

VARIABLES options,  \* selective: is a client rebuilt only when its own fields change?
                    \* hasClose: does it need closing?  concurrent: may updates overlap?
          config,   \* the configuration
          client,   \* the client that tasks are given
          madeFor,  \* ... and the configuration it was built for
          retired,  \* clients replaced and not yet closed
          closed    \* clients closed

\* Does the client made for configuration a serve b as well?
Serves(a, b) == IF options.selective THEN a.key = b.key ELSE a = b

cellVars == <<options, config, client, madeFor, retired, closed>>

CellInit ==
  /\ options \in [selective : BOOLEAN, hasClose : BOOLEAN, concurrent : BOOLEAN]
  /\ config \in Configs /\ client = 1 /\ madeFor = config
  /\ retired = {} /\ closed = {}

\* An update whose client, if it needs another one, could be made.
Update(raw) ==
  /\ \E base \in (IF options.concurrent THEN Configs ELSE {config}) :
       config' = Merge(base, raw)
  /\ config' # config
  /\ IF Serves(config, config')
     THEN client' = client /\ UNCHANGED <<madeFor, retired>>
     ELSE /\ client' \notin retired \cup closed \cup {client}
          /\ madeFor' = config'
          /\ retired' = IF options.hasClose THEN retired \cup {client} ELSE retired
  /\ UNCHANGED <<options, closed>>

CloseRetired(k) ==
  /\ k \in retired
  /\ retired' = retired \ {k} /\ closed' = closed \cup {k}
  /\ UNCHANGED <<options, config, client, madeFor>>

\* Of two updates that overlap and want the same, one drops the client it made.
CloseUnused ==
  /\ options.concurrent /\ options.hasClose
  /\ \E k \in closed' \ (retired \cup closed \cup {client}) : closed' = closed \cup {k}
  /\ UNCHANGED <<options, config, client, madeFor, retired>>

CellNext == \/ \E raw \in Raws : Update(raw)
            \/ \E k \in retired : CloseRetired(k)
            \/ CloseUnused

CellSpec == CellInit /\ [][CellNext]_cellVars
=============================================================================

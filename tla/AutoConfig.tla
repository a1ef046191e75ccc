----------------------------- MODULE AutoConfig -----------------------------
(***************************************************************************)
(* internal/provider/autoconfig/updater.go: the configuration of a running *)
(* provider.  Apply reads the configuration, parses the update and builds  *)
(* a client without the lock, then takes the lock and installs them; a     *)
(* goroutine closes the replaced clients after a grace period.  In the     *)
(* agent one goroutine calls Apply (Registry.ApplyOnlineConfig holds r.mu).*)
(***************************************************************************)
EXTENDS Integers, Sequences, FiniteSets, ProviderOptions

CONSTANTS
  Keys, Rests,  \* values of the fields a client is built from, and of the others
  Callers,      \* goroutines calling Apply
  Grace,        \* the grace period in ticks
  MaxClients    \* bound: clients ever built

ASSUME AutoConfigAssumption ==
  /\ "unset" \notin Keys \cup Rests
  /\ Grace \in Nat \ {0} /\ MaxClients \in Nat \ {0}

Unset   == "unset"
Configs == [key : Keys, rest : Rests]
Raws    == [key : Keys \cup {Unset}, rest : Rests \cup {Unset}]
Clients == 1..MaxClients
Nil     == 0

VARIABLES
  options,         \* the autoconfig.Options of this provider, which never change,
                   \* and whether more than one goroutine calls Apply
  config, client,  \* State.config, State.client
  pendingClose,    \* State.pendingClose
  draining,        \* State.draining
  sleep,           \* ticks drainPendingClose still sleeps
  toClose,         \* the clients drainPendingClose is closing, unlocked
  built,           \* per client built so far, its configuration
  call,            \* per caller, its Apply
  age,             \* per client, ticks since it was replaced (at most Grace)
  closed           \* per client, how often it was closed

stateVars == <<config, client, pendingClose, draining>>
vars == <<options, stateVars, sleep, toClose, built, call, age, closed>>

Call == [new : Configs, recreate : BOOLEAN, client : 0..MaxClients]
NoCall == [client |-> Nil]
Busy(c) == call[c] # NoCall

\* In the agent one goroutine at a time calls Apply (Registry.ApplyOnlineConfig holds
\* r.mu).  Its second equality check provides for several; with Recreate set it may
\* then install a client it never built, so that case is left out.
MayCall(c) == ~Busy(c) /\ (options.concurrent \/ \A d \in Callers : ~Busy(d))

OptionTypes == [selective : BOOLEAN, hasClose : BOOLEAN, concurrent : BOOLEAN]

TypeOK ==
  /\ options \in OptionTypes
  /\ config \in Configs
  /\ client \in 0..MaxClients
  /\ pendingClose \in Seq(0..MaxClients)
  /\ draining \in BOOLEAN
  /\ sleep \in 0..Grace
  /\ toClose \subseteq 0..MaxClients
  /\ built \in Seq(Configs) /\ Len(built) <= MaxClients
  /\ call \in [Callers -> Call \cup {NoCall}]
  /\ age \in [Clients -> 0..Grace]
  /\ closed \in [Clients -> 0..2]

Init ==
  /\ \E p \in DOMAIN OptionSets, b \in BOOLEAN :
       /\ b => ~OptionSets[p].selective
       /\ options = [selective |-> OptionSets[p].selective,
                     hasClose |-> OptionSets[p].hasClose, concurrent |-> b]
  /\ config \in Configs /\ client = 1 /\ built = <<config>>
  /\ pendingClose = <<>> /\ draining = FALSE /\ sleep = 0 /\ toClose = {}
  /\ call = [c \in Callers |-> NoCall]
  /\ age = [k \in Clients |-> 0] /\ closed = [k \in Clients |-> 0]

-----------------------------------------------------------------------------
\* The providers' parsers take from the update what it has.
Parse(cfg, raw) ==
  [key  |-> IF raw.key = Unset THEN cfg.key ELSE raw.key,
   rest |-> IF raw.rest = Unset THEN cfg.rest ELSE raw.rest]

RecreateOnRest(old, new) == options.selective => old.rest # new.rest
Recreate(old, new) == options.selective => old.key # new.key

InPending == {pendingClose[i] : i \in DOMAIN pendingClose}
Close(ks) == closed' = [k \in Clients |-> IF k \in ks THEN closed[k] + 1 ELSE closed[k]]

\* Apply up to the lock: read the configuration, parse, compare, build.  An
\* update that changes nothing returns here, as does a build that fails.
Prepare(c, raw) ==
  /\ MayCall(c)
  /\ LET new == Parse(config, raw) IN
       /\ new # config
       /\ IF Recreate(config, new)
          THEN /\ Len(built) < MaxClients
               /\ built' = Append(built, new)
               /\ call' = [call EXCEPT ![c] = [new |-> new, recreate |-> TRUE,
                                               client |-> Len(built) + 1]]
          ELSE /\ call' = [call EXCEPT ![c] = [new |-> new, recreate |-> FALSE,
                                               client |-> Nil]]
               /\ UNCHANGED built
  /\ UNCHANGED <<options, stateVars, sleep, toClose, age, closed>>

DiscardLeaky(c) ==
  /\ Busy(c) /\ config = call[c].new
  /\ call' = [call EXCEPT ![c] = NoCall]
  /\ UNCHANGED <<options, stateVars, sleep, toClose, built, age, closed>>

\* The configuration was changed to the same by another caller meanwhile.
Discard(c) ==
  /\ Busy(c) /\ config = call[c].new
  /\ IF call[c].recreate /\ options.hasClose THEN Close({call[c].client}) ELSE UNCHANGED closed
  /\ call' = [call EXCEPT ![c] = NoCall]
  /\ UNCHANGED <<options, stateVars, sleep, toClose, built, age>>

RetireOnly ==
  /\ pendingClose' = Append(pendingClose, client)
  /\ UNCHANGED <<draining, sleep>>

RetireNew ==
  /\ pendingClose' = Append(pendingClose, client')
  /\ draining' = TRUE
  /\ sleep' = IF draining THEN sleep ELSE Grace

\* The replaced client waits to be closed, with those that already do.
Retire ==
  /\ pendingClose' = Append(pendingClose, client)
  /\ draining' = TRUE
  /\ sleep' = IF draining THEN sleep ELSE Grace

\* Apply under the lock.
Install(c) ==
  /\ Busy(c) /\ config # call[c].new
  /\ config' = call[c].new
  /\ IF Recreate(config, call[c].new)
     THEN /\ client' = call[c].client
          /\ IF options.hasClose THEN Retire ELSE UNCHANGED <<pendingClose, draining, sleep>>
     ELSE UNCHANGED <<client, pendingClose, draining, sleep>>
  /\ call' = [call EXCEPT ![c] = NoCall]
  /\ UNCHANGED <<options, toClose, built, age, closed>>

\* A tick of the clock, for the sleeping drain and the clients it waits for.
Tick ==
  /\ draining /\ sleep > 0
  /\ sleep' = sleep - 1
  /\ age' = [k \in Clients |-> IF k \in InPending /\ age[k] < Grace THEN age[k] + 1
                               ELSE age[k]]
  /\ UNCHANGED <<options, stateVars, toClose, built, call, closed>>

DrainKeeping ==
  /\ draining /\ sleep = 0
  /\ toClose' = toClose \cup InPending
  /\ draining' = FALSE
  /\ UNCHANGED <<options, config, client, pendingClose, sleep, built, call, age, closed>>

\* drainPendingClose wakes up and takes the whole queue.
DrainTake ==
  /\ draining /\ sleep = 0
  /\ toClose' = toClose \cup InPending
  /\ pendingClose' = <<>> /\ draining' = FALSE
  /\ UNCHANGED <<options, config, client, sleep, built, call, age, closed>>

\* ... and closes them one after the other.
DrainClose(k) ==
  /\ k \in toClose
  /\ toClose' = toClose \ {k} /\ Close({k})
  /\ UNCHANGED <<options, stateVars, sleep, built, call, age>>

-----------------------------------------------------------------------------
Drain == Tick \/ DrainTake \/ \E k \in 0..MaxClients : DrainClose(k)

Next ==
  \/ \E c \in Callers : (\E raw \in Raws : Prepare(c, raw)) \/ Discard(c) \/ Install(c)
  \/ Drain

Spec == Init /\ [][Next]_vars

\* The drain goroutine is scheduled and its timer fires.
FairSpec == Spec /\ WF_vars(Drain)

-----------------------------------------------------------------------------
(* Properties. *)

\* Tasks are never handed a client made for another configuration than the one in
\* force (Apply, State.Client).
ClientMatchesConfig ==
  /\ client # Nil
  /\ IF options.selective THEN built[client].key = config.key ELSE built[client] = config

\* Every client built is in use, on its way in, waiting to be closed or closed,
\* and in one of these places only: none leaks, none is closed twice (Apply,
\* drainPendingClose).
OnePlace ==
  options.hasClose =>
    \A k \in 1..Len(built) :
      Cardinality({c \in Callers : Busy(c) /\ call[c].client = k})
      + Cardinality({i \in DOMAIN pendingClose : pendingClose[i] = k})
      + (IF client = k THEN 1 ELSE 0)
      + (IF k \in toClose THEN 1 ELSE 0)
      + closed[k] = 1

\* A replaced client is closed in the end (drainPendingClose, draining).
RetiredClosed == \A k \in Clients : k \in InPending ~> closed[k] > 0

\* A client is closed no sooner than a grace period after it was replaced, so
\* that requests in flight can finish (updater_test.go:71).
GraceGiven == \A k \in toClose : k # Nil => age[k] >= Grace

\* Apply implements the cell of ConfigCell: config and client change together.
Cell == INSTANCE ConfigCell WITH
  madeFor <- built[client],
  retired <- InPending \cup toClose,
  closed  <- {k \in Clients : closed[k] > 0}
ImplementsCell == Cell!CellSpec
=============================================================================

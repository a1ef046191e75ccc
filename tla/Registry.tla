------------------------------ MODULE Registry ------------------------------
(***************************************************************************)
(* internal/registry/registry.go, with the providers it configures, the    *)
(* startup of cmd/marvin/main.go and the client's part in an update.       *)
(*                                                                         *)
(* ApplyOnlineConfig runs on the client's run goroutine alone, and so does *)
(* the Register that follows a change; executors only look tasks up.       *)
(* r.mu is write-locked exactly while upPc = "entries".                    *)
(***************************************************************************)
EXTENDS Integers, Sequences, FiniteSets

CONSTANTS
  Providers,   \* exampleProviders
  Caps,        \* capability names
  CapsOf,      \* p.Capabilities()
  HasTask,     \* the capabilities p.GetTask knows
  Enabled,     \* the capabilities that capabilities.enabled matches
  Names,       \* names an UpdateConfig may carry
  NamedAfter,  \* the names equal to a provider's or prefixed by it and a dot
  Fields,      \* configuration fields
  Required,    \* the fields IsConfigured wants non-empty
  MaxEntries   \* bound: entries of one UpdateConfig

\* Providers do not share capabilities: RegisterProvider would fail, and main
\* with it.  Each capability is named after its provider.
ASSUME RegistryAssumption ==
  /\ CapsOf \in [Providers -> (SUBSET Caps) \ {{}}]
  /\ \A p, q \in Providers : p # q => CapsOf[p] \cap CapsOf[q] = {}
  /\ HasTask \subseteq Caps /\ Enabled \subseteq Caps
  /\ NamedAfter \in [Providers -> SUBSET Names]
  /\ \A p, q \in Providers : p # q => NamedAfter[p] \cap NamedAfter[q] = {}
  /\ \A p \in Providers : CapsOf[p] \subseteq NamedAfter[p]
  /\ Required \in [Providers -> SUBSET Fields]
  /\ MaxEntries \in Nat

\* What one manifest of an update does to its provider's config: some fields get
\* a value, some become empty; a manifest may also come without a config.
Change == {c \in [set : SUBSET Fields, clear : SUBSET Fields] : c.set \cap c.clear = {}}
Entry  == [name : Names, cfg : Change]

VARIABLES
  registered,    \* r.providers
  capabilities,  \* r.capabilities
  tasks,         \* r.tasks
  config,        \* per provider, the required fields its config has
  upPc, todo,    \* ApplyOnlineConfig: where it is, the entries left
  named,         \* ... history: the providers its entries have named
  snapshot,      \* ... what emitChangedLocked hands to the callback
  connected,     \* main has called client.Register
  manifest,      \* the client's regState.capabilities
  told,          \* the manifest of the last Register message
  session,       \* what became of the stream it was sent on
  wanted,        \* history: config as the control plane's updates left it
  pushed         \* history: did an update pushed since then change ListEnabled?

regVars == <<registered, capabilities, tasks, config>>
updVars == <<upPc, todo, named, snapshot>>
sesVars == <<connected, manifest, told, session>>
vars == <<regVars, updVars, sesVars, wanted, pushed>>

TypeOK ==
  /\ registered \subseteq Providers
  /\ capabilities \subseteq Caps
  /\ tasks \subseteq Caps
  /\ config \in [Providers -> SUBSET Fields]
  /\ upPc \in {"idle", "entries", "emit"}
  /\ todo \in Seq(Entry)
  /\ named \subseteq Providers
  /\ snapshot \subseteq Caps
  /\ connected \in BOOLEAN
  /\ manifest \subseteq Caps
  /\ told \subseteq Caps
  /\ session \in {"none", "registering", "accepted", "open", "ending"}
  /\ wanted \in [Providers -> SUBSET Fields]
  /\ pushed \in BOOLEAN

\* The providers' configs come from the config file.
Init ==
  /\ registered = {} /\ capabilities = {} /\ tasks = {}
  /\ config \in [Providers -> SUBSET Fields]
  /\ \A p \in Providers : config[p] \subseteq Required[p]
  /\ wanted = config
  /\ upPc = "idle" /\ todo = <<>> /\ named = {} /\ snapshot = {}
  /\ connected = FALSE /\ manifest = {} /\ told = {}
  /\ session = "none" /\ pushed = FALSE

-----------------------------------------------------------------------------
(* Startup. *)

ListEnabled == capabilities \cap Enabled
IsConfigured(p) == Required[p] \subseteq config[p]
CapsOfAll(ps) == UNION {CapsOf[p] : p \in ps}

RegisterByCapability(p) ==
  /\ ~connected /\ p \notin registered
  /\ registered' = registered \cup CapsOf[p]
  /\ capabilities' = capabilities \cup CapsOf[p]
  /\ tasks' = tasks \cup (CapsOf[p] \cap HasTask)
  /\ UNCHANGED <<config, updVars, sesVars, wanted, pushed>>

\* Every provider is registered with all it has, configured or not.
RegisterProvider(p) ==
  /\ ~connected /\ p \notin registered
  /\ registered' = registered \cup {p}
  /\ capabilities' = capabilities \cup CapsOf[p]
  /\ tasks' = tasks \cup (CapsOf[p] \cap HasTask)
  /\ UNCHANGED <<config, updVars, sesVars, wanted, pushed>>

\* main: SetOnCapabilitiesChanged, then client.Register with ListEnabled().
Connect ==
  /\ ~connected /\ registered = Providers
  /\ connected' = TRUE /\ manifest' = ListEnabled
  /\ UNCHANGED <<regVars, updVars, told, session, wanted, pushed>>

\* The client sends Register: at first, and whenever a stream has ended.
Reregister ==
  /\ connected /\ upPc = "idle"
  /\ told' = manifest /\ session' = "registering" /\ pushed' = FALSE
  /\ UNCHANGED <<regVars, updVars, connected, manifest, wanted>>

\* connectOnce, after Registered and its effective config: the stream is the client's.
StartSession ==
  /\ session \in {"registering", "accepted"} /\ upPc = "idle"
  /\ session' = "open"
  /\ UNCHANGED <<regVars, updVars, connected, manifest, told, wanted, pushed>>

-----------------------------------------------------------------------------
(* ApplyOnlineConfig. *)

Merged(p, fields, cfg) == ((fields \cup cfg.set) \ cfg.clear) \cap Required[p]

\* An update comes with Registered, once, or is pushed in a session.
ApplyBegin(upd) ==
  /\ session \in {"registering", "open", "ending"} /\ upPc = "idle"
  /\ upPc' = "entries" /\ todo' = upd
  /\ session' = IF session = "registering" THEN "accepted" ELSE session
  /\ UNCHANGED <<regVars, named, snapshot, connected, manifest, told, wanted, pushed>>

KnownOnly(n) == {p \in registered : n \in capabilities /\ n \in CapsOf[p]}

\* The provider of a known capability, or the one an unknown name points to.
Target(n) ==
  {p \in registered : IF n \in capabilities THEN n \in CapsOf[p] ELSE n \in NamedAfter[p]}

\* One turn of the first loop: provider.UpdateConfig.
ApplyEntry ==
  /\ upPc = "entries" /\ todo # <<>>
  /\ LET e == Head(todo) IN
       /\ config' = [p \in Providers |->
                       IF p \in Target(e.name)
                       THEN Merged(p, config[p], e.cfg) ELSE config[p]]
       /\ wanted' = [p \in Providers |->
                       IF e.name \in NamedAfter[p]
                       THEN Merged(p, wanted[p], e.cfg) ELSE wanted[p]]
       /\ named' = named \cup {p \in Providers : e.name \in NamedAfter[p]}
  /\ todo' = Tail(todo)
  /\ UNCHANGED <<registered, capabilities, tasks, upPc, snapshot, sesVars, pushed>>

HasAnyCapability(p) == CapsOf[p] \cap capabilities # {}

KeepUnconfigured == {}
Became   == {p \in registered : ~HasAnyCapability(p) /\ IsConfigured(p)}
NoLonger == {p \in registered : HasAnyCapability(p) /\ ~IsConfigured(p)}

EmitOnAdditions ==
  IF Became # {}
  THEN upPc' = "emit" /\ snapshot' = capabilities' \cap Enabled
  ELSE upPc' = "idle" /\ UNCHANGED snapshot

\* emitChangedLocked up to the unlock, if a provider changed sides.
EmitIfChanged ==
  IF Became \cup NoLonger # {}
  THEN upPc' = "emit" /\ snapshot' = capabilities' \cap Enabled
  ELSE upPc' = "idle" /\ UNCHANGED snapshot

ReevaluateKeepingTasks ==
  /\ upPc = "entries" /\ todo = <<>>
  /\ capabilities' = (capabilities \ CapsOfAll(NoLonger)) \cup CapsOfAll(Became)
  /\ UNCHANGED tasks
  /\ EmitIfChanged
  /\ named' = {}
  /\ pushed' = (pushed \/ (session # "accepted" /\ capabilities' \cap Enabled # ListEnabled))
  /\ UNCHANGED <<registered, config, todo, sesVars, wanted>>

\* The second loop: the capabilities of a provider come and go with its config.
Reevaluate ==
  /\ upPc = "entries" /\ todo = <<>>
  /\ capabilities' = (capabilities \ CapsOfAll(NoLonger)) \cup CapsOfAll(Became)
  /\ tasks' = (tasks \ CapsOfAll(NoLonger)) \cup (CapsOfAll(Became) \cap HasTask)
  /\ EmitIfChanged
  /\ named' = {}
  /\ pushed' = (pushed \/ (session # "accepted" /\ capabilities' \cap Enabled # ListEnabled))
  /\ UNCHANGED <<registered, config, todo, sesVars, wanted>>

NotifyOnly ==
  /\ upPc = "emit"
  /\ manifest' = snapshot /\ upPc' = "idle"
  /\ UNCHANGED <<regVars, todo, named, snapshot, connected, told, session, wanted, pushed>>

\* The callback, which runs unlocked: client.UpdateCapabilities half-closes the stream, if
\* the client has one.
OnCapabilitiesChanged ==
  /\ upPc = "emit"
  /\ manifest' = snapshot /\ upPc' = "idle"
  /\ session' = IF session = "open" THEN "ending" ELSE session
  /\ UNCHANGED <<regVars, todo, named, snapshot, connected, told, wanted, pushed>>

-----------------------------------------------------------------------------
Updater == ApplyEntry \/ Reevaluate \/ OnCapabilitiesChanged
Updates == UNION {[1..n -> Entry] : n \in 0..MaxEntries}

Next ==
  \/ \E p \in Providers : RegisterProvider(p)
  \/ Connect \/ Reregister \/ StartSession
  \/ \E upd \in Updates : ApplyBegin(upd)
  \/ Updater

Spec == Init /\ [][Next]_vars

\* The run goroutine is scheduled.
FairSpec == Spec /\ WF_vars(Updater)

\* The network and the control plane serve the client: a stream that it half-closed ends and
\* another Register is sent, unless Close or a permanent rejection ended it all
\* (ControlPlaneClient, Reconnects), however many updates it handles before.
Served == SF_vars(session = "ending" /\ Reregister)

-----------------------------------------------------------------------------
(* Properties. *)

ConfiguredCaps == CapsOfAll({p \in Providers : IsConfigured(p)})

\* Outside the write lock every capability that can be executed has its task and
\* no task outlives its capability (RegisterProvider, ApplyOnlineConfig).
TasksMatch == upPc # "entries" => tasks = capabilities \cap HasTask

\* Between updates the client's manifest is what ListEnabled would return: no
\* change of the registry goes unnotified (emitChangedLocked, main).
ManifestCurrent == (connected /\ upPc = "idle") => manifest = ListEnabled

\* A provider whose capabilities were withdrawn can still be configured: each
\* update reaches the providers it names, registered capabilities or not
\* (ApplyOnlineConfig, findProviderByCapability).
ConfigFollowsUpdates == config = wanted

\* When ApplyOnlineConfig ends, exactly the configured providers offer their
\* capabilities, and all of them (ApplyOnlineConfig).
RegistryMatchesConfig ==
  [][(upPc = "entries" /\ upPc' # "entries")
       => capabilities' = ConfiguredCaps]_vars

\* What a pushed update changes is in the end what the control plane was told last, if the
\* client is served.  Of a change by the config in Registered nothing is promised
\* (ApplyOnlineConfig, UpdateCapabilities).
ViewConverges == Served => (pushed ~> told = ListEnabled)

\* An update leaves alone the providers it does not name (proto/marvin.proto:235-236).
OmittedUnchanged ==
  [][upPc # "idle" => \A p \in Providers \ named :
       CapsOf[p] \cap capabilities' = CapsOf[p] \cap capabilities]_vars
=============================================================================

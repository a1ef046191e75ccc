--------------------------- MODULE RegistryProofs ---------------------------
(***************************************************************************)
(* Proofs about Registry, for any providers, capabilities, whitelist and   *)
(* updates.                                                                *)
(***************************************************************************)
EXTENDS Registry, SequenceTheorems, TLAPS

-----------------------------------------------------------------------------
(* The inductive invariant. *)

\* A provider offers all of its capabilities or none, and only once registered:
\* hasAnyCapabilityLocked then tells what became of all of them.
AllOrNone ==
  \A p \in Providers :
    \/ CapsOf[p] \cap capabilities = {}
    \/ p \in registered /\ CapsOf[p] \subseteq capabilities

Owned == \A c \in capabilities : \E p \in registered : c \in CapsOf[p]

TasksFollow == tasks = capabilities \cap HasTask

\* Updates and manifests come after main has registered every provider.
Started ==
  /\ connected => registered = Providers
  /\ session # "none" => connected
  /\ upPc # "idle" => connected

\* The callback is still to come, or has brought the client up to date.
Notified ==
  /\ upPc = "emit" => snapshot = ListEnabled
  /\ (connected /\ upPc # "emit") => manifest = ListEnabled

IInv ==
  /\ TypeOK /\ AllOrNone /\ Owned /\ TasksFollow /\ Started /\ Notified
  /\ ConfigFollowsUpdates

-----------------------------------------------------------------------------
(* Facts about providers and their names. *)

\* A capability belongs to one provider only.
LEMMA OneOwner ==
  ASSUME NEW p \in Providers, NEW q \in Providers, NEW c \in CapsOf[p], c \in CapsOf[q]
  PROVE  p = q
BY RegistryAssumption

\* An update finds the providers it names, whatever is registered.
LEMMA TargetNamed ==
  ASSUME registered = Providers, NEW n, NEW p \in Providers, Owned
  PROVE  p \in Target(n) <=> n \in NamedAfter[p]
<1>1. CASE n \in capabilities
  <2>1. PICK q \in Providers : n \in CapsOf[q]
    BY <1>1 DEF Owned
  <2>2. n \in NamedAfter[q]
    BY <2>1, RegistryAssumption
  <2>3. n \in NamedAfter[p] => p = q
    BY <2>2, RegistryAssumption
  <2>4. n \in CapsOf[p] => n \in NamedAfter[p]
    BY RegistryAssumption
  <2>5. QED
    BY <1>1, <2>1, <2>3, <2>4 DEF Target
<1>2. CASE n \notin capabilities
  BY <1>2 DEF Target
<1>3. QED
  BY <1>1, <1>2

\* What the second loop of ApplyOnlineConfig makes of the capabilities.
LEMMA Reevaluated ==
  ASSUME TypeOK, AllOrNone, Owned, Started, Reevaluate
  PROVE  /\ capabilities' = ConfiguredCaps
         /\ Became \cup NoLonger = {} => capabilities' = capabilities
<1>1. registered = Providers
  BY DEF Reevaluate, Started
<1>2. \A p \in Providers : CapsOf[p] # {}
  BY RegistryAssumption
<1>3. \A c : c \in capabilities' <=>
        \/ c \in capabilities /\ \A p \in NoLonger : c \notin CapsOf[p]
        \/ \E p \in Became : c \in CapsOf[p]
  BY DEF Reevaluate, CapsOfAll
<1>4. \A c : c \in ConfiguredCaps <=> \E p \in Providers : IsConfigured(p) /\ c \in CapsOf[p]
  BY DEF ConfiguredCaps, CapsOfAll
<1>5. ASSUME NEW c \in capabilities' PROVE c \in ConfiguredCaps
  <2>1. CASE \E p \in Became : c \in CapsOf[p]
    BY <1>4, <2>1 DEF Became, TypeOK
  <2>2. CASE c \in capabilities /\ \A p \in NoLonger : c \notin CapsOf[p]
    <3>1. PICK p \in Providers : c \in CapsOf[p]
      BY <1>1, <2>2 DEF Owned
    <3>2. HasAnyCapability(p) /\ p \notin NoLonger
      BY <2>2, <3>1 DEF HasAnyCapability
    <3>3. QED
      BY <1>1, <1>4, <3>1, <3>2 DEF NoLonger
  <2>3. QED
    BY <1>3, <1>5, <2>1, <2>2
<1>6. ASSUME NEW c \in ConfiguredCaps PROVE c \in capabilities'
  <2>1. PICK p \in Providers : IsConfigured(p) /\ c \in CapsOf[p]
    BY <1>4
  <2>2. CASE HasAnyCapability(p)
    <3>1. c \in capabilities
      BY <2>1, <2>2 DEF HasAnyCapability, AllOrNone
    <3>2. \A q \in NoLonger : c \notin CapsOf[q]
      BY <2>1, <1>1, OneOwner DEF NoLonger
    <3>3. QED
      BY <1>3, <3>1, <3>2
  <2>3. CASE ~HasAnyCapability(p)
    BY <1>1, <1>3, <2>1, <2>3 DEF Became
  <2>4. QED
    BY <2>2, <2>3
<1>7. Became \cup NoLonger = {} => capabilities' = capabilities
  BY <1>3
<1>8. QED
  BY <1>5, <1>6, <1>7

-----------------------------------------------------------------------------
(* Types. *)

\* Every step keeps the types.
LEMMA TypeStep ==
  ASSUME TypeOK, [Next]_vars
  PROVE  TypeOK'
<1> USE DEF regVars, updVars, sesVars
<1>1. \A ps \in SUBSET Providers : CapsOfAll(ps) \subseteq Caps
  BY RegistryAssumption DEF CapsOfAll
<1>2. ASSUME NEW p \in Providers, RegisterProvider(p) PROVE TypeOK'
  BY <1>2, RegistryAssumption DEF RegisterProvider, TypeOK
<1>3. CASE Connect
  BY <1>3 DEF Connect, ListEnabled, TypeOK
<1>4. CASE Reregister \/ StartSession
  BY <1>4 DEF Reregister, StartSession, TypeOK
<1>5. ASSUME NEW upd \in Updates, ApplyBegin(upd) PROVE TypeOK'
  <2>1. upd \in Seq(Entry)
    BY RegistryAssumption, SeqDef DEF Updates
  <2>2. QED
    BY <1>5, <2>1 DEF ApplyBegin, TypeOK
<1>6. CASE ApplyEntry
  <2>1. todo' \in Seq(Entry)
    BY <1>6, HeadTailProperties DEF ApplyEntry, TypeOK
  <2>2. config' \in [Providers -> SUBSET Fields]
    BY <1>6, RegistryAssumption DEF ApplyEntry, TypeOK, Merged
  <2>3. wanted' \in [Providers -> SUBSET Fields]
    BY <1>6, RegistryAssumption DEF ApplyEntry, TypeOK, Merged
  <2>4. named' \subseteq Providers
    BY <1>6 DEF ApplyEntry, TypeOK
  <2>5. QED
    BY <1>6, <2>1, <2>2, <2>3, <2>4 DEF ApplyEntry, TypeOK
<1>7. CASE Reevaluate
  <2>1. Became \subseteq Providers /\ NoLonger \subseteq Providers
    BY DEF Became, NoLonger, TypeOK
  <2>2. capabilities' \subseteq Caps /\ tasks' \subseteq Caps
    BY <1>1, <1>7, <2>1 DEF Reevaluate, TypeOK
  <2>3. upPc' \in {"idle", "emit"} /\ snapshot' \subseteq Caps
    BY <1>7, <2>2 DEF Reevaluate, EmitIfChanged, TypeOK
  <2>4. QED
    BY <1>7, <2>2, <2>3 DEF Reevaluate, TypeOK
<1>8. CASE OnCapabilitiesChanged
  BY <1>8 DEF OnCapabilitiesChanged, TypeOK
<1>9. CASE UNCHANGED vars
  BY <1>9 DEF vars, TypeOK
<1>10. QED
  BY <1>2, <1>3, <1>4, <1>5, <1>6, <1>7, <1>8, <1>9 DEF Next, Updater

-----------------------------------------------------------------------------
(* Each action keeps the other parts of IInv. *)

\* RegisterProvider stores all capabilities of a provider, with their tasks (registry.go:56).
LEMMA RegisterProviderStep ==
  ASSUME IInv, NEW p \in Providers, RegisterProvider(p)
  PROVE  AllOrNone' /\ Owned' /\ TasksFollow' /\ Started' /\ Notified' /\ ConfigFollowsUpdates'
<1> USE DEF IInv, regVars, updVars, sesVars
<1>1. /\ capabilities' = capabilities \cup CapsOf[p] /\ registered' = registered \cup {p}
      /\ ~connected /\ upPc = "idle"
  BY DEF RegisterProvider, Started
<1>2. ASSUME NEW q \in Providers
      PROVE  \/ CapsOf[q] \cap capabilities' = {}
             \/ q \in registered' /\ CapsOf[q] \subseteq capabilities'
  <2>1. CASE q = p
    BY <1>1, <2>1
  <2>2. CASE q # p
    <3>1. CapsOf[q] \cap CapsOf[p] = {}
      BY <2>2, RegistryAssumption
    <3>2. \/ CapsOf[q] \cap capabilities = {}
          \/ q \in registered /\ CapsOf[q] \subseteq capabilities
      BY DEF AllOrNone
    <3>3. QED
      BY <1>1, <3>1, <3>2
  <2>3. QED
    BY <2>1, <2>2
<1>3. Owned'
  BY <1>1 DEF Owned
<1>4. TasksFollow'
  BY DEF RegisterProvider, TasksFollow
<1>5. Started' /\ Notified' /\ ConfigFollowsUpdates'
  BY <1>1 DEF RegisterProvider, Started, Notified, ConfigFollowsUpdates
<1>6. QED
  BY <1>2, <1>3, <1>4, <1>5 DEF AllOrNone

\* The second loop of ApplyOnlineConfig, which withdraws and restores (registry.go:241).
LEMMA ReevaluateStep ==
  ASSUME IInv, Reevaluate
  PROVE  AllOrNone' /\ Owned' /\ TasksFollow' /\ Started' /\ Notified' /\ ConfigFollowsUpdates'
<1> USE DEF IInv, sesVars
<1>1. /\ upPc = "entries" /\ connected /\ registered = Providers
      /\ connected' /\ registered' = registered /\ session' = session /\ manifest' = manifest
      /\ config' = config /\ wanted' = wanted
  BY DEF Reevaluate, Started
<1>2. /\ capabilities' = ConfiguredCaps
      /\ Became \cup NoLonger = {} => capabilities' = capabilities
  BY Reevaluated
<1>3. \A c : c \in ConfiguredCaps <=> \E p \in Providers : IsConfigured(p) /\ c \in CapsOf[p]
  BY DEF ConfiguredCaps, CapsOfAll
<1>4. ASSUME NEW p \in Providers
      PROVE  \/ CapsOf[p] \cap capabilities' = {}
             \/ p \in registered' /\ CapsOf[p] \subseteq capabilities'
  <2>1. CASE IsConfigured(p)
    BY <1>1, <1>2, <1>3, <2>1
  <2>2. CASE ~IsConfigured(p)
    BY <1>2, <1>3, <2>2, OneOwner
  <2>3. QED
    BY <2>1, <2>2
<1>5. Owned'
  BY <1>1, <1>2, <1>3 DEF Owned
<1>6. TasksFollow'
  BY DEF Reevaluate, TasksFollow
<1>7. Started' /\ ConfigFollowsUpdates'
  BY <1>1 DEF Started, ConfigFollowsUpdates
<1>8. Notified'
  <2>1. CASE Became \cup NoLonger = {}
    <3>1. upPc' = "idle" /\ manifest = ListEnabled
      BY <1>1, <2>1 DEF Reevaluate, EmitIfChanged, Notified
    <3>2. QED
      BY <1>1, <1>2, <2>1, <3>1 DEF Notified, ListEnabled
  <2>2. CASE Became \cup NoLonger # {}
    BY <2>2 DEF Reevaluate, EmitIfChanged, Notified, ListEnabled
  <2>3. QED
    BY <2>1, <2>2
<1>9. QED
  BY <1>4, <1>5, <1>6, <1>7, <1>8 DEF AllOrNone

\* The first loop, which hands one manifest to its provider (registry.go:203).
LEMMA ApplyEntryStep ==
  ASSUME IInv, ApplyEntry
  PROVE  AllOrNone' /\ Owned' /\ TasksFollow' /\ Started' /\ Notified' /\ ConfigFollowsUpdates'
<1> USE DEF IInv, sesVars
<1>1. registered = Providers
  BY DEF ApplyEntry, Started
<1>2. config' = wanted'
  <2> DEFINE n == Head(todo).name
  <2>1. \A p \in Providers : p \in Target(n) <=> n \in NamedAfter[p]
    BY <1>1, TargetNamed
  <2>2. config = wanted
    BY DEF ConfigFollowsUpdates
  <2>3. QED
    BY <2>1, <2>2 DEF ApplyEntry
<1>3. QED
  BY <1>2 DEF ApplyEntry, AllOrNone, Owned, TasksFollow, Started, Notified, ListEnabled,
              ConfigFollowsUpdates

\* The steps that change neither capabilities nor tasks.
LEMMA OtherSteps ==
  ASSUME IInv,
         \/ Connect \/ Reregister \/ StartSession \/ OnCapabilitiesChanged
         \/ \E upd \in Updates : ApplyBegin(upd)
         \/ UNCHANGED vars
  PROVE  AllOrNone' /\ Owned' /\ TasksFollow' /\ Started' /\ Notified' /\ ConfigFollowsUpdates'
<1> USE DEF IInv, regVars, updVars, sesVars
<1>1. UNCHANGED <<regVars, wanted>>
  BY DEF Connect, Reregister, StartSession, OnCapabilitiesChanged, ApplyBegin, vars
<1>2. AllOrNone' /\ Owned' /\ TasksFollow' /\ ConfigFollowsUpdates' /\ ListEnabled' = ListEnabled
  BY <1>1 DEF AllOrNone, Owned, TasksFollow, ConfigFollowsUpdates, ListEnabled
<1>3. Started' /\ Notified'
  <2>1. CASE Connect
    BY <1>2, <2>1 DEF Connect, Started, Notified
  <2>2. CASE Reregister \/ StartSession
    BY <1>2, <2>2 DEF Reregister, StartSession, Started, Notified
  <2>3. CASE OnCapabilitiesChanged
    BY <1>2, <2>3 DEF OnCapabilitiesChanged, Started, Notified
  <2>4. ASSUME NEW upd \in Updates, ApplyBegin(upd) PROVE Started' /\ Notified'
    BY <1>2, <2>4 DEF ApplyBegin, Started, Notified
  <2>5. CASE UNCHANGED vars
    BY <1>2, <2>5 DEF vars, Started, Notified
  <2>6. QED
    BY <2>1, <2>2, <2>3, <2>4, <2>5
<1>4. QED
  BY <1>2, <1>3

\* The inductive invariant holds throughout.
LEMMA Invariance == Spec => []IInv
<1>1. Init => IInv
  <2>1. ASSUME Init PROVE TypeOK
    <3>1. todo \in Seq(Entry)
      BY <2>1, EmptySeq DEF Init
    <3>2. QED
      BY <2>1, <3>1 DEF Init, TypeOK
  <2>2. QED
    BY <2>1 DEF Init, IInv, AllOrNone, Owned, TasksFollow, Started, Notified,
                ConfigFollowsUpdates
<1>2. IInv /\ [Next]_vars => IInv'
  <2> SUFFICES ASSUME IInv, [Next]_vars PROVE IInv'
    OBVIOUS
  <2>1. TypeOK'
    BY TypeStep DEF IInv
  <2>2. AllOrNone' /\ Owned' /\ TasksFollow' /\ Started' /\ Notified' /\ ConfigFollowsUpdates'
    BY RegisterProviderStep, ReevaluateStep, ApplyEntryStep, OtherSteps DEF Next, Updater
  <2>3. QED
    BY <2>1, <2>2 DEF IInv
<1>3. QED
  BY <1>1, <1>2, PTL DEF Spec

-----------------------------------------------------------------------------
(* Theorems. *)

\* The variables keep their types, through updates of any length (every action).
THEOREM RegistryTypeCorrect == Spec => []TypeOK
<1>1. IInv => TypeOK
  BY DEF IInv
<1>2. QED
  BY <1>1, Invariance, PTL

\* Whenever the lock is free, tasks and capabilities agree: RegisterProvider and
\* ApplyOnlineConfig never leave one without the other.
THEOREM TasksMatchCorrect == Spec => []TasksMatch
<1>1. IInv => TasksMatch
  BY DEF IInv, TasksFollow, TasksMatch
<1>2. QED
  BY <1>1, Invariance, PTL

\* No change that ApplyOnlineConfig makes to the enabled capabilities is lost on
\* its way to the client.
THEOREM ManifestCurrentCorrect == Spec => []ManifestCurrent
<1>1. IInv => ManifestCurrent
  BY DEF IInv, Notified, ManifestCurrent
<1>2. QED
  BY <1>1, Invariance, PTL

\* findProviderByCapability reaches every provider an update names, also while
\* its capabilities are withdrawn.
THEOREM ConfigFollowsCorrect == Spec => []ConfigFollowsUpdates
<1>1. IInv => ConfigFollowsUpdates
  BY DEF IInv
<1>2. QED
  BY <1>1, Invariance, PTL

\* Each ApplyOnlineConfig ends with the capabilities of the configured providers.
THEOREM RegistryMatchesCorrect == Spec => RegistryMatchesConfig
<1>1. IInv /\ [Next]_vars
        => [(upPc = "entries" /\ upPc' # "entries") => capabilities' = ConfiguredCaps]_vars
  <2> SUFFICES ASSUME IInv, Next, upPc = "entries", upPc' # "entries"
               PROVE  capabilities' = ConfiguredCaps
    BY DEF vars
  <2>1. Reevaluate
    BY DEF Next, Updater, RegisterProvider, Connect, Reregister, StartSession, ApplyBegin,
           ApplyEntry, OnCapabilitiesChanged, IInv, Started, regVars, updVars
  <2>2. QED
    BY <2>1, Reevaluated DEF IInv
<1>2. QED
  BY <1>1, Invariance, PTL DEF Spec, RegistryMatchesConfig
=============================================================================

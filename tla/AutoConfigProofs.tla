-------------------------- MODULE AutoConfigProofs --------------------------
(***************************************************************************)
(* Proofs about AutoConfig, for any values of the fields, any callers, any *)
(* grace period and any number of clients: the types, what the client in   *)
(* use was built for, where every client ever built is, and that Apply     *)
(* implements the cell of ConfigCell.                                      *)
(***************************************************************************)
EXTENDS AutoConfig, FiniteSetTheorems, SequenceTheorems, TLAPS

-----------------------------------------------------------------------------
(* The inductive invariant. *)

Built == 1..Len(built)

\* Apply is called by one goroutine at a time, or a client is rebuilt on every change.
CallersApart ==
  /\ options.concurrent => ~options.selective
  /\ ~options.concurrent => \A c, d \in Callers : Busy(c) /\ Busy(d) => c = d

\* What Apply has computed before it takes the lock: a client for the new configuration,
\* if it needs one.  Where no other caller can have come between, it still does.
CallsValid ==
  \A c \in Callers : Busy(c) =>
    /\ call[c].recreate <=> call[c].client # Nil
    /\ call[c].client # Nil => call[c].client \in Built /\ built[call[c].client] = call[c].new
    /\ ~options.selective => call[c].recreate
    /\ ~options.concurrent =>
         /\ call[c].new # config
         /\ call[c].recreate <=> Recreate(config, call[c].new)

\* A client on its way in is its caller's alone, and one in the queue is there once.
Unshared ==
  /\ \A c, d \in Callers :
       Busy(c) /\ Busy(d) /\ call[c].client = call[d].client /\ call[c].client # Nil => c = d
  /\ \A i, j \in DOMAIN pendingClose : pendingClose[i] = pendingClose[j] => i = j

Coming == {k \in Built : \E c \in Callers : Busy(c) /\ call[c].client = k}

\* Only clients that were built are anywhere.
Known ==
  /\ client \in Built /\ InPending \subseteq Built /\ toClose \subseteq Built
  /\ \A k \in Clients : closed[k] \in {0, 1} /\ (closed[k] = 1 => k \in Built)

\* No client is in two places.
Apart ==
  /\ client \notin Coming \cup InPending \cup toClose /\ closed[client] = 0
  /\ Coming \cap (InPending \cup toClose) = {} /\ InPending \cap toClose = {}
  /\ \A k \in Coming \cup InPending \cup toClose : closed[k] = 0

\* ... and none that needs closing is nowhere; nothing is queued that does not.
NoneLost ==
  IF options.hasClose
  THEN \A k \in Built \ {client} : k \in Coming \cup InPending \cup toClose \/ closed[k] = 1
  ELSE InPending \cup toClose = {}

IInv == /\ TypeOK /\ CallersApart /\ CallsValid /\ ClientMatchesConfig
        /\ Unshared /\ Known /\ Apart /\ NoneLost

-----------------------------------------------------------------------------
(* Facts about calls, configurations and sequences of clients. *)

\* What a call under way carries: a configuration, and a client or none.
LEMMA CallFields ==
  ASSUME TypeOK, NEW c \in Callers, Busy(c)
  PROVE  /\ call[c] \in Call
         /\ call[c].new \in Configs /\ call[c].client \in 0..MaxClients
BY DEF TypeOK, Busy, Call

\* A caller that makes no call is told apart from one that does.
LEMMA NoCallDiffers == NoCall \notin Call
BY DEF NoCall, Call

\* Merging an update into a configuration gives a configuration (updater.go:61).
LEMMA ParseType ==
  ASSUME NEW cfg \in Configs, NEW raw \in Raws
  PROVE  Parse(cfg, raw) \in Configs
BY DEF Configs, Raws, Parse

\* What Append does to a sequence, as used for built and pending.
LEMMA Appended ==
  ASSUME NEW S, NEW s \in Seq(S), NEW m \in S
  PROVE  /\ Append(s, m) \in Seq(S)
         /\ DOMAIN s = 1..Len(s) /\ Len(s) \in Nat
         /\ DOMAIN Append(s, m) = 1..(Len(s) + 1)
         /\ Len(Append(s, m)) = Len(s) + 1
         /\ \A i \in 1..Len(s) : Append(s, m)[i] = s[i]
         /\ Append(s, m)[Len(s) + 1] = m
BY AppendProperties, LenProperties

\* What is in the queue after one more client joined it.
LEMMA PendingAppended ==
  ASSUME TypeOK, NEW k \in 0..MaxClients, pendingClose' = Append(pendingClose, k)
  PROVE  InPending' = InPending \cup {k}
<1>1. /\ DOMAIN pendingClose' = DOMAIN pendingClose \cup {Len(pendingClose) + 1}
      /\ pendingClose'[Len(pendingClose) + 1] = k
      /\ \A i \in DOMAIN pendingClose : pendingClose'[i] = pendingClose[i]
  BY Appended DEF TypeOK
<1>2. QED
  BY <1>1 DEF InPending

\* What each provider hands to autoconfig.Options.
LEMMA OptionTypesKnown ==
  \A p \in DOMAIN OptionSets :
    OptionSets[p].selective \in BOOLEAN /\ OptionSets[p].hasClose \in BOOLEAN
<1> DEFINE Applies == [selective : BOOLEAN, hasClose : BOOLEAN]
<1>1. \A a \in Applies : \A b : /\ Options(a, b).selective \in BOOLEAN
                                /\ Options(a, b).hasClose \in BOOLEAN
  <2>1. \A a \in Applies : \A b : /\ Options(a, b).selective = a.selective
                                  /\ Options(a, b).hasClose = a.hasClose
    BY DEF Options
  <2>2. \A a \in Applies : a.selective \in BOOLEAN /\ a.hasClose \in BOOLEAN
    OBVIOUS
  <2>3. QED
    BY <2>1, <2>2
<1>2. /\ kafkaApply \in Applies /\ postgresApply \in Applies /\ kubernetesApply \in Applies
      /\ prometheusApply \in Applies /\ azureApply \in Applies /\ graylogApply \in Applies
  BY DEF kafkaApply, postgresApply, kubernetesApply, prometheusApply, azureApply, graylogApply
<1>3. \A p \in DOMAIN OptionSets : \E a \in Applies : \E b : OptionSets[p] = Options(a, b)
  BY <1>2 DEF OptionSets
<1>4. QED
  BY <1>1, <1>3

\* NewState establishes the inductive invariant.
LEMMA IInit == Init => IInv
<1> SUFFICES ASSUME Init PROVE IInv
  OBVIOUS
<1> USE AutoConfigAssumption
<1>1. config \in Configs /\ client = 1 /\ built = <<config>> /\ Len(built) = 1
      /\ built[1] = config /\ Built = {1} /\ 1 \in Clients
  BY DEF Init, Built, Clients
<1>2. InPending = {} /\ toClose = {} /\ Coming = {} /\ pendingClose = <<>>
      /\ \A c \in Callers : ~Busy(c)
  BY EmptySeq DEF Init, InPending, Coming, Busy
<1>3. options \in OptionTypes /\ (options.concurrent => ~options.selective)
  <2>1. \A p \in DOMAIN OptionSets :
          OptionSets[p].selective \in BOOLEAN /\ OptionSets[p].hasClose \in BOOLEAN
    BY OptionTypesKnown
  <2>2. PICK p \in DOMAIN OptionSets, b \in BOOLEAN :
          /\ b => ~OptionSets[p].selective
          /\ options = [selective |-> OptionSets[p].selective,
                        hasClose |-> OptionSets[p].hasClose, concurrent |-> b]
    BY DEF Init
  <2>3. QED
    BY <2>1, <2>2 DEF OptionTypes
<1>4. TypeOK
  <2>1. built \in Seq(Configs) /\ pendingClose \in Seq(0..MaxClients)
    BY <1>1, <1>2, EmptySeq
  <2>2. call \in [Callers -> Call \cup {NoCall}] /\ age \in [Clients -> 0..Grace]
        /\ closed \in [Clients -> 0..2]
    BY DEF Init
  <2>3. draining \in BOOLEAN
    BY DEF Init
  <2>4. sleep \in 0..Grace /\ toClose \subseteq 0..MaxClients /\ client \in 0..MaxClients
        /\ Len(built) <= MaxClients
    BY <1>1 DEF Init
  <2>5. QED
    BY <1>1, <1>3, <2>1, <2>2, <2>3, <2>4 DEF TypeOK
<1>5. CallersApart /\ CallsValid /\ Unshared
  BY <1>2, <1>3 DEF CallersApart, CallsValid, Unshared
<1>6. ClientMatchesConfig
  BY <1>1 DEF ClientMatchesConfig, Nil
<1>7. Known /\ Apart /\ NoneLost
  BY <1>1, <1>2 DEF Init, Known, Apart, NoneLost
<1>8. QED
  BY <1>4, <1>5, <1>6, <1>7 DEF IInv

-----------------------------------------------------------------------------
(* What a step does to the calls. *)

\* Setting one caller's call leaves the other callers as they are.
LEMMA CallSet ==
  ASSUME TypeOK, NEW c \in Callers, NEW r \in Call \cup {NoCall}, call' = [call EXCEPT ![c] = r]
  PROVE  /\ call' \in [Callers -> Call \cup {NoCall}]
         /\ call'[c] = r /\ (Busy(c)' <=> r # NoCall)
         /\ \A d \in Callers \ {c} : call'[d] = call[d] /\ (Busy(d)' <=> Busy(d))
BY DEF TypeOK, Busy

\* A call that ends leaves the others and their clients as they are.
LEMMA CallEnds ==
  ASSUME IInv, NEW c \in Callers, Busy(c), call' = [call EXCEPT ![c] = NoCall],
         UNCHANGED <<options, built>>
  PROVE  /\ call' \in [Callers -> Call \cup {NoCall}]
         /\ \A d \in Callers : Busy(d)' <=> Busy(d) /\ d # c
         /\ \A d \in Callers : Busy(d)' => call'[d] = call[d]
         /\ Built' = Built /\ Coming' = Coming \ {call[c].client}
         /\ CallersApart'
<1> USE DEF IInv
<1>1. /\ call' \in [Callers -> Call \cup {NoCall}]
      /\ \A d \in Callers : Busy(d)' <=> Busy(d) /\ d # c
      /\ \A d \in Callers : Busy(d)' => call'[d] = call[d]
  BY CallSet
<1>2. Built' = Built
  BY DEF Built
<1>3. \A d \in Callers : Busy(d) /\ call[d].client = call[c].client /\ call[c].client \in Built
                          => d = c
  BY DEF Unshared, Built, Nil
<1>4. Coming' = Coming \ {call[c].client}
  BY <1>1, <1>2, <1>3 DEF Coming
<1>5. CallersApart'
  BY <1>1 DEF CallersApart
<1>6. QED
  BY <1>1, <1>2, <1>4, <1>5

\* A client built and not yet installed is nobody else's: it is not current, not queued,
\* not closed.
LEMMA ComingCaller ==
  ASSUME IInv, NEW c \in Callers, Busy(c), call[c].client # Nil
  PROVE  /\ call[c].client \in Coming /\ call[c].client \in Clients
         /\ call[c].client # client /\ closed[call[c].client] = 0
         /\ call[c].client \notin InPending \cup toClose
<1>1. call[c].client \in Coming
  BY DEF IInv, CallsValid, Coming
<1>2. Built \subseteq Clients
  BY AutoConfigAssumption DEF IInv, TypeOK, Built, Clients
<1>3. QED
  BY <1>1, <1>2 DEF IInv, Apart, Coming

-----------------------------------------------------------------------------
(* Each action keeps IInv. *)

\* Building outside the lock (updater.go:60-92).
LEMMA PrepareStep ==
  ASSUME IInv, NEW c \in Callers, NEW raw \in Raws, Prepare(c, raw)
  PROVE  IInv'
<1> USE AutoConfigAssumption DEF IInv, stateVars
<1> DEFINE new == Parse(config, raw)
           n   == Len(built) + 1
           rec == Recreate(config, new)
           r   == call'[c]
<1>1. /\ UNCHANGED <<options, config, client, pendingClose, draining, sleep, toClose, age, closed>>
      /\ new \in Configs /\ new # config /\ ~Busy(c)
      /\ options.concurrent \/ \A d \in Callers : ~Busy(d)
  BY ParseType DEF Prepare, MayCall, TypeOK
<1>2. /\ InPending' = InPending
      /\ rec \in BOOLEAN /\ (~options.selective => rec)
  BY <1>1 DEF InPending, Recreate
<1>3. /\ call' \in [Callers -> Call \cup {NoCall}]
      /\ r.new = new /\ (r.recreate <=> rec) /\ r.client = (IF rec THEN n ELSE Nil)
      /\ Busy(c)'
      /\ \A d \in Callers \ {c} : call'[d] = call[d] /\ (Busy(d)' <=> Busy(d))
  <2>1. CASE rec
    <3> DEFINE made == [new |-> new, recreate |-> TRUE, client |-> n]
    <3>1. call' = [call EXCEPT ![c] = made] /\ Len(built) < MaxClients
      BY <2>1 DEF Prepare
    <3>2. Len(built) \in Nat
      BY LenProperties DEF TypeOK
    <3>3. made \in Call
      BY <1>1, <3>1, <3>2 DEF Call
    <3>4. made # NoCall
      BY <3>3, NoCallDiffers
    <3>5. QED
      BY <2>1, <3>1, <3>3, <3>4, CallSet
  <2>2. CASE ~rec
    <3> DEFINE made == [new |-> new, recreate |-> FALSE, client |-> Nil]
    <3>1. call' = [call EXCEPT ![c] = made]
      BY <2>2 DEF Prepare
    <3>2. made \in Call
      BY <1>1 DEF Call, Nil
    <3>3. made # NoCall
      BY <3>2, NoCallDiffers
    <3>4. QED
      BY <2>2, <3>1, <3>2, <3>3, CallSet
  <2>3. QED
    BY <2>1, <2>2
<1>4. /\ built' \in Seq(Configs) /\ Len(built') <= MaxClients
      /\ \A k \in Built : built'[k] = built[k]
      /\ Built' = (IF rec THEN Built \cup {n} ELSE Built)
      /\ rec => built'[n] = new /\ n \in Clients
      /\ n \notin Built
  <2>1. Len(built) \in Nat
    BY LenProperties DEF TypeOK
  <2>2. CASE rec
    <3>1. built' = Append(built, new) /\ Len(built) < MaxClients
      BY <2>2 DEF Prepare
    <3>2. /\ built' \in Seq(Configs) /\ Len(built') = n /\ built'[n] = new
          /\ \A k \in Built : built'[k] = built[k]
      BY <1>1, <3>1, Appended DEF TypeOK, Built
    <3>3. QED
      BY <2>1, <2>2, <3>1, <3>2 DEF Built, Clients
  <2>3. CASE ~rec
    BY <2>1, <2>3 DEF Prepare, TypeOK, Built
  <2>4. QED
    BY <1>2, <2>2, <2>3
<1> HIDE DEF new, n, rec, r
<1>5. TypeOK'
  BY <1>1, <1>3, <1>4 DEF TypeOK
<1>6. CallersApart'
  BY <1>1, <1>3 DEF CallersApart
<1>7. CallsValid'
  <2>1. ASSUME NEW d \in Callers \ {c}, Busy(d)'
        PROVE  /\ call'[d].recreate <=> call'[d].client # Nil
               /\ call'[d].client # Nil =>
                    call'[d].client \in Built' /\ built'[call'[d].client] = call'[d].new
               /\ ~options'.selective => call'[d].recreate
               /\ options'.concurrent
    BY <1>1, <1>3, <1>4, <2>1 DEF CallsValid
  <2>2. /\ r.recreate <=> r.client # Nil
        /\ r.client # Nil => r.client \in Built' /\ built'[r.client] = r.new
        /\ ~options'.selective => r.recreate
        /\ r.new # config /\ (r.recreate <=> Recreate(config, r.new))
    <3>1. n # Nil
      BY LenProperties DEF n, Nil, TypeOK
    <3>2. Recreate(config, r.new) <=> rec
      BY <1>3 DEF rec
    <3>3. QED
      BY <1>1, <1>2, <1>3, <1>4, <3>1, <3>2
  <2>3. QED
    BY <1>1, <2>1, <2>2 DEF CallsValid, Recreate, r
<1>8. ClientMatchesConfig'
  BY <1>1, <1>4 DEF ClientMatchesConfig, Known
<1>9. Unshared'
  BY <1>1, <1>3, <1>4 DEF Unshared, CallsValid, r
<1>10. /\ Coming' = (IF rec THEN Coming \cup {n} ELSE Coming)
       /\ rec => closed[n] = 0 /\ n \notin InPending \cup toClose \cup Coming \cup {client}
  <2>1. \A d \in Callers : Busy(d) => call[d].client = Nil \/ call[d].client \in Built
    BY DEF CallsValid
  <2>2. Nil \notin Built \cup {n}
    BY LenProperties DEF Nil, Built, n, TypeOK
  <2>3. Coming' = (IF rec THEN Coming \cup {n} ELSE Coming)
    BY <1>1, <1>3, <1>4, <2>1, <2>2 DEF Coming, r
  <2>4. rec => closed[n] = 0 /\ n \notin InPending \cup toClose \cup Coming \cup {client}
    BY <1>4 DEF Known, Coming
  <2>5. QED
    BY <2>3, <2>4
<1>11. Known'
  BY <1>1, <1>2, <1>4 DEF Known
<1>12. Apart'
  BY <1>1, <1>2, <1>10 DEF Apart
<1>13. NoneLost'
  BY <1>1, <1>2, <1>4, <1>10 DEF NoneLost
<1>14. QED
  BY <1>5, <1>6, <1>7, <1>8, <1>9, <1>11, <1>12, <1>13

\* An Apply that finds nothing to change under the lock (updater.go:96-101).
LEMMA DiscardStep ==
  ASSUME IInv, NEW c \in Callers, Discard(c)
  PROVE  IInv'
<1> USE AutoConfigAssumption DEF IInv, stateVars
<1> DEFINE m == call[c].client
           closing == call[c].recreate /\ options.hasClose
<1>1. /\ UNCHANGED <<options, config, client, pendingClose, draining, sleep, toClose, built, age>>
      /\ call' = [call EXCEPT ![c] = NoCall] /\ Busy(c)
  BY DEF Discard
<1>2. /\ call' \in [Callers -> Call \cup {NoCall}]
      /\ \A d \in Callers : Busy(d)' <=> Busy(d) /\ d # c
      /\ \A d \in Callers : Busy(d)' => call'[d] = call[d]
      /\ Built' = Built /\ Coming' = Coming \ {m} /\ CallersApart'
  BY <1>1, CallEnds
<1>3. InPending' = InPending
  BY <1>1 DEF InPending
<1>4. closing => m \in Coming /\ m \in Clients /\ m # client /\ closed[m] = 0
                 /\ m \notin InPending \cup toClose
  BY <1>1, ComingCaller DEF CallsValid
<1>5. ~closing => m \notin Coming \/ ~options.hasClose
  <2>1. ~call[c].recreate => m = Nil
    BY <1>1 DEF CallsValid
  <2>2. Nil \notin Coming
    BY DEF Nil, Coming, Built
  <2>3. QED
    BY <2>1, <2>2
<1>6. \A k \in Clients : closed'[k] = IF closing /\ k = m THEN 1 ELSE closed[k]
  BY <1>4 DEF Discard, Close, TypeOK
<1>7. closed' \in [Clients -> 0..2]
  <2>1. closed' = [k \in Clients |-> closed'[k]]
    BY DEF Discard, Close, TypeOK
  <2>2. \A k \in Clients : closed'[k] \in 0..2
    BY <1>6 DEF TypeOK
  <2>3. QED
    BY <2>1, <2>2
<1> HIDE DEF m, closing
<1>8. TypeOK'
  BY <1>1, <1>2, <1>7 DEF TypeOK
<1>9. CallsValid'
  BY <1>1, <1>2 DEF CallsValid, Recreate
<1>10. ClientMatchesConfig'
  BY <1>1 DEF ClientMatchesConfig
<1>11. Unshared'
  BY <1>1, <1>2 DEF Unshared
<1>12. Known'
  BY <1>1, <1>2, <1>3, <1>4, <1>6 DEF Known, Coming
<1>13. Apart'
  <2>1. Coming' \subseteq Coming /\ (closing => m \notin Coming')
    BY <1>2
  <2>2. Coming \cup InPending \cup toClose \subseteq Clients /\ client \in Clients
    <3>1. Built \subseteq Clients
      BY DEF Built, Clients, TypeOK
    <3>2. QED
      BY <3>1 DEF Known, Coming
  <2>3. closed'[client'] = 0 /\ \A k \in Coming' \cup InPending' \cup toClose' : closed'[k] = 0
    BY <1>1, <1>3, <1>4, <1>6, <2>1, <2>2 DEF Apart
  <2>4. QED
    BY <1>1, <1>3, <2>1, <2>3 DEF Apart
<1>14. NoneLost'
  <2>1. CASE options.hasClose
    <3>1. Built \subseteq Clients
      BY DEF Built, Clients, TypeOK
    <3>2. \A k \in Built \ {client} :
            k \in Coming' \cup InPending' \cup toClose' \/ closed'[k] = 1
      BY <1>1, <1>2, <1>3, <1>5, <1>6, <2>1, <3>1 DEF NoneLost
    <3>3. QED
      BY <1>1, <1>2, <2>1, <3>2 DEF NoneLost
  <2>2. CASE ~options.hasClose
    BY <1>1, <1>3, <2>2 DEF NoneLost
  <2>3. QED
    BY <2>1, <2>2
<1>15. QED
  BY <1>2, <1>8, <1>9, <1>10, <1>11, <1>12, <1>13, <1>14

\* What Apply does under the lock, with or without a new client.
LEMMA Installed ==
  ASSUME IInv, NEW c \in Callers, Install(c)
  PROVE  LET recreated == Recreate(config, call[c].new) IN
         /\ UNCHANGED <<options, toClose, built, age, closed>>
         /\ call[c].new \in Configs /\ config' = call[c].new /\ config' # config
         /\ recreated \in BOOLEAN
         /\ recreated =>
              /\ client' = call[c].client /\ client' \in Coming /\ client' \in Clients
              /\ built[client'] = config'
              /\ client' # client /\ closed[client'] = 0
              /\ client' \notin InPending \cup toClose
              /\ pendingClose' = IF options.hasClose THEN Append(pendingClose, client)
                                                     ELSE pendingClose
              /\ InPending' = IF options.hasClose THEN InPending \cup {client} ELSE InPending
         /\ ~recreated =>
              /\ options.selective /\ config'.key = config.key
              /\ UNCHANGED <<client, pendingClose>> /\ InPending' = InPending
              /\ call[c].client = Nil
<1> USE DEF IInv
<1>1. /\ UNCHANGED <<options, toClose, built, age, closed>>
      /\ config' = call[c].new /\ config' # config /\ Busy(c)
      /\ call[c].new \in Configs
  BY CallFields DEF Install
<1>2. Recreate(config, call[c].new) \in BOOLEAN
  BY DEF Recreate
<1>3. CASE Recreate(config, call[c].new)
  <2>1. call[c].recreate /\ call[c].client # Nil
    BY <1>1, <1>3 DEF CallsValid, CallersApart
  <2>2. client' = call[c].client
        /\ pendingClose' = (IF options.hasClose THEN Append(pendingClose, client)
                                                ELSE pendingClose)
    BY <1>3 DEF Install, Retire
  <2>3. built[client'] = config'
    BY <1>1, <2>1, <2>2 DEF CallsValid
  <2>4. InPending' = IF options.hasClose THEN InPending \cup {client} ELSE InPending
    <3>1. CASE options.hasClose
      BY <2>2, <3>1, PendingAppended DEF TypeOK
    <3>2. CASE ~options.hasClose
      BY <2>2, <3>2 DEF InPending
    <3>3. QED
      BY <3>1, <3>2
  <2>5. QED
    BY <1>1, <1>2, <1>3, <2>1, <2>2, <2>3, <2>4, ComingCaller
<1>4. CASE ~Recreate(config, call[c].new)
  <2>1. options.selective /\ config'.key = config.key
    BY <1>1, <1>4 DEF Recreate
  <2>2. UNCHANGED <<client, pendingClose>> /\ InPending' = InPending
    BY <1>4 DEF Install, InPending
  <2>3. call[c].client = Nil
    BY <1>1, <1>4, <2>1 DEF CallsValid, CallersApart
  <2>4. QED
    BY <1>1, <1>2, <1>4, <2>1, <2>2, <2>3
<1>5. QED
  BY <1>3, <1>4

\* Installing under the lock (updater.go:94-116): the old client joins the queue.
LEMMA InstallStep ==
  ASSUME IInv, NEW c \in Callers, Install(c)
  PROVE  IInv'
<1> USE AutoConfigAssumption DEF IInv
<1> DEFINE recreated == Recreate(config, call[c].new)
<1>1. /\ UNCHANGED <<options, toClose, built, age, closed>>
      /\ call[c].new \in Configs /\ config' = call[c].new /\ config' # config
      /\ recreated \in BOOLEAN
  BY Installed
<1>2. recreated =>
        /\ client' = call[c].client /\ client' \in Coming /\ client' \in Clients
        /\ built[client'] = config'
        /\ client' # client /\ closed[client'] = 0
        /\ client' \notin InPending \cup toClose
        /\ pendingClose' = IF options.hasClose THEN Append(pendingClose, client)
                                               ELSE pendingClose
        /\ InPending' = IF options.hasClose THEN InPending \cup {client} ELSE InPending
  BY Installed
<1>3. ~recreated =>
        /\ options.selective /\ config'.key = config.key
        /\ UNCHANGED <<client, pendingClose>> /\ InPending' = InPending
        /\ call[c].client = Nil
  BY Installed
<1>4. /\ call' \in [Callers -> Call \cup {NoCall}]
      /\ \A d \in Callers : Busy(d)' <=> Busy(d) /\ d # c
      /\ \A d \in Callers : Busy(d)' => call'[d] = call[d]
      /\ Built' = Built /\ Coming' = Coming \ {call[c].client} /\ CallersApart'
      /\ Busy(c)
  BY <1>1, CallEnds DEF Install
<1>5. Coming' = IF recreated THEN Coming \ {client'} ELSE Coming
  <2>1. Nil \notin Coming
    BY DEF Nil, Coming, Built
  <2>2. QED
    BY <1>1, <1>2, <1>3, <1>4, <2>1
<1>6. sleep' \in 0..Grace /\ draining' \in BOOLEAN
  <2>1. sleep \in 0..Grace /\ Grace \in Nat /\ draining \in BOOLEAN
    BY DEF TypeOK
  <2>2. CASE recreated /\ options.hasClose
    BY <2>1, <2>2 DEF Install, Retire
  <2>3. CASE ~(recreated /\ options.hasClose)
    BY <2>1, <2>3 DEF Install
  <2>4. QED
    BY <2>2, <2>3
<1>7. client \in Built /\ Built \subseteq Clients
  BY DEF Known, Built, Clients, TypeOK
<1>8. pendingClose' \in Seq(0..MaxClients)
  <2>1. pendingClose \in Seq(0..MaxClients) /\ client \in 0..MaxClients
    BY DEF TypeOK
  <2>2. Append(pendingClose, client) \in Seq(0..MaxClients)
    BY <2>1, Appended
  <2>3. QED
    BY <1>1, <1>2, <1>3, <2>1, <2>2
<1> HIDE DEF recreated
<1>9. TypeOK'
  BY <1>1, <1>2, <1>3, <1>4, <1>6, <1>8 DEF TypeOK, Clients
<1>10. CallsValid'
  BY <1>1, <1>4 DEF CallsValid, CallersApart
<1>11. ClientMatchesConfig'
  <2>1. CASE recreated
    BY <1>1, <1>2, <2>1 DEF ClientMatchesConfig, Clients, Nil
  <2>2. CASE ~recreated
    BY <1>1, <1>3, <2>2 DEF ClientMatchesConfig
  <2>3. QED
    BY <1>1, <2>1, <2>2
<1>12. Unshared'
  <2>1. CASE recreated /\ options.hasClose
    <3>1. /\ DOMAIN pendingClose' = DOMAIN pendingClose \cup {Len(pendingClose) + 1}
          /\ pendingClose'[Len(pendingClose) + 1] = client
          /\ \A i \in DOMAIN pendingClose : pendingClose'[i] = pendingClose[i]
      <4>1. pendingClose' = Append(pendingClose, client)
        BY <1>2, <2>1
      <4>2. pendingClose \in Seq(0..MaxClients) /\ client \in 0..MaxClients
        BY DEF TypeOK
      <4>3. QED
        BY <4>1, <4>2, Appended
    <3>2. \A i \in DOMAIN pendingClose : pendingClose[i] # client
      BY DEF Apart, InPending
    <3>3. \A i, j \in DOMAIN pendingClose : pendingClose[i] = pendingClose[j] => i = j
      BY DEF Unshared
    <3>4. ASSUME NEW i \in DOMAIN pendingClose', NEW j \in DOMAIN pendingClose',
                 pendingClose'[i] = pendingClose'[j]
          PROVE  i = j
      <4>1. CASE i \in DOMAIN pendingClose /\ j \in DOMAIN pendingClose
        BY <3>1, <3>3, <3>4, <4>1
      <4>2. CASE i \notin DOMAIN pendingClose /\ j \notin DOMAIN pendingClose
        BY <3>1, <4>2
      <4>3. CASE (i \in DOMAIN pendingClose) # (j \in DOMAIN pendingClose)
        BY <3>1, <3>2, <3>4, <4>3
      <4>4. QED
        BY <4>1, <4>2, <4>3
    <3>5. QED
      BY <1>4, <3>4 DEF Unshared
  <2>2. CASE ~(recreated /\ options.hasClose)
    BY <1>1, <1>2, <1>3, <1>4, <2>2 DEF Unshared
  <2>3. QED
    BY <2>1, <2>2
<1>13. Known'
  BY <1>1, <1>2, <1>3, <1>4, <1>7 DEF Known, Coming
<1>14. Apart'
  BY <1>1, <1>2, <1>3, <1>5 DEF Apart
<1>15. NoneLost'
  <2>1. CASE recreated
    BY <1>1, <1>2, <1>4, <1>5, <2>1 DEF NoneLost
  <2>2. CASE ~recreated
    BY <1>1, <1>3, <1>4, <1>5, <2>2 DEF NoneLost
  <2>3. QED
    BY <2>1, <2>2
<1>16. QED
  BY <1>4, <1>9, <1>10, <1>11, <1>12, <1>13, <1>14, <1>15

\* Time passes.
LEMMA TickStep ==
  ASSUME IInv, Tick
  PROVE  IInv'
<1> USE AutoConfigAssumption DEF IInv, stateVars
<1>1. UNCHANGED <<options, config, client, pendingClose, draining, toClose, built, call, closed>>
  BY DEF Tick
<1>2. InPending' = InPending /\ Built' = Built /\ Coming' = Coming
      /\ \A c \in Callers : Busy(c)' <=> Busy(c)
  BY <1>1 DEF InPending, Built, Coming, Busy
<1>3. sleep' \in 0..Grace
  BY DEF Tick, TypeOK
<1>4. age' \in [Clients -> 0..Grace]
  BY DEF Tick, TypeOK
<1>5. TypeOK'
  BY <1>1, <1>3, <1>4 DEF TypeOK
<1>6. CallersApart' /\ CallsValid'
  BY <1>1, <1>2 DEF CallersApart, CallsValid, Recreate
<1>7. ClientMatchesConfig' /\ Unshared'
  BY <1>1, <1>2 DEF ClientMatchesConfig, Unshared
<1>8. Known' /\ Apart' /\ NoneLost'
  BY <1>1, <1>2 DEF Known, Apart, NoneLost
<1>9. QED
  BY <1>5, <1>6, <1>7, <1>8

\* The drain takes the whole queue; to the refinement nothing moves.
LEMMA DrainTakeStep ==
  ASSUME IInv, DrainTake
  PROVE  IInv' /\ InPending' = {} /\ toClose' = toClose \cup InPending
<1> USE AutoConfigAssumption DEF IInv
<1>1. /\ UNCHANGED <<options, config, client, sleep, built, call, age, closed>>
      /\ pendingClose' = <<>> /\ toClose' = toClose \cup InPending /\ draining' = FALSE
  BY DEF DrainTake
<1>2. InPending' = {} /\ Built' = Built /\ Coming' = Coming /\ DOMAIN pendingClose' = {}
      /\ \A c \in Callers : Busy(c)' <=> Busy(c)
  BY <1>1, EmptySeq DEF InPending, Built, Coming, Busy
<1>3. TypeOK'
  <2>1. Built \subseteq 0..MaxClients
    BY DEF TypeOK, Built
  <2>2. toClose' \subseteq 0..MaxClients
    BY <1>1, <2>1 DEF TypeOK, Known
  <2>3. pendingClose' \in Seq(0..MaxClients) /\ draining' \in BOOLEAN
    BY <1>1, EmptySeq
  <2>4. QED
    BY <1>1, <2>2, <2>3 DEF TypeOK
<1>4. CallersApart' /\ CallsValid'
  BY <1>1, <1>2 DEF CallersApart, CallsValid, Recreate
<1>5. ClientMatchesConfig' /\ Unshared'
  BY <1>1, <1>2 DEF ClientMatchesConfig, Unshared
<1>6. Known' /\ Apart' /\ NoneLost'
  BY <1>1, <1>2 DEF Known, Apart, NoneLost
<1>7. QED
  BY <1>1, <1>2, <1>3, <1>4, <1>5, <1>6

\* The drain closes one client, which was open and is not closed again.
LEMMA DrainCloseStep ==
  ASSUME IInv, NEW k \in 0..MaxClients, DrainClose(k)
  PROVE  /\ IInv' /\ InPending' = InPending /\ toClose' = toClose \ {k} /\ k \in toClose
         /\ k \in Clients /\ closed[k] = 0
         /\ \A m \in Clients : closed'[m] = IF m = k THEN 1 ELSE closed[m]
<1> USE AutoConfigAssumption DEF IInv, stateVars
<1>1. /\ UNCHANGED <<options, config, client, pendingClose, draining, sleep, built, call, age>>
      /\ k \in toClose /\ toClose' = toClose \ {k}
  BY DEF DrainClose
<1>2. InPending' = InPending /\ Built' = Built /\ Coming' = Coming
      /\ \A c \in Callers : Busy(c)' <=> Busy(c)
  BY <1>1 DEF InPending, Built, Coming, Busy
<1>3. Built \subseteq Clients
  BY DEF Built, Clients, TypeOK
<1>4. k \in Built /\ k \in Clients /\ k # client /\ closed[k] = 0 /\ k \notin Coming \cup InPending
  BY <1>1, <1>3 DEF Known, Apart
<1>5. \A m \in Clients : closed'[m] = IF m = k THEN 1 ELSE closed[m]
  BY <1>4 DEF DrainClose, Close, TypeOK
<1>6. closed' \in [Clients -> 0..2]
  <2>1. closed' = [m \in Clients |-> closed'[m]]
    BY DEF DrainClose, Close
  <2>2. \A m \in Clients : closed'[m] \in 0..2
    BY <1>5 DEF TypeOK
  <2>3. QED
    BY <2>1, <2>2
<1>7. TypeOK'
  BY <1>1, <1>6 DEF TypeOK
<1>8. CallersApart' /\ CallsValid'
  BY <1>1, <1>2 DEF CallersApart, CallsValid, Recreate
<1>9. ClientMatchesConfig' /\ Unshared'
  BY <1>1, <1>2 DEF ClientMatchesConfig, Unshared
<1>10. Known'
  BY <1>1, <1>2, <1>4, <1>5 DEF Known
<1>11. Coming \cup InPending \cup toClose \cup {client} \subseteq Clients
  BY <1>3 DEF Known, Coming
<1>12. Apart'
  <2>1. closed'[client'] = 0 /\ \A m \in Coming' \cup InPending' \cup toClose' : closed'[m] = 0
    BY <1>1, <1>2, <1>4, <1>5, <1>11 DEF Apart
  <2>2. QED
    BY <1>1, <1>2, <2>1 DEF Apart
<1>13. NoneLost'
  BY <1>1, <1>2, <1>3, <1>5 DEF NoneLost
<1>14. QED
  BY <1>1, <1>2, <1>4, <1>5, <1>7, <1>8, <1>9, <1>10, <1>12, <1>13

\* Stuttering keeps the invariant, and the queue.
LEMMA StutterStep ==
  ASSUME IInv, UNCHANGED vars
  PROVE  IInv' /\ InPending' = InPending
<1> USE DEF IInv, vars, stateVars
<1>1. InPending' = InPending /\ Built' = Built /\ Coming' = Coming
      /\ \A c \in Callers : Busy(c)' <=> Busy(c)
  BY DEF InPending, Built, Coming, Busy
<1>2. TypeOK' /\ ClientMatchesConfig'
  BY DEF TypeOK, ClientMatchesConfig
<1>3. CallersApart' /\ CallsValid' /\ Unshared'
  BY <1>1 DEF CallersApart, CallsValid, Recreate, Unshared
<1>4. Known' /\ Apart' /\ NoneLost'
  BY <1>1 DEF Known, Apart, NoneLost
<1>5. QED
  BY <1>1, <1>2, <1>3, <1>4

\* Every step keeps the inductive invariant.
LEMMA IStep ==
  ASSUME IInv, [Next]_vars
  PROVE  IInv'
BY PrepareStep, DiscardStep, InstallStep, TickStep, DrainTakeStep, DrainCloseStep, StutterStep
   DEF Next, Drain

\* The inductive invariant holds throughout.
LEMMA Invariance == Spec => []IInv
BY IInit, IStep, PTL DEF Spec

-----------------------------------------------------------------------------
(* What the invariant says of each client. *)

\* A set without two different elements has one element or none.
LEMMA AtMostOne ==
  ASSUME NEW S, \A x, y \in S : x = y
  PROVE  Cardinality(S) = IF S = {} THEN 0 ELSE 1
<1>1. CASE S = {}
  BY <1>1, FS_EmptySet
<1>2. CASE S # {}
  <2>1. PICK x : S = {x}
    BY <1>2
  <2>2. QED
    BY <1>2, <2>1, FS_Singleton
<1>3. QED
  BY <1>1, <1>2

\* Every client built is in exactly one place: what NoneLost, Unshared and Apart say together.
LEMMA Located ==
  ASSUME IInv
  PROVE  OnePlace
<1> USE AutoConfigAssumption DEF IInv
<1> SUFFICES ASSUME options.hasClose, NEW k \in 1..Len(built)
             PROVE  Cardinality({c \in Callers : Busy(c) /\ call[c].client = k})
                    + Cardinality({i \in DOMAIN pendingClose : pendingClose[i] = k})
                    + (IF client = k THEN 1 ELSE 0)
                    + (IF k \in toClose THEN 1 ELSE 0)
                    + closed[k] = 1
  BY DEF OnePlace
<1> DEFINE A == {c \in Callers : Busy(c) /\ call[c].client = k}
           B == {i \in DOMAIN pendingClose : pendingClose[i] = k}
<1>1. k \in Built /\ k \in Clients /\ k # Nil
  BY DEF Built, Clients, Nil, TypeOK
<1>2. Cardinality(A) = IF k \in Coming THEN 1 ELSE 0
  <2>1. \A c, d \in A : c = d
    BY <1>1 DEF Unshared
  <2>2. A = {} <=> k \notin Coming
    BY <1>1 DEF Coming
  <2>3. QED
    BY <2>1, <2>2, AtMostOne
<1>3. Cardinality(B) = IF k \in InPending THEN 1 ELSE 0
  <2>1. \A i, j \in B : i = j
    BY DEF Unshared
  <2>2. B = {} <=> k \notin InPending
    BY DEF InPending
  <2>3. QED
    BY <2>1, <2>2, AtMostOne
<1>4. closed[k] \in {0, 1}
  BY <1>1 DEF Known
<1>5. \/ k \in Coming \/ k \in InPending \/ k = client \/ k \in toClose \/ closed[k] = 1
  BY <1>1 DEF NoneLost
<1> HIDE DEF A, B
<1>6. Cardinality(A) + Cardinality(B) + (IF client = k THEN 1 ELSE 0)
      + (IF k \in toClose THEN 1 ELSE 0) + closed[k] = 1
  BY <1>2, <1>3, <1>4, <1>5 DEF Apart
<1>7. QED
  BY <1>6 DEF A, B

-----------------------------------------------------------------------------
(* Each step is a step of the cell, or none. *)

\* A step that moves no client between the cell's parts is a stutter of the cell.
LEMMA CellUnchanged ==
  ASSUME IInv, UNCHANGED <<options, config, client, closed>>,
         built'[client] = built[client],
         InPending' \cup toClose' = InPending \cup toClose
  PROVE  UNCHANGED Cell!cellVars
BY DEF Cell!cellVars

\* A client built and not installed is invisible to the cell.
LEMMA PrepareStutters ==
  ASSUME IInv, NEW c \in Callers, NEW raw \in Raws, Prepare(c, raw)
  PROVE  UNCHANGED Cell!cellVars
<1> USE DEF IInv, stateVars
<1>1. UNCHANGED <<options, config, client, closed, toClose, pendingClose>>
  BY DEF Prepare
<1>2. built'[client] = built[client]
  <2>1. CASE Recreate(config, Parse(config, raw))
    <3>1. built' = Append(built, Parse(config, raw))
      BY <2>1 DEF Prepare
    <3>2. QED
      BY <3>1, ParseType, Appended DEF TypeOK, Known, Built
  <2>2. CASE ~Recreate(config, Parse(config, raw))
    BY <2>2 DEF Prepare
  <2>3. QED
    BY <2>1, <2>2
<1>3. InPending' = InPending
  BY <1>1 DEF InPending
<1>4. QED
  BY <1>1, <1>2, <1>3, CellUnchanged

\* An unused client is only ever dropped where callers overlap.
LEMMA DiscardIsCloseUnused ==
  ASSUME IInv, NEW c \in Callers, Discard(c)
  PROVE  Cell!CloseUnused \/ UNCHANGED Cell!cellVars
<1> USE DEF IInv, stateVars
<1>1. /\ UNCHANGED <<options, config, client, pendingClose, toClose, built>>
      /\ Busy(c) /\ config = call[c].new /\ InPending' = InPending
  BY DEF Discard, InPending
<1>2. options.concurrent
  BY <1>1 DEF CallsValid
<1>3. CASE call[c].recreate /\ options.hasClose
  <2> DEFINE m == call[c].client
             shut == {k \in Clients : closed[k] > 0}
  <2>1. m \in Clients /\ m # client /\ closed[m] = 0 /\ m \notin InPending \cup toClose
    BY <1>1, <1>3, ComingCaller DEF CallsValid
  <2>2. \A k \in Clients : closed'[k] = IF k = m THEN 1 ELSE closed[k]
    BY <1>3, <2>1 DEF Discard, Close
  <2>3. shut' = shut \cup {m}
    BY <1>1, <2>1, <2>2
  <2>4. m \in shut' \ (InPending \cup toClose \cup shut \cup {client})
    BY <2>1, <2>3
  <2>5. UNCHANGED <<options, config, client, built[client], InPending \cup toClose>>
    BY <1>1
  <2> HIDE DEF m
  <2>6. QED
    BY <1>2, <1>3, <2>3, <2>4, <2>5 DEF Cell!CloseUnused
<1>4. CASE ~(call[c].recreate /\ options.hasClose)
  BY <1>1, <1>4, CellUnchanged DEF Discard
<1>5. QED
  BY <1>3, <1>4

\* An installed configuration is the update that sets both of its fields.
LEMMA InstallIsUpdate ==
  ASSUME IInv, NEW c \in Callers, Install(c)
  PROVE  \E raw \in Cell!Raws : Cell!Update(raw)
<1> USE DEF IInv
<1> DEFINE recreated == Recreate(config, call[c].new)
           raw  == [key |-> config'.key, rest |-> config'.rest]
           shut == {k \in Clients : closed[k] > 0}
<1>1. /\ UNCHANGED <<options, toClose, built, closed>>
      /\ config' \in Configs /\ config' # config /\ config \in Configs
      /\ recreated <=> (options.selective => config.key # config'.key)
  BY Installed DEF Recreate, TypeOK
<1>2. recreated =>
        /\ client' \in Clients /\ built'[client'] = config'
        /\ client' # client /\ closed[client'] = 0
        /\ client' \notin InPending \cup toClose
        /\ InPending' = IF options.hasClose THEN InPending \cup {client} ELSE InPending
  BY Installed
<1>3. ~recreated => client' = client /\ InPending' = InPending
  BY Installed
<1>4. raw \in Cell!Raws
  BY <1>1 DEF Configs, Cell!Raws
<1>5. Cell!Merge(config, raw) = config'
  BY <1>1, AutoConfigAssumption DEF Configs, Cell!Merge, Cell!Unset
<1>6. \E base \in (IF options.concurrent THEN Cell!Configs ELSE {config}) :
        config' = Cell!Merge(base, raw)
  <2>1. config \in Cell!Configs
    BY <1>1 DEF Configs, Cell!Configs
  <2>2. QED
    BY <1>5, <2>1
<1>7. Cell!Serves(config, config') <=> ~recreated
  BY <1>1 DEF Cell!Serves
<1>8. IF Cell!Serves(config, config')
      THEN client' = client /\ UNCHANGED <<built[client], InPending \cup toClose>>
      ELSE /\ client' \notin (InPending \cup toClose) \cup shut \cup {client}
           /\ built'[client'] = config'
           /\ InPending' \cup toClose' = IF options.hasClose
                                         THEN (InPending \cup toClose) \cup {client}
                                         ELSE InPending \cup toClose
  BY <1>1, <1>2, <1>3, <1>7
<1>9. UNCHANGED <<options, shut>>
  BY <1>1
<1>10. Cell!Update(raw)
  BY <1>1, <1>6, <1>8, <1>9 DEF Cell!Update
<1>11. QED
  BY <1>4, <1>10

\* Closing a client of a drained batch is the cell's CloseRetired.
LEMMA DrainCloseIsCloseRetired ==
  ASSUME IInv, NEW k \in 0..MaxClients, DrainClose(k)
  PROVE  \E m \in InPending \cup toClose : Cell!CloseRetired(m)
<1> USE DEF IInv, stateVars
<1> DEFINE shut == {m \in Clients : closed[m] > 0}
<1>1. /\ UNCHANGED <<options, config, client, built>>
      /\ InPending' = InPending /\ toClose' = toClose \ {k} /\ k \in toClose
      /\ k \in Clients
      /\ \A m \in Clients : closed'[m] = IF m = k THEN 1 ELSE closed[m]
  BY DrainCloseStep DEF DrainClose
<1>2. shut' = shut \cup {k}
  <2>1. \A m \in Clients : closed'[m] > 0 <=> m = k \/ closed[m] > 0
    BY <1>1
  <2>2. QED
    BY <1>1, <2>1
<1>3. InPending' \cup toClose' = (InPending \cup toClose) \ {k}
  BY <1>1 DEF Apart
<1>4. Cell!CloseRetired(k)
  BY <1>1, <1>2, <1>3 DEF Cell!CloseRetired
<1>5. QED
  BY <1>1, <1>4

\* Every step of State is a step of the cell or a stutter.
LEMMA CellStep ==
  ASSUME IInv, [Next]_vars
  PROVE  [Cell!CellNext]_(Cell!cellVars)
<1>1. ASSUME NEW c \in Callers, NEW raw \in Raws, Prepare(c, raw)
      PROVE  UNCHANGED Cell!cellVars
  BY <1>1, PrepareStutters
<1>2. ASSUME NEW c \in Callers, Discard(c)
      PROVE  Cell!CloseUnused \/ UNCHANGED Cell!cellVars
  BY <1>2, DiscardIsCloseUnused
<1>3. ASSUME NEW c \in Callers, Install(c)
      PROVE  \E raw \in Cell!Raws : Cell!Update(raw)
  BY <1>3, InstallIsUpdate
<1>4. CASE Tick
  BY <1>4, CellUnchanged DEF Tick, stateVars, InPending
<1>5. CASE DrainTake
  <2>1. InPending' \cup toClose' = InPending \cup toClose
    BY <1>5, DrainTakeStep
  <2>2. QED
    BY <1>5, <2>1, CellUnchanged DEF DrainTake
<1>6. ASSUME NEW k \in 0..MaxClients, DrainClose(k)
      PROVE  \E m \in InPending \cup toClose : Cell!CloseRetired(m)
  BY <1>6, DrainCloseIsCloseRetired
<1>7. CASE UNCHANGED vars
  BY <1>7, StutterStep, CellUnchanged DEF vars, stateVars
<1>8. QED
  BY <1>1, <1>2, <1>3, <1>4, <1>5, <1>6, <1>7 DEF Next, Drain, Cell!CellNext

\* A new State is a new cell.
LEMMA CellStart == Init => Cell!CellInit
<1> SUFFICES ASSUME Init PROVE Cell!CellInit
  OBVIOUS
<1>1. IInv
  BY IInit
<1>2. options \in OptionTypes /\ config \in Configs /\ client = 1 /\ built[client] = config
  BY <1>1 DEF Init, IInv, TypeOK
<1>3. InPending \cup toClose = {} /\ {k \in Clients : closed[k] > 0} = {}
  BY EmptySeq DEF Init, InPending
<1>4. QED
  BY <1>2, <1>3 DEF Cell!CellInit, Cell!Configs, Configs, OptionTypes

-----------------------------------------------------------------------------
(* What a replaced client waits for. *)

\* Whoever is in the queue has a drain that sleeps or wakes up.
Scheduled == InPending # {} => draining

\* A drain takes the queue once it has slept, and closes what it took one by one.
DrainLeft == (IF draining THEN 1 + sleep ELSE 0) + Cardinality(InPending) + Cardinality(toClose)

\* Whatever is replaced meanwhile, a client in the queue waits no longer for it: the drain
\* goes on sleeping as it did, and takes every client there is when it wakes up (Apply,
\* drainPendingClose).
WaitKept ==
  [][\A k \in InPending : \/ draining' /\ sleep' <= sleep /\ k \in InPending'
                          \/ k \in toClose']_vars

\* A step of the drain leaves it less to do (drainPendingClose).
DrainWorksOff == [][Drain => DrainLeft' < DrainLeft]_vars

\* What a drain has to do is a number.
LEMMA DrainCounted ==
  ASSUME TypeOK
  PROVE  /\ IsFiniteSet(InPending) /\ Cardinality(InPending) \in Nat
         /\ IsFiniteSet(toClose) /\ Cardinality(toClose) \in Nat
         /\ sleep \in Nat /\ DrainLeft \in Nat
<1>1. IsFiniteSet(0..MaxClients)
  BY AutoConfigAssumption, FS_Interval
<1>2. InPending \subseteq 0..MaxClients /\ toClose \subseteq 0..MaxClients
  <2>1. \A i \in DOMAIN pendingClose : pendingClose[i] \in 0..MaxClients
    <3>1. pendingClose \in Seq(0..MaxClients)
      BY DEF TypeOK
    <3>2. DOMAIN pendingClose = 1..Len(pendingClose)
      BY <3>1, LenProperties, Zenon
    <3>3. QED
      BY <3>1, <3>2, ElementOfSeq, Zenon
  <2>2. QED
    BY <2>1 DEF TypeOK, InPending
<1>3. /\ IsFiniteSet(InPending) /\ Cardinality(InPending) \in Nat
      /\ IsFiniteSet(toClose) /\ Cardinality(toClose) \in Nat
  BY <1>1, <1>2, FS_Subset, FS_CardinalityType
<1>4. sleep \in Nat
  BY AutoConfigAssumption DEF TypeOK
<1>5. QED
  BY <1>3, <1>4 DEF DrainLeft

\* A client that joins the queue leaves those in it waiting as they did.
LEMMA InstallKeeps ==
  ASSUME TypeOK, Scheduled, NEW c \in Callers, Install(c)
  PROVE  /\ InPending' # {} => draining'
         /\ InPending # {} => draining' /\ sleep' <= sleep /\ InPending \subseteq InPending'
<1>1. CASE Recreate(config, call[c].new) /\ options.hasClose
  <2>1. Retire
    BY <1>1 DEF Install
  <2>2. InPending' = InPending \cup {client}
    BY <2>1, PendingAppended DEF Retire, TypeOK
  <2>3. sleep \in Int /\ draining' /\ (draining => sleep' = sleep)
    BY <2>1 DEF Retire, TypeOK
  <2>4. QED
    BY <2>2, <2>3 DEF Scheduled
<1>2. CASE ~(Recreate(config, call[c].new) /\ options.hasClose)
  <2>1. pendingClose' = pendingClose /\ draining' = draining /\ sleep' = sleep
    BY <1>2 DEF Install
  <2>2. InPending' = InPending /\ sleep \in Int
    BY <2>1 DEF InPending, TypeOK
  <2>3. QED
    BY <2>1, <2>2 DEF Scheduled
<1>3. QED
  BY <1>1, <1>2

\* Nothing but a drain that wakes up leaves the queue unattended, and it takes all of it.
LEMMA QueueStep ==
  ASSUME TypeOK, Scheduled, [Next]_vars
  PROVE  /\ Scheduled'
         /\ \A k \in InPending : \/ draining' /\ sleep' <= sleep /\ k \in InPending'
                                 \/ k \in toClose'
<1> USE DEF Scheduled, stateVars
<1>1. sleep \in Int
  BY DEF TypeOK
<1>2. ASSUME pendingClose' = pendingClose, draining' = draining, sleep' <= sleep
      PROVE  /\ InPending' = InPending /\ Scheduled'
             /\ \A k \in InPending : draining' /\ sleep' <= sleep /\ k \in InPending'
  BY <1>2 DEF InPending
<1>3. ASSUME NEW c \in Callers, (\E raw \in Raws : Prepare(c, raw)) \/ Discard(c)
      PROVE  pendingClose' = pendingClose /\ draining' = draining /\ sleep' <= sleep
  BY <1>1, <1>3 DEF Prepare, Discard
<1>4. CASE Tick \/ \E k \in 0..MaxClients : DrainClose(k)
  <2>1. pendingClose' = pendingClose /\ draining' = draining
    BY <1>4, Zenon DEF Tick, DrainClose
  <2>2. sleep' = sleep \/ sleep' = sleep - 1
    BY <1>4 DEF Tick, DrainClose
  <2>3. QED
    BY <1>1, <1>2, <2>1, <2>2
<1>5. CASE DrainTake
  <2>1. InPending \subseteq toClose' /\ pendingClose' = <<>>
    BY <1>5 DEF DrainTake
  <2>2. InPending' = {}
    BY <2>1, EmptySeq DEF InPending
  <2>3. QED
    BY <2>1, <2>2
<1>6. CASE UNCHANGED vars
  <2>1. pendingClose' = pendingClose /\ draining' = draining /\ sleep' <= sleep
    BY <1>1, <1>6 DEF vars
  <2>2. QED
    BY <1>2, <2>1
<1>7. ASSUME NEW c \in Callers, Install(c)
      PROVE  /\ Scheduled'
             /\ \A k \in InPending : draining' /\ sleep' <= sleep /\ k \in InPending'
  BY <1>7, InstallKeeps
<1>8. QED
  BY <1>2, <1>3, <1>4, <1>5, <1>6, <1>7 DEF Next, Drain

\* A drain sleeps a little less, takes the queue, or closes one client.
LEMMA DrainStep ==
  ASSUME TypeOK, TypeOK', Drain
  PROVE  DrainLeft' < DrainLeft
<1>1. CASE Tick
  <2>1. draining /\ draining' = draining /\ sleep' = sleep - 1 /\ toClose' = toClose
    BY <1>1 DEF Tick, stateVars
  <2>2. InPending' = InPending
    BY <1>1 DEF Tick, stateVars, InPending
  <2>3. QED
    BY <2>1, <2>2, DrainCounted DEF DrainLeft
<1>2. CASE DrainTake
  <2>1. draining /\ ~draining' /\ toClose' = toClose \cup InPending /\ pendingClose' = <<>>
    BY <1>2 DEF DrainTake
  <2>2. Cardinality(InPending') = 0
    <3>1. InPending' = {}
      BY <2>1, EmptySeq DEF InPending
    <3>2. QED
      BY <3>1, FS_EmptySet
  <2>3. Cardinality(toClose') <= Cardinality(toClose) + Cardinality(InPending)
        /\ Cardinality(toClose') \in Nat
    <3>1. toClose \cap InPending \subseteq toClose
      OBVIOUS
    <3>2. Cardinality(toClose \cap InPending) \in Nat
      BY <3>1, DrainCounted, FS_Subset, FS_CardinalityType
    <3>3. Cardinality(toClose')
            = Cardinality(toClose) + Cardinality(InPending) - Cardinality(toClose \cap InPending)
          /\ IsFiniteSet(toClose')
      BY <2>1, DrainCounted, FS_Union
    <3>4. Cardinality(toClose') \in Nat
      BY <3>3, FS_CardinalityType
    <3>5. QED
      BY <3>2, <3>3, <3>4, DrainCounted
  <2>4. QED
    BY <2>1, <2>2, <2>3, DrainCounted DEF DrainLeft
<1>3. ASSUME NEW k \in 0..MaxClients, DrainClose(k)
      PROVE  DrainLeft' < DrainLeft
  <2>1. k \in toClose /\ toClose' = toClose \ {k} /\ draining' = draining /\ sleep' = sleep
    BY <1>3 DEF DrainClose, stateVars
  <2>2. InPending' = InPending
    BY <1>3 DEF DrainClose, stateVars, InPending
  <2>3. Cardinality(toClose') = Cardinality(toClose) - 1
    BY <2>1, DrainCounted, FS_RemoveElement
  <2>4. QED
    BY <2>1, <2>2, <2>3, DrainCounted DEF DrainLeft
<1>4. QED
  BY <1>1, <1>2, <1>3 DEF Drain

-----------------------------------------------------------------------------
(* The theorems. *)

\* The types: a client is closed at most twice, never more are built than counted.
THEOREM AutoConfigTypeCorrect == Spec => []TypeOK
BY Invariance, PTL DEF IInv

\* Tasks are never handed a client made for another configuration than the one in
\* force, however the calls of Apply interleave.
THEOREM ClientMatches == Spec => []ClientMatchesConfig
BY Invariance, PTL DEF IInv

\* Every client Apply ever built is in exactly one place: none leaks, and none is closed
\* twice.
THEOREM EveryClientInOnePlace == Spec => []OnePlace
BY Located, Invariance, PTL

\* Apply and its drain implement the cell: an update takes effect as a whole, with its
\* client, and a client is closed once, after it was replaced.
THEOREM AutoConfigImplementsCell == Spec => ImplementsCell
BY CellStart, CellStep, Invariance, PTL DEF Spec, ImplementsCell, Cell!CellSpec

\* A replaced client has a drain under way, and no later update makes it wait longer: the
\* timer of the drain is not set again (Apply, drainPendingClose).
THEOREM QueueServed == Spec => []Scheduled /\ WaitKept
<1>1. Init => Scheduled
  BY EmptySeq DEF Init, Scheduled, InPending
<1>2. TypeOK /\ Scheduled /\ [Next]_vars
        => Scheduled' /\ [\A k \in InPending : \/ draining' /\ sleep' <= sleep /\ k \in InPending'
                                               \/ k \in toClose']_vars
  BY QueueStep
<1>3. QED
  BY <1>1, <1>2, AutoConfigTypeCorrect, PTL DEF Spec, WaitKept

\* Each step of a drain brings its end closer, so that it closes all it took; the clients
\* replaced meanwhile are the next drain's.
THEOREM DrainEnds == Spec => [](DrainLeft \in Nat) /\ DrainWorksOff
<1>1. TypeOK => DrainLeft \in Nat
  BY DrainCounted
<1>2. TypeOK /\ TypeOK' /\ [Next]_vars => [Drain => DrainLeft' < DrainLeft]_vars
  BY DrainStep
<1>3. QED
  BY <1>1, <1>2, AutoConfigTypeCorrect, PTL DEF Spec, DrainWorksOff
=============================================================================

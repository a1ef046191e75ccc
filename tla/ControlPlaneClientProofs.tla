---------------------- MODULE ControlPlaneClientProofs ----------------------
(***************************************************************************)
(* Proofs about ControlPlaneClient, for any number of commands, slots,     *)
(* streams and messages.  The invariant is IInv: the types, the accounting *)
(* of the semaphore, which needs the execute messages still in the inbox   *)
(* to stand for jobs no executor has, and the order of the configs.        *)
(***************************************************************************)
EXTENDS ControlPlaneClient, FiniteSetTheorems, SequenceTheorems, TLAPS

-----------------------------------------------------------------------------
(* The inductive invariant. *)

\* An execute message not yet dispatched is for a job of the current stream
\* that no executor has taken.
InboxTracked ==
  \A i \in DOMAIN inbox : inbox[i].type = "execute" =>
    /\ cur \in Streams
    /\ exec[<<inbox[i].cmd, cur>>] = "sent"

\* ... and no two of them are for the same job.
InboxDistinct ==
  \A i, k \in DOMAIN inbox :
    /\ inbox[i].type = "execute" /\ inbox[k].type = "execute"
    /\ inbox[i].cmd = inbox[k].cmd
    => i = k

\* recvLoop dispatches the message it has received.
DispatchHead ==
  runPc = "dispatch" => inbox # <<>> /\ Head(inbox).type = "execute"

\* A stream that is open was opened by connectOnce.
OpenIsCurrent == wire = "open" => cur \in Streams

\* No config handed over is newer than lastAppliedVersion.
AppliedBelow == \A i \in DOMAIN applied : applied[i] <= lastApplied

IInv ==
  /\ TypeOK
  /\ SemaphoreExact
  /\ InboxTracked
  /\ InboxDistinct
  /\ DispatchHead
  /\ OpenIsCurrent
  /\ AppliedBelow
  /\ ConfigOrder

-----------------------------------------------------------------------------
(* Facts about messages and slots. *)

\* The fields of a message of each type.
LEMMA MessageFields ==
  ASSUME NEW m \in Message
  PROVE  /\ m.type = "execute" => m.cmd \in Commands
         /\ m.type = "config" => m.version \in Versions
         /\ m.type = "registered" => m.eff \in 0..NoConfig
         /\ m.type = "rejected" => m.permanent \in BOOLEAN
         /\ m.type = "disconnect" => m.graceful \in BOOLEAN
BY DEF Message

\* The messages the control plane's actions send are messages.
LEMMA MessageForms ==
  /\ \A c \in Commands : [type |-> "execute", cmd |-> c] \in Message
  /\ \A v \in Versions : [type |-> "config", version |-> v] \in Message
  /\ \A e \in 0..NoConfig : [type |-> "registered", eff |-> e] \in Message
  /\ [type |-> "registered", eff |-> NoConfig] \in Message
  /\ \A p \in BOOLEAN : [type |-> "rejected", permanent |-> p] \in Message
  /\ \A g \in BOOLEAN : [type |-> "disconnect", graceful |-> g] \in Message
  /\ [type |-> "ack"] \in Message
  /\ [type |-> "other"] \in Message
<1>1. NoConfig \in 0..NoConfig
  BY ClientAssumption DEF NoConfig
<1>2. QED
  BY <1>1 DEF Message

\* Receiving takes the first message and moves the others up.
LEMMA HeadAndTail ==
  ASSUME NEW s \in Seq(Message), s # <<>>
  PROVE  /\ Head(s) \in Message
         /\ Tail(s) \in Seq(Message)
         /\ Head(s) = s[1]
         /\ 1 \in DOMAIN s
         /\ \A i \in DOMAIN Tail(s) : i + 1 \in DOMAIN s /\ Tail(s)[i] = s[i + 1]
<1>1. Len(s) \in Nat \ {0}
  BY EmptySeq
<1>2. DOMAIN s = 1..Len(s) /\ DOMAIN Tail(s) = 1..Len(Tail(s))
  BY HeadTailProperties, LenProperties
<1>3. QED
  BY <1>1, <1>2, HeadTailProperties

\* What Append does to a sequence, as used for inbox and applied.
LEMMA Appended ==
  ASSUME NEW S, NEW s \in Seq(S), NEW m \in S
  PROVE  /\ Append(s, m) \in Seq(S)
         /\ DOMAIN s = 1..Len(s)
         /\ DOMAIN Append(s, m) = 1..(Len(s) + 1)
         /\ Len(s) \in Nat
         /\ \A i \in DOMAIN s : Append(s, m)[i] = s[i]
         /\ Append(s, m)[Len(s) + 1] = m
BY AppendProperties, LenProperties

\* There are finitely many executions.
LEMMA JobsFinite == IsFiniteSet(Jobs)
<1>1. IsFiniteSet(Streams)
  BY ClientAssumption, FS_Interval DEF Streams
<1>2. QED
  BY <1>1, ClientAssumption, FS_Product DEF Jobs

\* So the executions under way can be counted.
LEMMA InFlightFinite == IsFiniteSet(InFlight) /\ Cardinality(InFlight) \in Nat
<1>1. InFlight \in SUBSET Jobs
  BY DEF InFlight
<1>2. QED
  BY <1>1, JobsFinite, FS_Subset, FS_CardinalityType

\* An executor alive holds a slot.
LEMMA SlotHeld ==
  ASSUME SemaphoreExact, NEW j \in InFlight
  PROVE  sem >= 1
<1>1. Cardinality(InFlight) # 0
  BY InFlightFinite, FS_EmptySet
<1>2. QED
  BY <1>1, InFlightFinite DEF SemaphoreExact

-----------------------------------------------------------------------------
(* Types. *)

\* The provers treat Boolean variables apart from the others.
Flags ==
  /\ cancelled \in BOOLEAN /\ permanent \in BOOLEAN /\ graceful \in BOOLEAN
  /\ halfClosed \in BOOLEAN /\ raced \in BOOLEAN /\ beat \in BOOLEAN

Data ==
  /\ stream \in 0..MaxStreams /\ caps \in Nat
  /\ lastApplied \in Versions /\ sem \in 0..MaxConcurrent
  /\ ackAge \in 0..(AckWindow + 1)
  /\ mainPc \in {"init", "registering", "serving", "closing", "closeSend",
                 "closeWait", "exited"}
  /\ runPc \in RunPcs
  /\ hbPc \in {"none", "send", "sending", "wait", "exited"}
  /\ exec \in [Jobs -> ExecPcs]
  /\ first \in {"none", "ok", "err"}
  /\ cur \in 0..MaxStreams
  /\ wire \in {"none", "open", "ended", "finished"}
  /\ inbox \in Seq(Message)
  /\ peer \in {"idle", "hello", "serving", "ended"}
  /\ manifest \in Nat /\ advertised \in Nat
  /\ pushes \in 0..MaxPushes
  /\ applied \in Seq(Versions)

\* The type invariant in two parts: what is a set, and what is Boolean.
LEMMA TypeParts == TypeOK <=> Data /\ Flags
BY Zenon DEF TypeOK, Data, Flags

\* The same of the next state.
LEMMA TypePartsPrime == TypeOK' <=> Data' /\ Flags'
BY Zenon DEF TypeOK, Data, Flags

\* A new client is of the types.
LEMMA TypeInit == Init => TypeOK
<1>1. <<>> \in Seq(Message) /\ <<>> \in Seq(Versions)
  BY EmptySeq
<1>2. [j \in Jobs |-> "idle"] \in [Jobs -> ExecPcs]
  BY DEF ExecPcs
<1>3. Init => Data
  BY <1>1, <1>2, ClientAssumption DEF Init, Data, RunPcs, Versions
<1>4. Init => Flags
  BY Zenon DEF Init, Flags
<1>5. QED
  BY <1>3, <1>4, TypeParts

\* What the handler of an update does to the fields it writes.
LEMMA ApplyType ==
  ASSUME TypeOK, NEW v \in Versions, NEW b \in BOOLEAN, applyUpdateConfig(v, b)
  PROVE  /\ caps' \in Nat /\ lastApplied' \in Versions
         /\ applied' \in Seq(Versions)
         /\ halfClosed' \in BOOLEAN /\ raced' \in BOOLEAN
<1>1. applied \in Seq(Versions) /\ lastApplied \in Versions /\ caps \in Nat
  BY DEF TypeOK
<1>2. Append(applied, v) \in Seq(Versions)
  BY <1>1, Appended
<1>3. applied' \in {applied, Append(applied, v)} /\ lastApplied' \in {lastApplied, v}
  BY DEF applyUpdateConfig, Handle
<1>4. caps' \in {caps, caps + 1}
  BY DEF applyUpdateConfig, Handle
<1>5. halfClosed' \in BOOLEAN /\ raced' \in BOOLEAN
  BY Zenon DEF applyUpdateConfig, Handle, ForceReconnect, SendMuFree, TypeOK
<1>6. QED
  BY <1>1, <1>2, <1>3, <1>4, <1>5

\* An action that leaves the flags alone, or sets some of them to TRUE or FALSE.
LEMMA FlagsStep ==
  ASSUME TypeOK, [Next]_vars
  PROVE  Flags'
<1> USE DEF clientVars, procVars, wireVars, peerVars, sessionVars, execFrame,
            serverFrame
<1>1. Flags
  BY TypeParts
<1>2. CASE Register \/ Signal \/ Main
  BY <1>1, <1>2, Zenon DEF Flags, Register, Signal, Main, RegisterReturns,
     CloseCancel, CloseCloseSend, CloseWait
<1>3. CASE RunTop \/ ConnectFails \/ SendRegister \/ StartSession \/ Join \/ Backoff
  BY <1>1, <1>3, Zenon DEF Flags, RunTop, ConnectFails, SendRegister,
     StartSession, Join, Backoff, GiveUp, ReturnToRun
<1>4. CASE ConnectOpens \/ AwaitFails
  BY <1>1, <1>4, Zenon DEF Flags, ConnectOpens, AwaitFails, GiveUp, ReturnToRun
<1>5. CASE AwaitRejected
  <2>1. Head(inbox).permanent \in BOOLEAN
    BY <1>5, HeadAndTail, MessageFields DEF AwaitRejected, TypeOK
  <2>2. QED
    BY <1>1, <1>5, <2>1, Zenon DEF Flags, AwaitRejected, GiveUp, ReturnToRun
<1>6. CASE AwaitRegistered
  <2>1. Head(inbox).eff = NoConfig \/ Head(inbox).eff \in Versions
    BY <1>6, HeadAndTail, MessageFields, ClientAssumption
       DEF AwaitRegistered, TypeOK, NoConfig, Versions
  <2>2. halfClosed' \in BOOLEAN /\ raced' \in BOOLEAN
    <3>1. CASE Head(inbox).eff = NoConfig
      BY <1>1, <1>6, <3>1, Zenon DEF AwaitRegistered, Flags
    <3>2. CASE Head(inbox).eff # NoConfig
      BY <1>6, <2>1, <3>2, ApplyType, ClientAssumption DEF AwaitRegistered
    <3>3. QED
      BY <3>1, <3>2
  <2>3. QED
    BY <1>1, <1>6, <2>2, Zenon DEF Flags, AwaitRegistered
<1>7. CASE RecvFailed \/ RecvExecute \/ Dispatch \/ Drain \/ RecvAck
  BY <1>1, <1>7, Zenon DEF Flags, RecvFailed, RecvExecute, Dispatch, Drain, RecvAck
<1>8. CASE RecvUpdateConfig
  <2>1. Head(inbox).version \in Versions
    BY <1>8, HeadAndTail, MessageFields DEF RecvUpdateConfig, Received, TypeOK
  <2>2. halfClosed' \in BOOLEAN /\ raced' \in BOOLEAN
    BY <1>8, <2>1, ApplyType DEF RecvUpdateConfig
  <2>3. QED
    BY <1>1, <1>8, <2>2, Zenon DEF Flags, RecvUpdateConfig
<1>9. CASE RecvDisconnect \/ RecvOther
  <2>1. Received("disconnect") => Head(inbox).graceful \in BOOLEAN
    BY HeadAndTail, MessageFields DEF Received, TypeOK
  <2>2. Received("rejected") => Head(inbox).permanent \in BOOLEAN
    BY HeadAndTail, MessageFields DEF Received, TypeOK
  <2>3. QED
    BY <1>1, <1>9, <2>1, <2>2, Zenon DEF Flags, RecvDisconnect, RecvOther
<1>10. CASE HeartbeatStep \/ HeartbeatStalls \/ HeartbeatSent
  BY <1>1, <1>10, Zenon DEF Flags, HeartbeatStep, HeartbeatStalls, HeartbeatSent,
     HeartbeatTick, HeartbeatLock, HeartbeatSendFails, HeartbeatCtxDone, FinishOnFail
<1>11. ASSUME NEW j \in Jobs, TaskReturns(j) \/ Sender(j) \/ ResultSent(j)
       PROVE  Flags'
  BY <1>1, <1>11, Zenon DEF Flags, TaskReturns, Sender, ResultSent, ResultLock,
     ResultLost, FinishOnFail
<1>12. CASE Server
  <2>1. CASE ServerAnswers
    BY <1>1, <2>1, Zenon DEF Flags, ServerAnswers
  <2>2. CASE ServerPushesConfig \/ ServerAcks \/ ServerDismisses
    BY <1>1, <2>2, Zenon DEF Flags, ServerPushesConfig, ServerAcks, ServerDismisses
  <2>3. CASE ServerSeesHalfClose \/ StreamBreaks
    BY <1>1, <2>3, Zenon DEF Flags, ServerSeesHalfClose, StreamBreaks
  <2>4. CASE \E c \in Commands : ServerExecutes(c)
    BY <1>1, <2>4, Zenon DEF Flags, ServerExecutes
  <2>5. QED
    BY <1>12, <2>1, <2>2, <2>3, <2>4 DEF Server
<1>13. CASE UNCHANGED vars
  BY <1>1, <1>13, Zenon DEF Flags, vars
<1>14. QED
  BY <1>2, <1>3, <1>4, <1>5, <1>6, <1>7, <1>8, <1>9, <1>10, <1>11, <1>12, <1>13
     DEF Next, RunStep, RecvStep, Terminated

\* The other fields.  Giving a slot back needs SemaphoreExact: there is one.
LEMMA DataStep ==
  ASSUME TypeOK, SemaphoreExact, DispatchHead, [Next]_vars
  PROVE  Data'
<1> USE ClientAssumption
    DEF clientVars, procVars, wireVars, peerVars, sessionVars, execFrame, serverFrame
<1>1. Data
  BY TypeParts
<1>2. inbox # <<>> => Tail(inbox) \in Seq(Message)
  BY <1>1, HeadAndTail DEF Data
<1>3. CASE Register \/ Signal \/ Main
  <2>1. CASE Register
    BY <1>1, <2>1 DEF Data, RunPcs, Register
  <2>2. CASE Signal
    BY <1>1, <2>2 DEF Data, Signal
  <2>3. CASE RegisterReturns \/ CloseWait
    <3>1. CASE RegisterReturns
      BY <1>1, <3>1 DEF Data, RegisterReturns
    <3>2. CASE CloseWait
      BY <1>1, <3>2 DEF Data, CloseWait
    <3>3. QED
      BY <2>3, <3>1, <3>2
  <2>4. CASE CloseCancel
    BY <1>1, <2>4 DEF Data, CloseCancel
  <2>5. CASE CloseCloseSend
    BY <1>1, <2>5 DEF Data, CloseCloseSend
  <2>6. QED
    BY <1>3, <2>1, <2>2, <2>3, <2>4, <2>5 DEF Main
<1>4. CASE RunTop \/ ConnectFails \/ StartSession \/ Join \/ Backoff
  <2>1. CASE RunTop
    BY <1>1, <2>1 DEF Data, RunPcs, RunTop
  <2>2. CASE ConnectFails
    BY <1>1, <2>2 DEF Data, RunPcs, ConnectFails, ReturnToRun
  <2>3. CASE StartSession
    BY <1>1, <2>3 DEF Data, RunPcs, StartSession
  <2>4. CASE Join
    BY <1>1, <2>4 DEF Data, RunPcs, Join, GiveUp, ReturnToRun
  <2>5. CASE Backoff
    BY <1>1, <2>5 DEF Data, RunPcs, Backoff
  <2>6. QED
    BY <1>4, <2>1, <2>2, <2>3, <2>4, <2>5
<1>5. CASE SendRegister
  BY <1>1, <1>5 DEF Data, RunPcs, SendRegister, GiveUp, ReturnToRun
<1>6. CASE ConnectOpens
  <2>1. <<>> \in Seq(Message)
    BY EmptySeq
  <2>2. QED
    BY <1>1, <1>6, <2>1 DEF Data, RunPcs, ConnectOpens
<1>7. CASE AwaitFails \/ AwaitRejected
  <2>1. inbox' \in Seq(Message)
    BY <1>1, <1>2, <1>7 DEF Data, AwaitFails, AwaitRejected, Consume
  <2>2. runPc' \in RunPcs /\ first' \in {"none", "ok", "err"} /\ wire' = "finished"
    BY <1>1, <1>7 DEF Data, RunPcs, AwaitFails, AwaitRejected, GiveUp, ReturnToRun
  <2>3. CASE AwaitFails
    BY <1>1, <2>1, <2>2, <2>3 DEF Data, AwaitFails
  <2>4. CASE AwaitRejected
    BY <1>1, <2>1, <2>2, <2>4 DEF Data, AwaitRejected
  <2>5. QED
    BY <1>7, <2>3, <2>4
<1>8. CASE AwaitRegistered
  <2>1. Head(inbox).eff = NoConfig \/ Head(inbox).eff \in Versions
    BY <1>8, HeadAndTail, MessageFields DEF AwaitRegistered, TypeOK, NoConfig, Versions
  <2>2. caps' \in Nat /\ lastApplied' \in Versions /\ applied' \in Seq(Versions)
    BY <1>1, <1>8, <2>1, ApplyType DEF AwaitRegistered, Data
  <2>3. QED
    BY <1>1, <1>2, <1>8, <2>2 DEF Data, RunPcs, AwaitRegistered, Consume
<1>9. CASE RecvFailed \/ RecvExecute \/ Drain
  <2>1. CASE RecvFailed
    BY <1>1, <2>1 DEF Data, RunPcs, RecvFailed
  <2>2. CASE RecvExecute
    BY <1>1, <2>2 DEF Data, RunPcs, RecvExecute
  <2>3. CASE Drain
    BY <1>1, <2>3 DEF Data, RunPcs, Drain
  <2>4. QED
    BY <1>9, <2>1, <2>2, <2>3
<1>10. CASE RecvDisconnect \/ RecvAck \/ RecvOther
  <2>1. CASE RecvDisconnect
    BY <1>1, <1>2, <2>1 DEF Data, RunPcs, RecvDisconnect, Received, Consume
  <2>2. CASE RecvAck
    BY <1>1, <1>2, <2>2 DEF Data, RecvAck, Received, Consume
  <2>3. CASE RecvOther
    <3>1. inbox' \in Seq(Message)
      BY <1>2, <2>3 DEF RecvOther, Received, Consume
    <3>2. runPc' \in RunPcs
      BY <1>1, <2>3 DEF Data, RunPcs, RecvOther
    <3>3. QED
      BY <1>1, <2>3, <3>1, <3>2 DEF Data, RecvOther
  <2>4. QED
    BY <1>10, <2>1, <2>2, <2>3
<1>11. CASE Dispatch
  <2>1. exec' \in [Jobs -> ExecPcs]
    BY <1>1, <1>11 DEF Data, ExecPcs, Dispatch
  <2>2. sem' \in 0..MaxConcurrent
    BY <1>1, <1>11 DEF Data, Dispatch, SlotFree
  <2>3. inbox' \in Seq(Message)
    BY <1>2, <1>11, DispatchHead DEF DispatchHead, Dispatch, Consume
  <2>4. QED
    BY <1>1, <1>11, <2>1, <2>2, <2>3 DEF Data, RunPcs, Dispatch
<1>12. CASE RecvUpdateConfig
  <2>1. Head(inbox).version \in Versions
    BY <1>12, HeadAndTail, MessageFields DEF RecvUpdateConfig, Received, TypeOK
  <2>2. caps' \in Nat /\ lastApplied' \in Versions /\ applied' \in Seq(Versions)
    BY <1>12, <2>1, ApplyType DEF RecvUpdateConfig
  <2>3. QED
    BY <1>1, <1>2, <1>12, <2>2 DEF Data, RecvUpdateConfig, Received, Consume
<1>13. CASE HeartbeatStep \/ HeartbeatStalls \/ HeartbeatSent
  <2>1. CASE HeartbeatTick
    BY <1>1, <2>1 DEF Data, HeartbeatTick
  <2>2. CASE HeartbeatLock \/ HeartbeatSendFails \/ HeartbeatCtxDone
    <3>1. wire' \in {"none", "open", "ended", "finished"}
      BY <1>1, <2>2 DEF Data, HeartbeatLock, HeartbeatSendFails, HeartbeatCtxDone,
         FinishOnFail
    <3>2. CASE HeartbeatLock
      BY <1>1, <3>1, <3>2 DEF Data, HeartbeatLock
    <3>3. CASE HeartbeatSendFails
      BY <1>1, <3>1, <3>3 DEF Data, HeartbeatSendFails
    <3>4. CASE HeartbeatCtxDone
      BY <1>1, <3>1, <3>4 DEF Data, HeartbeatCtxDone
    <3>5. QED
      BY <2>2, <3>2, <3>3, <3>4
  <2>3. CASE HeartbeatStalls
    BY <1>1, <2>3 DEF Data, HeartbeatStalls
  <2>4. CASE HeartbeatSent
    BY <1>1, <2>4 DEF Data, HeartbeatSent
  <2>5. QED
    BY <1>13, <2>1, <2>2, <2>3, <2>4 DEF HeartbeatStep
<1>14. ASSUME NEW j \in Jobs, TaskReturns(j) \/ Sender(j) \/ ResultSent(j)
       PROVE  Data'
  <2>1. CASE TaskReturns(j) \/ ResultLock(j)
    <3>1. exec' \in [Jobs -> ExecPcs]
      BY <1>1, <2>1 DEF Data, ExecPcs, TaskReturns, ResultLock
    <3>2. CASE TaskReturns(j)
      BY <1>1, <3>1, <3>2 DEF Data, TaskReturns
    <3>3. CASE ResultLock(j)
      BY <1>1, <3>1, <3>3 DEF Data, ResultLock
    <3>4. QED
      BY <2>1, <3>2, <3>3
  <2>2. CASE ResultSent(j) \/ ResultLost(j)
    <3>1. sem >= 1
      BY <2>2, SlotHeld DEF ResultSent, ResultLost, InFlight
    <3>2. exec' \in [Jobs -> ExecPcs] /\ sem' \in 0..MaxConcurrent
      BY <1>1, <2>2, <3>1 DEF Data, ExecPcs, ResultSent, ResultLost, Finish
    <3>3. wire' \in {"none", "open", "ended", "finished"}
      BY <1>1, <2>2 DEF Data, ResultSent, ResultLost, FinishOnFail
    <3>4. CASE ResultSent(j)
      BY <1>1, <3>2, <3>3, <3>4 DEF Data, ResultSent
    <3>5. CASE ResultLost(j)
      BY <1>1, <3>2, <3>3, <3>5 DEF Data, ResultLost
    <3>6. QED
      BY <2>2, <3>4, <3>5
  <2>3. QED
    BY <1>14, <2>1, <2>2 DEF Sender
<1>15. CASE Server
  <2>1. \A m \in Message : Append(inbox, m) \in Seq(Message)
    BY <1>1, Appended DEF Data
  <2>2. CASE ServerAnswers
    <3>1. inbox' \in Seq(Message)
      BY <2>1, <2>2, MessageForms DEF ServerAnswers, Push
    <3>2. QED
      BY <1>1, <2>2, <3>1 DEF Data, ServerAnswers
  <2>3. CASE ServerPushesConfig \/ ServerAcks \/ ServerDismisses
    <3>1. ASSUME ServerPushesConfig PROVE inbox' \in Seq(Message)
      <4>1. PICK v \in Versions : Push([type |-> "config", version |-> v])
        BY <3>1 DEF ServerPushesConfig
      <4>2. QED
        BY <2>1, <4>1, MessageForms DEF Push
    <3>2. ASSUME ServerAcks PROVE inbox' \in Seq(Message)
      BY <2>1, <3>2, MessageForms DEF ServerAcks, Push
    <3>3. ASSUME ServerDismisses PROVE inbox' \in Seq(Message)
      BY <2>1, <3>3, MessageForms DEF ServerDismisses, Push
    <3>4. CASE ServerPushesConfig
      BY <1>1, <3>1, <3>4 DEF Data, ServerPushesConfig
    <3>5. CASE ServerAcks
      BY <1>1, <3>2, <3>5 DEF Data, ServerAcks
    <3>6. CASE ServerDismisses
      BY <1>1, <3>3, <3>6 DEF Data, ServerDismisses
    <3>7. QED
      BY <2>3, <3>4, <3>5, <3>6
  <2>4. CASE ServerSeesHalfClose \/ StreamBreaks
    <3>1. CASE ServerSeesHalfClose
      BY <1>1, <3>1 DEF Data, ServerSeesHalfClose
    <3>2. CASE StreamBreaks
      BY <1>1, <3>2 DEF Data, StreamBreaks
    <3>3. QED
      BY <2>4, <3>1, <3>2
  <2>5. ASSUME NEW c \in Commands, ServerExecutes(c) PROVE Data'
    <3>1. inbox' \in Seq(Message)
      BY <2>1, <2>5, MessageForms DEF ServerExecutes, Push
    <3>2. exec' \in [Jobs -> ExecPcs]
      BY <1>1, <2>5 DEF Data, ExecPcs, ServerExecutes
    <3>3. QED
      BY <1>1, <2>5, <3>1, <3>2 DEF Data, ServerExecutes
  <2>6. QED
    BY <1>15, <2>2, <2>3, <2>4, <2>5 DEF Server
<1>16. CASE UNCHANGED vars
  BY <1>1, <1>16 DEF Data, vars
<1>17. QED
  BY <1>3, <1>4, <1>5, <1>6, <1>7, <1>8, <1>9, <1>10, <1>11, <1>12, <1>13,
     <1>14, <1>15, <1>16 DEF Next, RunStep, RecvStep, Terminated

-----------------------------------------------------------------------------
(* The execute messages in the inbox. *)

Tracked == InboxTracked /\ InboxDistinct

\* The job of an execute message in the inbox.
LEMMA TrackedJob ==
  ASSUME TypeOK, InboxTracked, NEW i \in DOMAIN inbox, inbox[i].type = "execute"
  PROVE  <<inbox[i].cmd, cur>> \in Jobs /\ exec[<<inbox[i].cmd, cur>>] = "sent"
<1>1. inbox[i] \in Message
  BY LenProperties DEF TypeOK
<1>2. QED
  BY <1>1, MessageFields DEF InboxTracked, Jobs

\* Where inbox and stream stay, commands stay matched with the executions that wait for them.
LEMMA TrackedKept ==
  ASSUME TypeOK, Tracked, inbox' = inbox, cur' = cur,
         \A j \in Jobs : exec[j] = "sent" => exec'[j] = "sent"
  PROVE  Tracked'
<1>1. InboxTracked'
  BY TrackedJob DEF Tracked, InboxTracked
<1>2. QED
  BY <1>1 DEF Tracked, InboxDistinct

\* The head leaves, and at most its own job moves on.
LEMMA TrackedConsumed ==
  ASSUME TypeOK, Tracked, inbox # <<>>, Consume, cur' = cur,
         \A j \in Jobs :
           exec[j] = "sent" /\ (Head(inbox).type = "execute" => j # <<Head(inbox).cmd, cur>>)
             => exec'[j] = "sent"
  PROVE  Tracked'
<1>1. /\ Head(inbox) = inbox[1] /\ 1 \in DOMAIN inbox
      /\ \A i \in DOMAIN inbox' : i + 1 \in DOMAIN inbox /\ inbox'[i] = inbox[i + 1]
      /\ DOMAIN inbox' \subseteq Nat \ {0}
  <2>1. Tail(inbox) \in Seq(Message)
    BY HeadAndTail DEF TypeOK
  <2>2. DOMAIN Tail(inbox) \subseteq Nat \ {0}
    BY <2>1, LenProperties
  <2>3. QED
    BY <2>2, HeadAndTail DEF TypeOK, Consume
<1>2. ASSUME NEW i \in DOMAIN inbox', inbox'[i].type = "execute"
      PROVE  cur' \in Streams /\ exec'[<<inbox'[i].cmd, cur'>>] = "sent"
  <2>1. i + 1 \in DOMAIN inbox /\ inbox[i + 1].type = "execute" /\ i + 1 # 1
    BY <1>1, <1>2
  <2>2. <<inbox[i + 1].cmd, cur>> \in Jobs /\ exec[<<inbox[i + 1].cmd, cur>>] = "sent"
    BY <2>1, TrackedJob DEF Tracked
  <2>3. Head(inbox).type = "execute" => inbox[i + 1].cmd # Head(inbox).cmd
    BY <1>1, <2>1 DEF Tracked, InboxDistinct
  <2>4. QED
    BY <1>1, <2>1, <2>2, <2>3 DEF Tracked, InboxTracked
<1>3. InboxDistinct'
  BY <1>1 DEF Tracked, InboxDistinct
<1>4. QED
  BY <1>2, <1>3 DEF Tracked, InboxTracked

\* A message that is no execute arrives.
LEMMA TrackedPushed ==
  ASSUME TypeOK, Tracked, NEW m \in Message, m.type # "execute", Push(m),
         cur' = cur, exec' = exec
  PROVE  Tracked'
<1>1. /\ DOMAIN inbox' = DOMAIN inbox \cup {Len(inbox) + 1}
      /\ inbox'[Len(inbox) + 1] = m
      /\ \A i \in DOMAIN inbox : inbox'[i] = inbox[i]
  BY Appended DEF TypeOK, Push
<1>2. QED
  BY <1>1 DEF Tracked, InboxTracked, InboxDistinct

\* A command sent is a new one, and matched with its own execution.
LEMMA TrackedExecute ==
  ASSUME TypeOK, Tracked, OpenIsCurrent, NEW c \in Commands, ServerExecutes(c)
  PROVE  Tracked'
<1> DEFINE m == [type |-> "execute", cmd |-> c]
<1>1. m \in Message /\ cur \in Streams /\ <<c, cur>> \in Jobs /\ cur' = cur
  BY MessageForms DEF ServerExecutes, OpenIsCurrent, Jobs, serverFrame
<1>2. /\ DOMAIN inbox' = DOMAIN inbox \cup {Len(inbox) + 1}
      /\ inbox'[Len(inbox) + 1] = m
      /\ \A i \in DOMAIN inbox : inbox'[i] = inbox[i]
  BY <1>1, Appended DEF TypeOK, ServerExecutes, Push
<1>3. exec'[<<c, cur>>] = "sent" /\ \A j \in Jobs : exec[j] = "sent" => exec'[j] = "sent"
  BY <1>1 DEF ServerExecutes, TypeOK
<1>4. \A i \in DOMAIN inbox : inbox[i].type = "execute" => inbox[i].cmd # c
  BY TrackedJob DEF Tracked, ServerExecutes
<1>5. ASSUME NEW i \in DOMAIN inbox', inbox'[i].type = "execute"
      PROVE  cur' \in Streams /\ exec'[<<inbox'[i].cmd, cur'>>] = "sent"
  <2>1. CASE i \in DOMAIN inbox
    BY <1>1, <1>2, <1>3, <1>5, <2>1, TrackedJob DEF Tracked
  <2>2. CASE i = Len(inbox) + 1
    BY <1>1, <1>2, <1>3, <2>2
  <2>3. QED
    BY <1>2, <2>1, <2>2
<1>6. InboxDistinct'
  BY <1>2, <1>4 DEF Tracked, InboxDistinct
<1>7. QED
  BY <1>5, <1>6 DEF Tracked, InboxTracked

\* Every step keeps inbox and executions matched.
LEMMA TrackedStep ==
  ASSUME TypeOK, Tracked, DispatchHead, OpenIsCurrent, [Next]_vars
  PROVE  Tracked'
<1> USE DEF clientVars, procVars, wireVars, peerVars, sessionVars, execFrame, serverFrame
<1>1. CASE Register \/ Signal \/ Main
  BY <1>1, TrackedKept DEF Register, Signal, Main, RegisterReturns, CloseCancel,
     CloseCloseSend, CloseWait
<1>2. CASE RunTop \/ ConnectFails \/ SendRegister \/ StartSession \/ Join \/ Backoff
  BY <1>2, TrackedKept DEF RunTop, ConnectFails, SendRegister, StartSession, Join, Backoff
<1>3. CASE ConnectOpens
  BY <1>3 DEF ConnectOpens, Tracked, InboxTracked, InboxDistinct
<1>4. CASE AwaitFails
  BY <1>4, TrackedKept, TrackedConsumed DEF AwaitFails
<1>5. CASE AwaitRejected \/ AwaitRegistered
  BY <1>5, TrackedConsumed DEF AwaitRejected, AwaitRegistered
<1>6. CASE RecvFailed \/ RecvExecute \/ Drain
  BY <1>6, TrackedKept DEF RecvFailed, RecvExecute, Drain
<1>7. CASE RecvDisconnect \/ RecvAck \/ RecvOther \/ RecvUpdateConfig
  <2>1. inbox # <<>> /\ Consume /\ cur' = cur /\ exec' = exec
    BY <1>7 DEF RecvDisconnect, RecvAck, RecvOther, RecvUpdateConfig, Received
  <2>2. QED
    BY <2>1, TrackedConsumed
<1>8. CASE Dispatch
  <2>1. inbox # <<>> /\ Head(inbox).type = "execute"
    BY <1>8 DEF Dispatch, DispatchHead
  <2>2. \A j \in Jobs : exec[j] = "sent" /\ j # <<Head(inbox).cmd, cur>> => exec'[j] = "sent"
    BY <1>8 DEF Dispatch, TypeOK
  <2>3. QED
    BY <1>8, <2>1, <2>2, TrackedConsumed DEF Dispatch
<1>9. CASE HeartbeatStep \/ HeartbeatStalls \/ HeartbeatSent
  BY <1>9, TrackedKept DEF HeartbeatStep, HeartbeatStalls, HeartbeatSent,
     HeartbeatTick, HeartbeatLock, HeartbeatSendFails, HeartbeatCtxDone
<1>10. ASSUME NEW j \in Jobs, TaskReturns(j) \/ Sender(j) \/ ResultSent(j)
       PROVE  Tracked'
  <2>1. \A k \in Jobs : exec[k] = "sent" => exec'[k] = "sent"
    BY <1>10 DEF TaskReturns, Sender, ResultSent, ResultLock, ResultLost, Finish, TypeOK
  <2>2. inbox' = inbox /\ cur' = cur
    BY <1>10 DEF TaskReturns, Sender, ResultSent, ResultLock, ResultLost
  <2>3. QED
    BY <2>1, <2>2, TrackedKept
<1>11. CASE Server
  <2>1. CASE ServerAnswers
    <3>1. PICK m \in Message : m.type # "execute" /\ Push(m)
      BY <2>1, MessageForms DEF ServerAnswers
    <3>2. QED
      BY <2>1, <3>1, TrackedPushed DEF ServerAnswers
  <2>2. CASE ServerPushesConfig \/ ServerAcks
    <3>1. PICK m \in Message : m.type # "execute" /\ Push(m)
      BY <2>2, MessageForms DEF ServerPushesConfig, ServerAcks
    <3>2. QED
      BY <2>2, <3>1, TrackedPushed DEF ServerPushesConfig, ServerAcks
  <2>3. CASE ServerDismisses
    <3>1. PICK m \in Message : m.type # "execute" /\ Push(m)
      BY <2>3, MessageForms DEF ServerDismisses
    <3>2. QED
      BY <2>3, <3>1, TrackedPushed DEF ServerDismisses
  <2>4. CASE ServerSeesHalfClose \/ StreamBreaks
    BY <2>4, TrackedKept DEF ServerSeesHalfClose, StreamBreaks
  <2>5. QED
    BY <1>11, <2>1, <2>2, <2>3, <2>4, TrackedExecute DEF Server
<1>12. CASE UNCHANGED vars
  BY <1>12, TrackedKept DEF vars
<1>13. QED
  BY <1>1, <1>2, <1>3, <1>4, <1>5, <1>6, <1>7, <1>8, <1>9, <1>10, <1>11, <1>12
     DEF Next, RunStep, RecvStep, Terminated

\* The run goroutine dispatches the command at the head of the inbox (client.go:534).
LEMMA DispatchHeadStep ==
  ASSUME TypeOK, DispatchHead, [Next]_vars
  PROVE  DispatchHead'
<1> USE DEF clientVars, procVars, wireVars, peerVars, sessionVars, execFrame, serverFrame
<1>1. CASE RunStep \/ ConnectOpens
  BY <1>1 DEF DispatchHead, RunStep, ConnectOpens, RunTop, ConnectFails, SendRegister,
     AwaitFails, AwaitRejected, AwaitRegistered, StartSession, Join, Backoff,
     GiveUp, ReturnToRun
<1>2. CASE RecvStep
  BY <1>2 DEF DispatchHead, RecvStep, RecvFailed, RecvExecute, Dispatch,
     RecvUpdateConfig, RecvDisconnect, Drain, RecvAck, RecvOther, Received
<1>3. CASE Register
  BY <1>3 DEF DispatchHead, Register
<1>4. CASE Signal \/ Main
  BY <1>4 DEF DispatchHead, Signal, Main, RegisterReturns, CloseCancel,
     CloseCloseSend, CloseWait
<1>5. CASE HeartbeatStep \/ HeartbeatStalls \/ HeartbeatSent
  BY <1>5 DEF DispatchHead, HeartbeatStep, HeartbeatStalls, HeartbeatSent,
     HeartbeatTick, HeartbeatLock, HeartbeatSendFails, HeartbeatCtxDone
<1>6. ASSUME NEW j \in Jobs, TaskReturns(j) \/ Sender(j) \/ ResultSent(j)
      PROVE  DispatchHead'
  BY <1>6 DEF DispatchHead, TaskReturns, Sender, ResultSent, ResultLock, ResultLost
<1>7. CASE Server
  <2>1. runPc' = runPc
    BY <1>7 DEF Server, ServerAnswers, ServerExecutes, ServerPushesConfig, ServerAcks,
       ServerDismisses, ServerSeesHalfClose, StreamBreaks
  <2>2. inbox' = inbox \/ \E m \in Message : Push(m)
    BY <1>7, MessageForms DEF Server, ServerAnswers, ServerExecutes,
       ServerPushesConfig, ServerAcks, ServerDismisses, ServerSeesHalfClose, StreamBreaks
  <2>3. \A m \in Message : Push(m) /\ inbox # <<>> =>
          inbox' # <<>> /\ Head(inbox') = Head(inbox)
    <3> SUFFICES ASSUME NEW m \in Message, Push(m), inbox # <<>>
                 PROVE  inbox' # <<>> /\ Head(inbox') = Head(inbox)
      OBVIOUS
    <3>1. inbox' \in Seq(Message) /\ 1 \in DOMAIN inbox /\ 1 \in DOMAIN inbox'
          /\ inbox'[1] = inbox[1]
      BY Appended, HeadAndTail DEF TypeOK, Push
    <3>2. inbox' # <<>>
      BY <3>1
    <3>3. QED
      BY <3>1, <3>2, HeadAndTail DEF TypeOK
  <2>4. QED
    BY <2>1, <2>2, <2>3 DEF DispatchHead
<1>8. CASE UNCHANGED vars
  BY <1>8 DEF DispatchHead, vars
<1>9. QED
  BY <1>1, <1>2, <1>3, <1>4, <1>5, <1>6, <1>7, <1>8 DEF Next, Terminated

\* Only the newest stream is open.
LEMMA OpenIsCurrentStep ==
  ASSUME TypeOK, OpenIsCurrent, [Next]_vars
  PROVE  OpenIsCurrent'
<1> USE DEF OpenIsCurrent, clientVars, procVars, wireVars, peerVars, sessionVars,
            execFrame, serverFrame
<1>1. CASE ConnectOpens
  BY <1>1, ClientAssumption DEF ConnectOpens, TypeOK, Streams
<1>2. CASE RunStep
  BY <1>2 DEF RunStep, RunTop, ConnectFails, SendRegister, AwaitFails, AwaitRejected,
     AwaitRegistered, StartSession, Join, Backoff, GiveUp
<1>3. CASE RecvStep
  BY <1>3 DEF RecvStep, RecvFailed, RecvExecute, Dispatch, RecvUpdateConfig,
     RecvDisconnect, Drain, RecvAck, RecvOther
<1>4. CASE Register \/ Signal \/ Main
  BY <1>4 DEF Register, Signal, Main, RegisterReturns, CloseCancel, CloseCloseSend,
     CloseWait
<1>5. CASE HeartbeatStep \/ HeartbeatStalls \/ HeartbeatSent
  BY <1>5 DEF HeartbeatStep, HeartbeatStalls, HeartbeatSent, HeartbeatTick,
     HeartbeatLock, HeartbeatSendFails, HeartbeatCtxDone, FinishOnFail
<1>6. ASSUME NEW j \in Jobs, TaskReturns(j) \/ Sender(j) \/ ResultSent(j)
      PROVE  OpenIsCurrent'
  BY <1>6 DEF TaskReturns, Sender, ResultSent, ResultLock, ResultLost, FinishOnFail
<1>7. CASE Server
  BY <1>7 DEF Server, ServerAnswers, ServerExecutes, ServerPushesConfig, ServerAcks,
     ServerDismisses, ServerSeesHalfClose, StreamBreaks
<1>8. CASE UNCHANGED vars
  BY <1>8 DEF vars
<1>9. QED
  BY <1>1, <1>2, <1>3, <1>4, <1>5, <1>6, <1>7, <1>8 DEF Next, Terminated

-----------------------------------------------------------------------------
(* The semaphore. *)

\* Steps that touch neither executions nor slots.
LEMMA SemaphoreKept ==
  ASSUME SemaphoreExact, InFlight' = InFlight, sem' = sem
  PROVE  SemaphoreExact'
BY DEF SemaphoreExact

\* A slot taken for a job that had no executor.
LEMMA SemaphoreTaken ==
  ASSUME TypeOK, SemaphoreExact, NEW j \in Jobs, exec[j] = "sent",
         exec' = [exec EXCEPT ![j] = "running"], sem' = sem + 1
  PROVE  SemaphoreExact'
<1>1. InFlight' = InFlight \cup {j} /\ j \notin InFlight
  BY DEF InFlight, TypeOK
<1>2. Cardinality(InFlight') = Cardinality(InFlight) + 1
  BY <1>1, InFlightFinite, FS_AddElement
<1>3. QED
  BY <1>2 DEF SemaphoreExact

\* A slot given back by an executor that ends.
LEMMA SemaphoreReturned ==
  ASSUME TypeOK, SemaphoreExact, NEW j \in InFlight,
         NEW fate \in {"delivered", "lost"}, Finish(j, fate)
  PROVE  SemaphoreExact'
<1>1. InFlight' = InFlight \ {j}
  BY DEF InFlight, TypeOK, Finish
<1>2. Cardinality(InFlight') = Cardinality(InFlight) - 1
  BY <1>1, InFlightFinite, FS_RemoveElement
<1>3. QED
  BY <1>2 DEF SemaphoreExact, Finish

\* Every step keeps slots and executions in agreement: dispatch takes one, and whatever
\* becomes of the result its executor gives it back (client.go:542).
LEMMA SemaphoreStep ==
  ASSUME TypeOK, SemaphoreExact, InboxTracked, DispatchHead, OpenIsCurrent,
         [Next]_vars
  PROVE  SemaphoreExact'
<1> USE DEF clientVars, procVars, wireVars, peerVars, sessionVars, execFrame, serverFrame
<1>1. ASSUME exec' = exec, sem' = sem PROVE SemaphoreExact'
  BY <1>1, SemaphoreKept DEF InFlight
<1>2. CASE Register \/ Signal \/ Main
  BY <1>1, <1>2 DEF Register, Signal, Main, RegisterReturns, CloseCancel,
     CloseCloseSend, CloseWait
<1>3. CASE RunStep \/ ConnectOpens
  BY <1>1, <1>3 DEF RunStep, ConnectOpens, RunTop, ConnectFails, SendRegister,
     AwaitFails, AwaitRejected, AwaitRegistered, StartSession, Join, Backoff
<1>4. CASE RecvStep /\ ~Dispatch
  BY <1>1, <1>4 DEF RecvStep, RecvFailed, RecvExecute, RecvUpdateConfig,
     RecvDisconnect, Drain, RecvAck, RecvOther
<1>5. CASE Dispatch
  <2> DEFINE j == <<Head(inbox).cmd, cur>>
  <2>1. j \in Jobs /\ exec[j] = "sent"
    <3>1. inbox # <<>> /\ Head(inbox).type = "execute"
      BY <1>5 DEF Dispatch, DispatchHead
    <3>2. 1 \in DOMAIN inbox /\ inbox[1] = Head(inbox)
      BY <3>1, HeadAndTail DEF TypeOK
    <3>3. QED
      BY <3>1, <3>2, TrackedJob
  <2>2. CASE exec' = [exec EXCEPT ![j] = "running"] /\ sem' = sem + 1
    BY <2>1, <2>2, SemaphoreTaken
  <2>3. CASE exec' = [exec EXCEPT ![j] = "dropped"] /\ sem' = sem
    <3>1. InFlight' = InFlight
      BY <2>1, <2>3 DEF InFlight, TypeOK
    <3>2. QED
      BY <2>3, <3>1, SemaphoreKept
  <2>4. QED
    BY <1>5, <2>2, <2>3 DEF Dispatch
<1>6. CASE HeartbeatStep \/ HeartbeatStalls \/ HeartbeatSent
  BY <1>1, <1>6 DEF HeartbeatStep, HeartbeatStalls, HeartbeatSent, HeartbeatTick,
     HeartbeatLock, HeartbeatSendFails, HeartbeatCtxDone
<1>7. ASSUME NEW j \in Jobs, TaskReturns(j) \/ Sender(j) \/ ResultSent(j)
      PROVE  SemaphoreExact'
  <2>1. j \in InFlight
    BY <1>7 DEF InFlight, TaskReturns, Sender, ResultLock, ResultLost, ResultSent
  <2>2. CASE TaskReturns(j) \/ ResultLock(j)
    <3>1. InFlight' = InFlight /\ sem' = sem
      BY <2>1, <2>2 DEF InFlight, TypeOK, TaskReturns, ResultLock
    <3>2. QED
      BY <3>1, SemaphoreKept
  <2>3. CASE ResultSent(j) \/ ResultLost(j)
    BY <2>1, <2>3, SemaphoreReturned DEF ResultSent, ResultLost
  <2>4. QED
    BY <1>7, <2>2, <2>3 DEF Sender
<1>8. ASSUME NEW c \in Commands, ServerExecutes(c) PROVE SemaphoreExact'
  <2>1. InFlight' = InFlight /\ sem' = sem
    BY <1>8 DEF InFlight, TypeOK, ServerExecutes
  <2>2. QED
    BY <2>1, SemaphoreKept
<1>9. CASE Server
  BY <1>1, <1>8, <1>9 DEF Server, ServerAnswers, ServerPushesConfig, ServerAcks,
     ServerDismisses, ServerSeesHalfClose, StreamBreaks
<1>10. CASE UNCHANGED vars
  BY <1>1, <1>10 DEF vars
<1>11. QED
  BY <1>2, <1>3, <1>4, <1>5, <1>6, <1>7, <1>9, <1>10 DEF Next, RecvStep, Terminated

-----------------------------------------------------------------------------
(* The order of the configs. *)

\* The handler appends a version above all it was given before.
LEMMA ConfigApplied ==
  ASSUME TypeOK, AppliedBelow, ConfigOrder, NEW v \in Versions, NEW b \in BOOLEAN,
         applyUpdateConfig(v, b)
  PROVE  AppliedBelow' /\ ConfigOrder'
<1>1. lastApplied \in Nat /\ v \in Nat /\ \A w \in Versions : w \in Nat
  BY ClientAssumption DEF TypeOK, Versions
<1>2. CASE applied' = applied /\ lastApplied' = lastApplied
  BY <1>2 DEF AppliedBelow, ConfigOrder
<1>3. CASE v > lastApplied /\ applied' = Append(applied, v) /\ lastApplied' = v
  <2>1. /\ DOMAIN applied = 1..Len(applied) /\ Len(applied) \in Nat
        /\ DOMAIN applied' = 1..(Len(applied) + 1)
        /\ \A i \in DOMAIN applied : applied'[i] = applied[i]
        /\ applied'[Len(applied) + 1] = v
    BY <1>3, Appended DEF TypeOK
  <2>2. \A i \in DOMAIN applied : applied[i] \in Nat
    BY <1>1, ElementOfSeq, <2>1 DEF TypeOK
  <2>3. \A i \in DOMAIN applied : applied[i] < v
    BY <1>1, <1>3, <2>2 DEF AppliedBelow
  <2>4. AppliedBelow'
    BY <1>1, <1>3, <2>1, <2>2, <2>3 DEF AppliedBelow
  <2>5. ConfigOrder'
    BY <2>1, <2>3 DEF ConfigOrder
  <2>6. QED
    BY <2>4, <2>5
<1>4. QED
  BY <1>1, <1>2, <1>3 DEF applyUpdateConfig, Handle, Stale

\* A config that has a version takes effect only above the last one (client.go:772).
LEMMA ConfigStep ==
  ASSUME TypeOK, AppliedBelow, ConfigOrder, [Next]_vars
  PROVE  AppliedBelow' /\ ConfigOrder'
<1> USE DEF clientVars, procVars, wireVars, peerVars, sessionVars, execFrame, serverFrame
<1>1. ASSUME applied' = applied, lastApplied' = lastApplied
      PROVE  AppliedBelow' /\ ConfigOrder'
  BY <1>1 DEF AppliedBelow, ConfigOrder
<1>2. CASE Register \/ Signal \/ Main
  BY <1>1, <1>2 DEF Register, Signal, Main, RegisterReturns, CloseCancel,
     CloseCloseSend, CloseWait
<1>3. CASE AwaitRegistered
  <2>1. Head(inbox).eff = NoConfig \/ Head(inbox).eff \in Versions
    BY <1>3, HeadAndTail, MessageFields, ClientAssumption
       DEF AwaitRegistered, TypeOK, NoConfig, Versions
  <2>2. QED
    BY <1>1, <1>3, <2>1, ConfigApplied, ClientAssumption DEF AwaitRegistered
<1>4. CASE (RunStep /\ ~AwaitRegistered) \/ ConnectOpens
  BY <1>1, <1>4 DEF RunStep, ConnectOpens, RunTop, ConnectFails, SendRegister,
     AwaitFails, AwaitRejected, StartSession, Join, Backoff
<1>5. CASE RecvUpdateConfig
  <2>1. Head(inbox).version \in Versions
    BY <1>5, HeadAndTail, MessageFields DEF RecvUpdateConfig, Received, TypeOK
  <2>2. QED
    BY <1>5, <2>1, ConfigApplied DEF RecvUpdateConfig
<1>6. CASE RecvStep /\ ~RecvUpdateConfig
  BY <1>1, <1>6 DEF RecvStep, RecvFailed, RecvExecute, Dispatch, RecvDisconnect,
     Drain, RecvAck, RecvOther
<1>7. CASE HeartbeatStep \/ HeartbeatStalls \/ HeartbeatSent
  BY <1>1, <1>7 DEF HeartbeatStep, HeartbeatStalls, HeartbeatSent, HeartbeatTick,
     HeartbeatLock, HeartbeatSendFails, HeartbeatCtxDone
<1>8. ASSUME NEW j \in Jobs, TaskReturns(j) \/ Sender(j) \/ ResultSent(j)
      PROVE  AppliedBelow' /\ ConfigOrder'
  BY <1>1, <1>8 DEF TaskReturns, Sender, ResultLock, ResultLost, ResultSent
<1>9. CASE Server
  BY <1>1, <1>9 DEF Server, ServerAnswers, ServerExecutes, ServerPushesConfig,
     ServerAcks, ServerDismisses, ServerSeesHalfClose, StreamBreaks
<1>10. CASE UNCHANGED vars
  BY <1>1, <1>10 DEF vars
<1>11. QED
  BY <1>2, <1>3, <1>4, <1>5, <1>6, <1>7, <1>8, <1>9, <1>10 DEF Next, Terminated

-----------------------------------------------------------------------------
(* The invariant and what follows from it. *)

\* A new client satisfies the invariant.
LEMMA InvInit == Init => IInv
<1> SUFFICES ASSUME Init PROVE IInv
  OBVIOUS
<1>1. TypeOK
  BY TypeInit
<1>2. SemaphoreExact
  <2>1. InFlight = {}
    BY DEF Init, InFlight
  <2>2. QED
    BY <2>1, FS_EmptySet DEF Init, SemaphoreExact
<1>3. inbox = <<>> /\ applied = <<>> /\ DOMAIN <<>> = {}
  BY DEF Init
<1>4. QED
  BY <1>1, <1>2, <1>3 DEF Init, IInv, InboxTracked, InboxDistinct, DispatchHead,
     OpenIsCurrent, AppliedBelow, ConfigOrder

\* Every step keeps the invariant.
LEMMA InvStep == IInv /\ [Next]_vars => IInv'
<1> SUFFICES ASSUME IInv, [Next]_vars PROVE IInv'
  OBVIOUS
<1>1. TypeOK'
  BY FlagsStep, DataStep, TypePartsPrime DEF IInv
<1>2. SemaphoreExact'
  BY SemaphoreStep DEF IInv
<1>3. InboxTracked' /\ InboxDistinct'
  BY TrackedStep DEF IInv, Tracked
<1>4. DispatchHead' /\ OpenIsCurrent'
  BY DispatchHeadStep, OpenIsCurrentStep DEF IInv
<1>5. AppliedBelow' /\ ConfigOrder'
  BY ConfigStep DEF IInv
<1>6. QED
  BY <1>1, <1>2, <1>3, <1>4, <1>5 DEF IInv

\* Every behaviour of the client and its control plane keeps the invariant.
LEMMA Invariance == Spec => []IInv
BY InvInit, InvStep, PTL DEF Spec

\* The client's fields, goroutines and streams stay in their domains; in
\* particular the semaphore's length never leaves 0..max_concurrent_requests,
\* whatever number of streams, commands and messages (dispatchCapabilityExecution).
THEOREM TypeCorrect == Spec => []TypeOK
<1>1. IInv => TypeOK
  BY DEF IInv
<1>2. QED
  BY Invariance, <1>1, PTL

\* The semaphore holds one slot per executor goroutine alive, of any stream: the
\* executors of a dead stream give theirs back once and only once.
THEOREM SemaphoreCorrect == Spec => []SemaphoreExact
<1>1. IInv => SemaphoreExact
  BY DEF IInv
<1>2. QED
  BY Invariance, <1>1, PTL

\* Whatever versions the control plane sends, in Registered or in UpdateConfig and
\* over any number of reconnections, the handler sees them strictly increase
\* (applyUpdateConfig).
THEOREM ConfigOrderCorrect == Spec => []ConfigOrder
<1>1. IInv => ConfigOrder
  BY DEF IInv
<1>2. QED
  BY Invariance, <1>1, PTL

-----------------------------------------------------------------------------
(* Where connectOnce is, and what may then be open. *)

InSession == {"recv", "dispatch", "drain", "join"}

SessionOpen ==
  /\ stream # 0 => runPc \in InSession
  /\ hbPc \in {"send", "sending", "wait"} => runPc \in InSession
  /\ wire \in {"open", "ended"} => runPc \in InSession \cup {"register", "await", "setup"}
  /\ mainPc = "init" => runPc = "idle"
  /\ mainPc = "exited" => runPc = "done"

GivenUp == permanent => runPc \in {"join", "done"}

\* Every step of the goroutines and of the peer keeps what is open within the
\* part of connectOnce that owns it.
LEMMA SessionOpenStep ==
  ASSUME TypeOK, SessionOpen, [Next]_vars
  PROVE  SessionOpen'
<1> USE DEF SessionOpen, InSession, clientVars, procVars, wireVars, peerVars,
            sessionVars, execFrame, serverFrame
<1>1. CASE Register \/ Signal \/ Main
  BY <1>1 DEF Register, Signal, Main, RegisterReturns, CloseCancel, CloseCloseSend,
     CloseWait
<1>2. CASE RunTop \/ ConnectFails \/ SendRegister \/ StartSession \/ Join \/ Backoff
  BY <1>2 DEF RunTop, ConnectFails, SendRegister, StartSession, Join, Backoff,
     GiveUp, ReturnToRun
<1>3. CASE ConnectOpens
  BY <1>3 DEF ConnectOpens
<1>4. CASE AwaitFails \/ AwaitRejected
  BY <1>4 DEF AwaitFails, AwaitRejected, GiveUp, ReturnToRun
<1>5. CASE AwaitRegistered
  BY <1>5 DEF AwaitRegistered
<1>6. CASE RecvStep
  BY <1>6 DEF RecvStep, RecvFailed, RecvExecute, Dispatch, RecvUpdateConfig,
     RecvDisconnect, Drain, RecvAck, RecvOther, Received
<1>7. CASE HeartbeatStep \/ HeartbeatStalls \/ HeartbeatSent
  BY <1>7 DEF HeartbeatStep, HeartbeatStalls, HeartbeatSent, HeartbeatTick,
     HeartbeatLock, HeartbeatSendFails, HeartbeatCtxDone, FinishOnFail
<1>8. ASSUME NEW j \in Jobs, TaskReturns(j) \/ Sender(j) \/ ResultSent(j)
      PROVE  SessionOpen'
  BY <1>8 DEF TaskReturns, Sender, ResultSent, ResultLock, ResultLost, FinishOnFail
<1>9. CASE Server
  BY <1>9 DEF Server, ServerAnswers, ServerExecutes, ServerPushesConfig, ServerAcks,
     ServerDismisses, ServerSeesHalfClose, StreamBreaks
<1>10. CASE UNCHANGED vars
  BY <1>10 DEF vars
<1>11. QED
  BY <1>1, <1>2, <1>3, <1>4, <1>5, <1>6, <1>7, <1>8, <1>9, <1>10
     DEF Next, RunStep, Terminated

\* A permanent rejection leaves nothing for run to do but end the session.
LEMMA GivenUpStep ==
  ASSUME TypeOK, SessionOpen, GivenUp, [Next]_vars
  PROVE  GivenUp'
<1> USE DEF clientVars, procVars, wireVars, peerVars, sessionVars, execFrame, serverFrame
<1>1. CASE Register
  BY <1>1 DEF Register, SessionOpen, GivenUp
<1>2. CASE Signal \/ Main
  BY <1>2, Zenon DEF GivenUp, Signal, Main, RegisterReturns, CloseCancel,
     CloseCloseSend, CloseWait
<1>3. CASE RunTop \/ ConnectFails \/ SendRegister \/ StartSession \/ Backoff
  BY <1>3 DEF GivenUp, RunTop, ConnectFails, SendRegister, StartSession, Backoff,
     GiveUp, ReturnToRun
<1>4. CASE AwaitFails \/ AwaitRejected \/ Join
  BY <1>4 DEF GivenUp, AwaitFails, AwaitRejected, Join, GiveUp, ReturnToRun
<1>5. CASE AwaitRegistered \/ ConnectOpens
  BY <1>5 DEF GivenUp, AwaitRegistered, ConnectOpens
<1>6. CASE RecvFailed \/ RecvExecute \/ Dispatch \/ RecvUpdateConfig \/ Drain \/ RecvAck
  BY <1>6 DEF GivenUp, RecvFailed, RecvExecute, Dispatch, RecvUpdateConfig, Drain,
     RecvAck, Received
<1>7. CASE RecvDisconnect \/ RecvOther
  BY <1>7 DEF GivenUp, RecvDisconnect, RecvOther, Received
<1>8. CASE HeartbeatStep \/ HeartbeatStalls \/ HeartbeatSent
  BY <1>8, Zenon DEF GivenUp, HeartbeatStep, HeartbeatStalls, HeartbeatSent,
     HeartbeatTick, HeartbeatLock, HeartbeatSendFails, HeartbeatCtxDone
<1>9. ASSUME NEW j \in Jobs, TaskReturns(j) \/ Sender(j) \/ ResultSent(j)
      PROVE  GivenUp'
  BY <1>9, Zenon DEF GivenUp, TaskReturns, Sender, ResultSent, ResultLock, ResultLost
<1>10. CASE Server
  BY <1>10, Zenon DEF GivenUp, Server, ServerAnswers, ServerExecutes,
     ServerPushesConfig, ServerAcks, ServerDismisses, ServerSeesHalfClose, StreamBreaks
<1>11. CASE UNCHANGED vars
  BY <1>11, Zenon DEF GivenUp, vars
<1>12. QED
  BY <1>1, <1>2, <1>3, <1>4, <1>5, <1>6, <1>7, <1>8, <1>9, <1>10, <1>11
     DEF Next, RunStep, RecvStep, Terminated

\* The control structure of the client, as an invariant.
LEMMA Sessions == Spec => [](TypeOK /\ SessionOpen /\ GivenUp)
<1>1. Init => SessionOpen /\ GivenUp
  BY DEF Init, SessionOpen, GivenUp
<1>2. TypeOK /\ SessionOpen /\ GivenUp /\ [Next]_vars => SessionOpen' /\ GivenUp'
  BY SessionOpenStep, GivenUpStep
<1>3. QED
  BY TypeCorrect, <1>1, <1>2, PTL DEF Spec

\* When Close returns, the run goroutine has closed what it opened: no published
\* stream, no gRPC stream and no heartbeat loop survive.  Of executors, which Close
\* does not wait for, nothing is said: some may still run (Close, connectOnce).
THEOREM CloseCorrect == Spec => []CloseLeavesNothing
<1>1. TypeOK /\ SessionOpen => CloseLeavesNothing
  BY DEF TypeOK, SessionOpen, InSession, CloseLeavesNothing
<1>2. QED
  BY Sessions, <1>1, PTL

\* A permanent rejection is the last word of a client, whatever it was doing when
\* it came: it opens no further stream and registers no more (run).
THEOREM PermanentCorrect == Spec => NoRetryAfterPermanent
<1>1. GivenUp /\ [Next]_vars => [permanent => cur' = cur /\ manifest' = manifest]_vars
  <2> SUFFICES ASSUME GivenUp, Next, permanent
               PROVE  cur' = cur /\ manifest' = manifest
    BY Zenon
  <2> USE DEF clientVars, procVars, wireVars, peerVars, sessionVars, execFrame, serverFrame
  <2>1. ~ConnectOpens /\ ~SendRegister
    BY DEF GivenUp, ConnectOpens, SendRegister
  <2>2. CASE Register \/ Signal \/ Main
    BY <2>2, Zenon DEF Register, Signal, Main, RegisterReturns, CloseCancel,
       CloseCloseSend, CloseWait
  <2>3. CASE RunStep
    BY <2>1, <2>3, Zenon DEF RunStep, RunTop, ConnectFails, AwaitFails, AwaitRejected,
       AwaitRegistered, StartSession, Join, Backoff
  <2>4. CASE RecvStep
    BY <2>4, Zenon DEF RecvStep, RecvFailed, RecvExecute, Dispatch, RecvUpdateConfig,
       RecvDisconnect, Drain, RecvAck, RecvOther
  <2>5. CASE HeartbeatStep \/ HeartbeatStalls \/ HeartbeatSent
    BY <2>5, Zenon DEF HeartbeatStep, HeartbeatStalls, HeartbeatSent, HeartbeatTick,
       HeartbeatLock, HeartbeatSendFails, HeartbeatCtxDone
  <2>6. ASSUME NEW j \in Jobs, TaskReturns(j) \/ Sender(j) \/ ResultSent(j)
        PROVE  cur' = cur /\ manifest' = manifest
    BY <2>6, Zenon DEF TaskReturns, Sender, ResultSent, ResultLock, ResultLost
  <2>7. CASE Server
    BY <2>7, Zenon DEF Server, ServerAnswers, ServerExecutes, ServerPushesConfig,
       ServerAcks, ServerDismisses, ServerSeesHalfClose, StreamBreaks
  <2>8. CASE UNCHANGED vars
    BY <2>8, Zenon DEF vars
  <2>9. QED
    BY <2>1, <2>2, <2>3, <2>4, <2>5, <2>6, <2>7, <2>8, Zenon DEF Next, Terminated
<1>2. QED
  BY Sessions, <1>1, PTL DEF Spec, NoRetryAfterPermanent
=============================================================================

------------------------- MODULE ControlPlaneClient -------------------------
(***************************************************************************)
(* internal/controlplane/client.go: the agent's gRPC session with the      *)
(* control plane, as it is driven by cmd/marvin/main.go.                   *)
(*                                                                         *)
(* Goroutines: main (Register, wait for a signal, Close), run (connectOnce *)
(* and recvLoop), one heartbeatLoop per session, and one executor per      *)
(* accepted command.  They share the Client's fields, the semaphore, the   *)
(* send mutex and the current gRPC stream; the control plane and the       *)
(* network are the environment.  sendMu is held exactly by the goroutine   *)
(* whose program counter is "sending".                                     *)
(***************************************************************************)
EXTENDS Integers, Sequences, FiniteSets

CONSTANTS
  Commands,       \* command ids the control plane may send (once per stream)
  MaxConcurrent,  \* cap(concurrencySem)
  AckWindow,      \* ticks after which a missing ack may be noticed
  EffectiveMayChange, \* may the config in Registered change the manifest?
  MaxStreams,     \* bound: streams opened; the last one is not disturbed
  MaxInbox,       \* bound: control messages in flight
  MaxVersion,     \* bound: config versions
  MaxPushes       \* bound: UpdateConfig messages sent

ASSUME ClientAssumption ==
  /\ IsFiniteSet(Commands)
  /\ MaxConcurrent \in Nat \ {0}
  /\ AckWindow \in Nat \ {0}
  /\ EffectiveMayChange \in BOOLEAN
  /\ MaxStreams \in Nat \ {0}
  /\ MaxInbox \in Nat \ {0}
  /\ MaxVersion \in Nat
  /\ MaxPushes \in Nat

Streams  == 1..MaxStreams
Versions == 0..MaxVersion
NoConfig == MaxVersion + 1       \* Registered without an effective_config
Jobs     == Commands \X Streams  \* a command as received on one stream

Message ==
       [type : {"execute"}, cmd : Commands]
  \cup [type : {"config"}, version : Versions]
  \cup [type : {"registered"}, eff : 0..NoConfig]
  \cup [type : {"rejected"}, permanent : BOOLEAN]
  \cup [type : {"disconnect"}, graceful : BOOLEAN]
  \cup [type : {"ack", "other"}]

VARIABLES
  \* fields of Client
  stream,       \* c.stream: the session's stream, 0 for nil
  caps,         \* c.regState.capabilities, the manifest's generation
  lastApplied,  \* c.lastAppliedVersion
  sem,          \* len(c.concurrencySem)
  ackAge,       \* heartbeat ticks since c.lastHeartbeatAck
  \* goroutines
  mainPc, runPc, hbPc,
  exec,         \* per job: where its executor is, and what became of it
  cancelled,    \* the run context is done
  first,        \* what reportFirst has sent
  permanent,    \* connectOnce returned (or will return) a permanent rejection
  graceful,     \* recvLoop is returning after a graceful Disconnect
  \* the current gRPC stream
  cur,          \* number of the stream connectOnce opened last
  wire,         \* its state
  halfClosed,   \* CloseSend was called on it
  raced,        \* ... while another goroutine was inside Send
  inbox,        \* control messages not yet handled (runPc = "dispatch": its head is)
  \* the control plane
  peer,         \* its end of the current stream
  manifest,     \* the manifest in the last Register message
  advertised,   \* the manifest of the last accepted registration
  beat,         \* a heartbeat it has not acknowledged
  pushes,       \* UpdateConfig messages sent
  \* history
  applied       \* positive versions handed to updateConfigHandler, in order

clientVars == <<stream, caps, lastApplied, sem, ackAge>>
procVars   == <<mainPc, runPc, hbPc, exec, cancelled, first, permanent, graceful>>
wireVars   == <<cur, wire, halfClosed, raced, inbox>>
peerVars   == <<peer, manifest, advertised, beat, pushes>>
vars       == <<clientVars, procVars, wireVars, peerVars, applied>>

RunPcs  == {"idle", "top", "connect", "register", "await", "setup", "recv",
            "dispatch", "drain", "join", "backoff", "done"}
ExecPcs == {"idle", "sent", "running", "send", "sending",
            "delivered", "lost", "dropped"}

TypeOK ==
  /\ stream \in 0..MaxStreams
  /\ caps \in Nat
  /\ lastApplied \in Versions
  /\ sem \in 0..MaxConcurrent
  /\ ackAge \in 0..(AckWindow + 1)
  /\ mainPc \in {"init", "registering", "serving", "closing", "closeSend",
                 "closeWait", "exited"}
  /\ runPc \in RunPcs
  /\ hbPc \in {"none", "send", "sending", "wait", "exited"}
  /\ exec \in [Jobs -> ExecPcs]
  /\ cancelled \in BOOLEAN
  /\ first \in {"none", "ok", "err"}
  /\ permanent \in BOOLEAN
  /\ graceful \in BOOLEAN
  /\ cur \in 0..MaxStreams
  /\ wire \in {"none", "open", "ended", "finished"}
  /\ halfClosed \in BOOLEAN
  /\ raced \in BOOLEAN
  /\ inbox \in Seq(Message)
  /\ peer \in {"idle", "hello", "serving", "ended"}
  /\ manifest \in Nat
  /\ advertised \in Nat
  /\ beat \in BOOLEAN
  /\ pushes \in 0..MaxPushes
  /\ applied \in Seq(Versions)

Init ==
  /\ stream = 0 /\ caps = 1 /\ lastApplied = 0 /\ sem = 0 /\ ackAge = 0
  /\ mainPc = "init" /\ runPc = "idle" /\ hbPc = "none"
  /\ exec = [j \in Jobs |-> "idle"]
  /\ cancelled = FALSE /\ first = "none"
  /\ permanent = FALSE /\ graceful = FALSE
  /\ cur = 0 /\ wire = "none" /\ halfClosed = FALSE /\ raced = FALSE
  /\ inbox = <<>>
  /\ peer = "idle" /\ manifest = 0 /\ advertised = 0 /\ beat = FALSE
  /\ pushes = 0
  /\ applied = <<>>

-----------------------------------------------------------------------------
(* Contexts, locks and streams. *)

\* The jobs whose executor goroutine holds a semaphore slot.
InFlight == {j \in Jobs : exec[j] \in {"running", "send", "sending"}}

\* Nobody is inside stream.Send.
SendMuFree == hbPc # "sending" /\ \A j \in Jobs : exec[j] # "sending"

\* The context of stream s's recvLoop, heartbeat and executors is done: the run
\* context is, or connectOnce has called its cancel.
StreamCtxDone(s) ==
  cancelled \/ s # cur \/ runPc \in {"join", "backoff", "top", "done"}

\* stream.Recv fails: at any time on a stream this side finished, although it
\* may still return what was delivered, and after the delivered messages on one
\* the peer or the network ended.
RecvFails == cancelled \/ wire = "finished" \/ (wire = "ended" /\ inbox = <<>>)

\* stream.Send on stream s succeeds, which is to say that grpc has queued the message, or
\* fails.  One that races with CloseSend, or with the cancel that follows recvLoop, may do
\* either; a failing Send after CloseSend also finishes the stream.
SendOk(s)   == s = cur /\ wire = "open" /\ ~cancelled /\ (halfClosed => raced)
SendFail(s) == s # cur \/ wire # "open" \/ cancelled \/ halfClosed \/ runPc = "join"
FinishOnFail(s) ==
  /\ wire' = IF s = cur /\ wire = "open" /\ halfClosed THEN "finished" ELSE wire
  /\ raced' = FALSE

Consume == inbox' = Tail(inbox)
Received(type) == runPc = "recv" /\ inbox # <<>> /\ Head(inbox).type = type

RetryAlways(isPermanent) ==
  /\ permanent' = isPermanent
  /\ runPc' = (IF cancelled THEN "done" ELSE "backoff") /\ UNCHANGED first

StopAfterSession(isPermanent) ==
  /\ permanent' = isPermanent
  /\ runPc' = (IF cancelled \/ runPc = "join" THEN "done" ELSE "backoff")
  /\ UNCHANGED first

\* run() once connectOnce has returned: give up, stop or back off.
ReturnToRun(isPermanent) ==
  /\ permanent' = isPermanent
  /\ IF isPermanent
     THEN runPc' = "done" /\ first' = IF first = "none" THEN "err" ELSE first
     ELSE runPc' = (IF cancelled THEN "done" ELSE "backoff") /\ UNCHANGED first

GiveUpLeaky(isPermanent) == ReturnToRun(isPermanent) /\ UNCHANGED wire

\* connectOnce returns: its deferred cancel finishes the stream.
GiveUp(isPermanent) == ReturnToRun(isPermanent) /\ wire' = "finished"

KeepStream == UNCHANGED <<halfClosed, raced>>

\* UpdateCapabilities half-closes the stream the client knows of, without
\* taking sendMu.
ForceReconnect ==
  IF stream # 0
  THEN halfClosed' = TRUE /\ raced' = ~SendMuFree
  ELSE UNCHANGED <<halfClosed, raced>>

\* updateConfigHandler: the registry applies the update and, when its
\* capabilities change, calls UpdateCapabilities.
Handle(v, mayChange) ==
  /\ applied' = IF v > 0 THEN Append(applied, v) ELSE applied
  /\ \/ UNCHANGED <<caps, halfClosed, raced>>
     \/ /\ mayChange /\ cur < MaxStreams
        /\ caps' = caps + 1
        /\ ForceReconnect

StaleIfOlder(v) == v > 0 /\ v < lastApplied
Stale(v)        == v > 0 /\ v <= lastApplied

applyUpdateConfig(v, mayChange) ==
  IF Stale(v)
  THEN UNCHANGED <<lastApplied, applied, caps, halfClosed, raced>>
  ELSE /\ lastApplied' = IF v > 0 THEN v ELSE lastApplied
       /\ Handle(v, mayChange)
-----------------------------------------------------------------------------
(* main(): Register, serve until a signal, Close. *)

Register ==
  /\ mainPc = "init"
  /\ mainPc' = "registering" /\ runPc' = "top"
  /\ UNCHANGED <<clientVars, hbPc, exec, cancelled, first, permanent, graceful,
                 wireVars, peerVars, applied>>

\* The select of Register: the first registration, its failure, or the 30s
\* timeout or a signal.
RegisterReturns ==
  /\ mainPc = "registering"
  /\ \/ first = "ok" /\ mainPc' = "serving"
     \/ first = "err" /\ mainPc' = "closing"
     \/ mainPc' = "closing"
  /\ UNCHANGED <<clientVars, runPc, hbPc, exec, cancelled, first, permanent,
                 graceful, wireVars, peerVars, applied>>

Signal ==
  /\ mainPc = "serving" /\ mainPc' = "closing"
  /\ UNCHANGED <<clientVars, runPc, hbPc, exec, cancelled, first, permanent,
                 graceful, wireVars, peerVars, applied>>

CloseSendFirst ==
  /\ mainPc = "closing" /\ SendMuFree
  /\ cancelled' = TRUE /\ mainPc' = "closeWait"
  /\ UNCHANGED <<clientVars, runPc, hbPc, exec, first, permanent, graceful,
                 wireVars, peerVars, applied>>

\* Close: cancel comes before sendMu, so that a blocked Send lets go of it.
CloseCancel ==
  /\ mainPc = "closing"
  /\ cancelled' = TRUE
  /\ mainPc' = IF stream # 0 THEN "closeSend" ELSE "closeWait"
  /\ UNCHANGED <<clientVars, runPc, hbPc, exec, first, permanent, graceful,
                 wireVars, peerVars, applied>>

CloseCloseSend ==
  /\ mainPc = "closeSend" /\ SendMuFree
  /\ halfClosed' = TRUE
  /\ mainPc' = "closeWait"
  /\ UNCHANGED <<clientVars, runPc, hbPc, exec, cancelled, first, permanent,
                 graceful, cur, wire, raced, inbox, peerVars, applied>>

CloseWait ==
  /\ mainPc = "closeWait" /\ runPc = "done"
  /\ mainPc' = "exited"
  /\ UNCHANGED <<clientVars, runPc, hbPc, exec, cancelled, first, permanent,
                 graceful, wireVars, peerVars, applied>>

-----------------------------------------------------------------------------
(* run() and connectOnce(). *)

RunTop ==
  /\ runPc = "top"
  /\ IF cancelled
     THEN runPc' = "done" /\ first' = IF first = "none" THEN "err" ELSE first
     ELSE runPc' = "connect" /\ UNCHANGED first
  /\ UNCHANGED <<clientVars, mainPc, hbPc, exec, cancelled, permanent, graceful,
                 wireVars, peerVars, applied>>

ConnectOpens ==
  /\ runPc = "connect" /\ ~cancelled /\ cur < MaxStreams
  /\ cur' = cur + 1 /\ wire' = "open" /\ halfClosed' = FALSE /\ raced' = FALSE
  /\ inbox' = <<>> /\ peer' = "idle" /\ beat' = FALSE
  /\ runPc' = "register"
  /\ UNCHANGED <<clientVars, mainPc, hbPc, exec, cancelled, first, permanent,
                 graceful, manifest, advertised, pushes, applied>>

ConnectFails ==
  /\ runPc = "connect"
  /\ ReturnToRun(FALSE)
  /\ UNCHANGED <<clientVars, mainPc, hbPc, exec, cancelled, graceful,
                 wireVars, peerVars, applied>>

\* safeSend of the Register message, built from the registration state.
SendRegister ==
  /\ runPc = "register"
  /\ \/ /\ SendOk(cur) /\ SendMuFree
        /\ manifest' = caps /\ peer' = "hello" /\ runPc' = "await"
        /\ UNCHANGED <<first, permanent, wire>>
     \/ /\ SendFail(cur) /\ SendMuFree
        /\ GiveUp(FALSE) /\ UNCHANGED <<manifest, peer>>
  /\ UNCHANGED <<clientVars, mainPc, hbPc, exec, cancelled, graceful, cur,
                 halfClosed, raced, inbox, advertised, beat, pushes, applied>>

\* The first Recv failed, or brought something else than an answer.
AwaitFails ==
  /\ runPc = "await"
  /\ \/ RecvFails /\ inbox' = inbox
     \/ /\ inbox # <<>> /\ Head(inbox).type \notin {"registered", "rejected"}
        /\ Consume
  /\ GiveUp(FALSE)
  /\ UNCHANGED <<clientVars, mainPc, hbPc, exec, cancelled, graceful, cur,
                 halfClosed, raced, peerVars, applied>>

AwaitRejected ==
  /\ runPc = "await" /\ inbox # <<>> /\ Head(inbox).type = "rejected"
  /\ GiveUp(Head(inbox).permanent)
  /\ Consume
  /\ UNCHANGED <<clientVars, mainPc, hbPc, exec, cancelled, graceful, cur,
                 halfClosed, raced, peerVars, applied>>

\* The effective config is applied here, before setStream.
AwaitRegistered ==
  /\ runPc = "await" /\ inbox # <<>> /\ Head(inbox).type = "registered"
  /\ first' = IF first = "none" THEN "ok" ELSE first
  /\ IF Head(inbox).eff = NoConfig
     THEN UNCHANGED <<lastApplied, applied, caps, halfClosed, raced>>
     ELSE applyUpdateConfig(Head(inbox).eff, EffectiveMayChange)
  /\ Consume
  /\ runPc' = "setup"
  /\ UNCHANGED <<stream, sem, ackAge, mainPc, hbPc, exec, cancelled, permanent,
                 graceful, cur, wire, peerVars>>

\* lastHeartbeatAck, setStream and the heartbeat goroutine.
StartSession ==
  /\ runPc = "setup"
  /\ stream' = cur /\ ackAge' = 0 /\ hbPc' = "send" /\ graceful' = FALSE
  /\ runPc' = "recv"
  /\ UNCHANGED <<caps, lastApplied, sem, mainPc, exec, cancelled, first,
                 permanent, wireVars, peerVars, applied>>

\* recvLoop has returned and connectOnce has cancelled the stream's context: it
\* waits for the heartbeat's error, clears the stream and returns.
Join ==
  /\ runPc = "join" /\ hbPc = "exited"
  /\ stream' = 0
  /\ GiveUp(permanent)
  /\ UNCHANGED <<caps, lastApplied, sem, ackAge, mainPc, hbPc, exec, cancelled,
                 graceful, cur, halfClosed, raced, inbox, peerVars, applied>>

Backoff ==
  /\ runPc = "backoff"
  /\ runPc' = IF cancelled THEN "done" ELSE "top"
  /\ UNCHANGED <<clientVars, mainPc, hbPc, exec, cancelled, first, permanent,
                 graceful, wireVars, peerVars, applied>>

-----------------------------------------------------------------------------
(* recvLoop(). *)

RecvFailed ==
  /\ runPc = "recv" /\ RecvFails
  /\ runPc' = "join"
  /\ UNCHANGED <<clientVars, mainPc, hbPc, exec, cancelled, first, permanent,
                 graceful, wireVars, peerVars, applied>>

RecvExecute ==
  /\ Received("execute")
  /\ runPc' = "dispatch"
  /\ UNCHANGED <<clientVars, mainPc, hbPc, exec, cancelled, first, permanent,
                 graceful, wireVars, peerVars, applied>>

SlotAlways == TRUE
SlotFree   == sem < MaxConcurrent

\* dispatchCapabilityExecution: recvLoop is blocked here until a slot is free
\* or the context is done.
Dispatch ==
  /\ runPc = "dispatch"
  /\ LET j == <<Head(inbox).cmd, cur>> IN
     \/ /\ SlotFree
        /\ sem' = sem + 1
        /\ exec' = [exec EXCEPT ![j] = "running"]
     \/ /\ StreamCtxDone(cur)
        /\ exec' = [exec EXCEPT ![j] = "dropped"]
        /\ UNCHANGED sem
  /\ Consume
  /\ runPc' = "recv"
  /\ UNCHANGED <<stream, caps, lastApplied, ackAge, mainPc, hbPc, cancelled,
                 first, permanent, graceful, cur, wire, halfClosed, raced,
                 peerVars, applied>>

RecvUpdateConfig ==
  /\ Received("config")
  /\ applyUpdateConfig(Head(inbox).version, TRUE)
  /\ Consume
  /\ UNCHANGED <<stream, sem, ackAge, procVars, cur, wire, peerVars>>

RecvDisconnect ==
  /\ Received("disconnect")
  /\ graceful' = Head(inbox).graceful
  /\ runPc' = IF Head(inbox).graceful THEN "drain" ELSE "join"
  /\ Consume
  /\ UNCHANGED <<clientVars, mainPc, hbPc, exec, cancelled, first, permanent,
                 cur, wire, halfClosed, raced, peerVars, applied>>

DrainNothing == TRUE
Drained      == InFlight = {}

\* inFlight.Wait(): the executors of every stream, whatever the context.
Drain ==
  /\ runPc = "drain" /\ Drained
  /\ runPc' = "join"
  /\ UNCHANGED <<clientVars, mainPc, hbPc, exec, cancelled, first, permanent,
                 graceful, wireVars, peerVars, applied>>

RecvAck ==
  /\ Received("ack")
  /\ ackAge' = 0
  /\ Consume
  /\ UNCHANGED <<stream, caps, lastApplied, sem, procVars, cur, wire,
                 halfClosed, raced, peerVars, applied>>

\* A late Registered is skipped; a rejection or an unknown payload ends the loop.
RecvOther ==
  /\ \/ Received("registered") /\ UNCHANGED <<runPc, permanent>>
     \/ /\ Received("rejected")
        /\ permanent' = Head(inbox).permanent /\ runPc' = "join"
     \/ Received("other") /\ runPc' = "join" /\ UNCHANGED permanent
  /\ Consume
  /\ UNCHANGED <<clientVars, mainPc, hbPc, exec, cancelled, first, graceful,
                 cur, wire, halfClosed, raced, peerVars, applied>>
-----------------------------------------------------------------------------
(* heartbeatLoop(). *)

sessionVars == <<stream, caps, lastApplied, sem>>

\* A tick: the ack may be found missing from the AckWindow-th tick on, and is
\* after the next.  Nobody reads the loop's error before recvLoop has returned.
HeartbeatTick ==
  /\ hbPc = "wait" /\ ~StreamCtxDone(cur) /\ wire # "finished"
  /\ \/ ackAge <= AckWindow - 1 /\ hbPc' = "send" /\ ackAge' = ackAge + 1
     \/ ackAge >= AckWindow - 1 /\ hbPc' = "exited" /\ UNCHANGED ackAge
  /\ UNCHANGED <<sessionVars, mainPc, runPc, exec, cancelled, first, permanent,
                 graceful, wireVars, peerVars, applied>>

\* A Send that takes longer than a period: its tick is lost, its time is not.
HeartbeatStalls ==
  /\ hbPc = "sending" /\ ackAge < AckWindow
  /\ ackAge' = ackAge + 1
  /\ UNCHANGED <<sessionVars, procVars, wireVars, peerVars, applied>>

\* safeSend checks the context before it takes the mutex.
HeartbeatLock ==
  /\ hbPc = "send" /\ ~StreamCtxDone(cur) /\ SendMuFree
  /\ hbPc' = "sending"
  /\ UNCHANGED <<clientVars, mainPc, runPc, exec, cancelled, first, permanent,
                 graceful, wireVars, peerVars, applied>>

HeartbeatSent ==
  /\ hbPc = "sending" /\ SendOk(cur)
  /\ hbPc' = "wait" /\ beat' = TRUE /\ raced' = FALSE
  /\ UNCHANGED <<clientVars, mainPc, runPc, exec, cancelled, first, permanent,
                 graceful, cur, wire, halfClosed, inbox,
                 peer, manifest, advertised, pushes, applied>>

HeartbeatSendFails ==
  /\ hbPc = "sending" /\ SendFail(cur)
  /\ hbPc' = "exited" /\ FinishOnFail(cur)
  /\ UNCHANGED <<clientVars, mainPc, runPc, exec, cancelled, first, permanent,
                 graceful, cur, halfClosed, inbox, peerVars, applied>>

HeartbeatCtxDone ==
  /\ \/ hbPc \in {"send", "wait"} /\ StreamCtxDone(cur)
     \/ hbPc = "wait" /\ wire = "finished"
  /\ hbPc' = "exited"
  /\ UNCHANGED <<clientVars, mainPc, runPc, exec, cancelled, first, permanent,
                 graceful, wireVars, peerVars, applied>>

-----------------------------------------------------------------------------
(* The executor goroutine of a job. *)

execFrame == <<stream, caps, lastApplied, ackAge, mainPc, runPc, hbPc, cancelled,
               first, permanent, graceful, cur, halfClosed, inbox, peerVars, applied>>

\* executeCapability returns: the task is done, failed or saw its context done.
TaskReturns(j) ==
  /\ exec[j] = "running"
  /\ exec' = [exec EXCEPT ![j] = "send"]
  /\ UNCHANGED <<execFrame, sem, wire, raced>>

ResultLock(j) ==
  /\ exec[j] = "send" /\ ~StreamCtxDone(j[2]) /\ SendMuFree
  /\ exec' = [exec EXCEPT ![j] = "sending"]
  /\ UNCHANGED <<execFrame, sem, wire, raced>>

FinishLeaky(j, fate) ==
  /\ exec' = [exec EXCEPT ![j] = fate]
  /\ sem' = IF fate = "lost" THEN sem ELSE sem - 1

\* The executor ends, and its deferred receive gives the slot back.
Finish(j, fate) ==
  /\ exec' = [exec EXCEPT ![j] = fate]
  /\ sem' = sem - 1

ResultSentOnCurrent(j) ==
  /\ exec[j] = "sending" /\ SendOk(cur)
  /\ Finish(j, "delivered") /\ raced' = FALSE
  /\ UNCHANGED <<execFrame, wire>>

\* The result goes to the stream that brought the command, whichever is current.
ResultSent(j) ==
  /\ exec[j] = "sending" /\ SendOk(j[2])
  /\ Finish(j, "delivered") /\ raced' = FALSE
  /\ UNCHANGED <<execFrame, wire>>

LostOnlyBeforeSend(j) ==
  /\ exec[j] = "send" /\ StreamCtxDone(j[2])
  /\ Finish(j, "lost")
  /\ UNCHANGED <<execFrame, wire, raced>>

\* The error of safeSend is ignored: the result is gone.
ResultLost(j) ==
  /\ \/ /\ exec[j] = "send" /\ StreamCtxDone(j[2])
        /\ UNCHANGED <<wire, raced>>
     \/ /\ exec[j] = "sending" /\ SendFail(j[2])
        /\ FinishOnFail(j[2])
  /\ Finish(j, "lost")
  /\ UNCHANGED execFrame

-----------------------------------------------------------------------------
(* The control plane and the network. *)

Push(m) == Len(inbox) < MaxInbox /\ inbox' = Append(inbox, m)
serverFrame == <<clientVars, mainPc, runPc, hbPc, cancelled, first, permanent,
                 graceful, cur, halfClosed, raced, manifest, applied>>

\* The answer to Register: an acceptance, with or without a config, a rejection,
\* or something else.
ServerAnswers ==
  /\ wire = "open" /\ peer = "hello"
  /\ \/ \E e \in 0..NoConfig : Push([type |-> "registered", eff |-> e])
        /\ peer' = "serving" /\ advertised' = manifest
     \/ \E p \in BOOLEAN :
          /\ p \/ cur < MaxStreams
          /\ Push([type |-> "rejected", permanent |-> p])
        /\ peer' = "ended" /\ UNCHANGED advertised
     \/ cur < MaxStreams /\ Push([type |-> "other"])
        /\ peer' = "ended" /\ UNCHANGED advertised
  /\ UNCHANGED <<serverFrame, exec, wire, beat, pushes>>

ServerExecutes(c) ==
  /\ wire = "open" /\ peer = "serving" /\ exec[<<c, cur>>] = "idle"
  /\ Push([type |-> "execute", cmd |-> c])
  /\ exec' = [exec EXCEPT ![<<c, cur>>] = "sent"]
  /\ UNCHANGED <<serverFrame, wire, peer, advertised, beat, pushes>>

ServerPushesConfig ==
  /\ wire = "open" /\ peer = "serving" /\ pushes < MaxPushes
  /\ \E v \in Versions : Push([type |-> "config", version |-> v])
  /\ pushes' = pushes + 1
  /\ UNCHANGED <<serverFrame, exec, wire, peer, advertised, beat>>

ServerAcks ==
  /\ wire = "open" /\ peer = "serving" /\ beat
  /\ Push([type |-> "ack"]) /\ beat' = FALSE
  /\ UNCHANGED <<serverFrame, exec, wire, peer, advertised, pushes>>

\* Disconnect, a rejection in mid-session or an unknown payload.
ServerDismisses ==
  /\ wire = "open" /\ peer = "serving" /\ cur < MaxStreams
  /\ \/ \E g \in BOOLEAN : Push([type |-> "disconnect", graceful |-> g])
     \/ \E p \in BOOLEAN : Push([type |-> "rejected", permanent |-> p])
     \/ Push([type |-> "other"])
     \/ Push([type |-> "registered", eff |-> NoConfig])
  /\ peer' = "ended"
  /\ UNCHANGED <<serverFrame, exec, wire, advertised, beat, pushes>>

\* The handler of a control plane returns when it reads the half-close.
ServerSeesHalfClose ==
  /\ wire = "open" /\ halfClosed
  /\ wire' = "ended"
  /\ UNCHANGED <<serverFrame, exec, inbox, peer, advertised, beat, pushes>>

\* The peer ends the stream, or the connection breaks.
StreamBreaks ==
  /\ wire = "open" /\ cur < MaxStreams
  /\ wire' = "ended"
  /\ UNCHANGED <<serverFrame, exec, inbox, peer, advertised, beat, pushes>>
-----------------------------------------------------------------------------
Main == RegisterReturns \/ CloseCancel \/ CloseCloseSend \/ CloseWait
RunStep ==
  \/ RunTop \/ ConnectFails \/ SendRegister \/ AwaitFails \/ AwaitRejected
  \/ AwaitRegistered \/ StartSession \/ Join \/ Backoff
RecvStep ==
  \/ RecvFailed \/ RecvExecute \/ Dispatch \/ RecvUpdateConfig
  \/ RecvDisconnect \/ Drain \/ RecvAck \/ RecvOther
HeartbeatStep ==
  HeartbeatTick \/ HeartbeatLock \/ HeartbeatSendFails \/ HeartbeatCtxDone
Sender(j) == ResultLock(j) \/ ResultLost(j)
Server ==
  \/ ServerAnswers \/ ServerPushesConfig \/ ServerAcks \/ ServerDismisses
  \/ ServerSeesHalfClose \/ StreamBreaks
  \/ \E c \in Commands : ServerExecutes(c)

\* Close has returned and every executor has finished: the process is gone.
Terminated == mainPc = "exited" /\ InFlight = {} /\ UNCHANGED vars

Next ==
  \/ Register \/ Signal \/ Main \/ RunStep \/ ConnectOpens \/ RecvStep
  \/ HeartbeatStep \/ HeartbeatStalls \/ HeartbeatSent
  \/ \E j \in Jobs : TaskReturns(j) \/ Sender(j) \/ ResultSent(j)
  \/ Server
  \/ Terminated

Spec == Init /\ [][Next]_vars

\* The goroutines are scheduled, tasks return, and a mutex or a slot is granted.
\* Nothing obliges a Send to get through, the peer to answer or a signal to come.
AgentFairness ==
  /\ WF_vars(Main) /\ WF_vars(RunStep) /\ WF_vars(RecvStep)
  /\ WF_vars(HeartbeatStep)
  /\ \A j \in Jobs : WF_vars(TaskReturns(j)) /\ SF_vars(Sender(j))

\* The network lets a connection through now and then, the control plane answers
\* Register, reads what is sent and ends a stream whose half-close it has read.
NetworkFairness ==
  /\ SF_vars(ConnectOpens) /\ WF_vars(ServerAnswers)
  /\ WF_vars(ServerSeesHalfClose)
  /\ WF_vars(HeartbeatSent) /\ \A j \in Jobs : WF_vars(ResultSent(j))

FairSpec  == Spec /\ AgentFairness
ServedSpec == FairSpec /\ NetworkFairness

-----------------------------------------------------------------------------
(* Safety. *)

\* The semaphore counts exactly the executors alive, over all streams: no exit
\* of an executor (delivered, lost, send error, context done) leaks or returns
\* twice a slot (dispatchCapabilityExecution).
SemaphoreExact == sem = Cardinality(InFlight)

\* Config versions reach the handler in strictly increasing order, each at most
\* once, however the control plane repeats or reorders them and across
\* reconnections (applyUpdateConfig and connectOnce's effective config).
ConfigOrder ==
  \A i, k \in DOMAIN applied : i < k => applied[i] < applied[k]

\* A session that is neither broken nor being re-registered was opened with the
\* manifest the client has now: the control plane never works from a stale one
\* (UpdateCapabilities against connectOnce).
ManifestFresh ==
  (stream # 0 /\ wire = "open" /\ ~halfClosed /\ ~cancelled) => advertised = caps

\* When recvLoop leaves a graceful Disconnect on a healthy stream, the result of
\* every command sent on that stream has been sent: grpc has taken it and only a connection
\* that breaks can still lose it (recvLoop, inFlight).
GracefulDelivers ==
  (runPc = "join" /\ graceful /\ wire = "open" /\ ~halfClosed /\ ~cancelled)
    => \A c \in Commands : exec[<<c, cur>>] \in {"idle", "delivered"}

\* Once Close has returned no connection, no heartbeat goroutine and no published
\* stream is left, wherever the run goroutine was when it was cancelled.
CloseLeavesNothing ==
  mainPc = "exited" => /\ stream = 0 /\ wire \in {"none", "finished"}
                       /\ hbPc \in {"none", "exited"}

\* After a permanent rejection, at registration or in mid-session, the client
\* opens no stream and sends no Register again (run).
NoRetryAfterPermanent == [][permanent => cur' = cur /\ manifest' = manifest]_vars

\* A pushed config leaves the session alone: it does not half-close the stream
\* (proto/marvin.proto:233 on UpdateConfig).
PushKeepsSession == [][applied' # applied => halfClosed' = halfClosed]_vars

-----------------------------------------------------------------------------
(* What the control plane sees of its commands. *)

\* A session counts as open until something disturbs its stream or recvLoop leaves it, and
\* as drained if a graceful Disconnect made recvLoop leave an undisturbed one.
Undisturbed == wire = "open" /\ ~halfClosed /\ ~cancelled
SessionStatus == CASE Undisturbed /\ runPc # "join"            -> "open"
                   [] Undisturbed /\ runPc = "join" /\ graceful -> "drained"
                   [] OTHER                                     -> "over"

\* An executor runs until its result is sent or lost.
Fate(pc) == CASE pc = "idle"                          -> "unsent"
              [] pc \in {"running", "send", "sending"} -> "running"
              [] pc = "dropped"                       -> "refused"
              [] OTHER                                -> pc

Service == INSTANCE CommandService WITH
  Sessions <- Streams, Slots <- MaxConcurrent,
  session <- cur, status <- SessionStatus, closing <- cancelled,
  fate <- [j \in Jobs |-> Fate(exec[j])]

\* The client executes each command sent at most once, within its slots, and answers on the
\* stream that brought it, loses a result only with its session, and owes nothing after
\* a drain (recvLoop, dispatchCapabilityExecution, safeSend).
ImplementsService == Service!ServiceSpec

-----------------------------------------------------------------------------
(* Liveness. *)

\* Close returns although a Send may be blocked for good with sendMu held and
\* recvLoop may be waiting for a slot or for executors (Close, run).
CloseTerminates == mainPc = "closing" ~> mainPc = "exited"

\* Where the network and the control plane serve the client in the end, a session that
\* ends, for whatever reason but a permanent rejection or Close, is followed by another
\* one (run).
Reconnects ==
  NetworkFairness => (runPc = "join" ~> (runPc = "recv" \/ cancelled \/ permanent))

\* Served in this way, a changed manifest reaches the control plane (UpdateCapabilities).
ManifestConverges ==
  NetworkFairness => ((runPc = "recv" /\ caps # advertised)
                        ~> (advertised = caps \/ cancelled \/ permanent))

\* ... and every executor finishes and returns its slot, its stream alive or not
\* (dispatchCapabilityExecution).
ExecutorsFinish ==
  NetworkFairness => \A j \in Jobs : exec[j] = "running" ~> exec[j] \in {"delivered", "lost"}

\* A heartbeat loop that gave up ends the session: the keepalive of a session is
\* periodic as long as it lasts (heartbeatLoop, proto/marvin.proto:94-95).
HeartbeatEndsSession ==
  (hbPc = "exited" /\ runPc = "recv") ~> (runPc # "recv" \/ hbPc # "exited")
=============================================================================

--------------------------- MODULE SessionProofs ---------------------------
(***************************************************************************)
(* Proofs about one session of ControlPlaneClient: what a graceful         *)
(* Disconnect leaves behind, and which manifest the control plane works    *)
(* from.  Both follow a stream from the connectOnce that opens it to the   *)
(* join that leaves it, through whatever its peer, its heartbeat and its   *)
(* executors do meanwhile.                                                 *)
(***************************************************************************)
EXTENDS ControlPlaneClientProofs

-----------------------------------------------------------------------------
(* The invariants. *)

\* Where connectOnce holds a stream.
Attached == InSession \cup {"register", "await", "setup"}

\* Streams are numbered in the order they are opened: no job has been sent on a later one.
Numbered ==
  /\ runPc \in Attached => cur \in Streams
  /\ \A c \in Commands, s \in Streams : s > cur => exec[<<c, s>>] = "idle"

\* Register is the first message of a stream, in either direction.
RegisterFirst == runPc = "register" => peer = "idle" /\ inbox = <<>>

SInv == SessionOpen /\ Numbered /\ RegisterFirst

\* While a stream is healthy no job of it is dropped and no result lost: contexts are done
\* only from the join on.
NothingLost ==
  Undisturbed /\ runPc # "join" => \A c \in Commands : exec[<<c, cur>>] \notin {"lost", "dropped"}

\* A command sent and not dispatched is in the inbox.
SentQueued ==
  wire = "open" =>
    \A c \in Commands : exec[<<c, cur>>] = "sent" =>
      \E i \in DOMAIN inbox : inbox[i].type = "execute" /\ inbox[i].cmd = c

\* Nothing follows a Disconnect.
DisconnectLast ==
  \A i \in DOMAIN inbox : inbox[i].type = "disconnect" => i = Len(inbox) /\ peer = "ended"

\* The drain begins with an empty inbox and a peer that is gone; graceful says so until
\* the join is over.
GracefulOver ==
  /\ runPc \in {"recv", "dispatch"} => ~graceful
  /\ runPc = "drain" => graceful
  /\ (runPc \in {"drain", "join"} /\ graceful) => peer = "ended" /\ inbox = <<>>

DInv == NothingLost /\ SentQueued /\ DisconnectLast /\ GracefulOver /\ GracefulDelivers

\* The control plane has accepted the manifest in the last Register.
Accepted ==
  \/ peer = "serving"
  \/ \E i \in DOMAIN inbox : inbox[i].type = "registered"
  \/ runPc \in InSession \cup {"setup"}
  => advertised = manifest

\* It is the client's, unless the stream is being ended to send another, or its Registered
\* has brought a config that changed it, once.
Sent ==
  runPc \in InSession \cup {"await", "setup"} /\ ~halfClosed =>
    \/ manifest = caps
    \/ runPc # "await" /\ EffectiveMayChange /\ caps = manifest + 1

Published == runPc \in InSession => stream # 0

MInv == Accepted /\ Sent /\ Published

\* A session works from the manifest the client has now, or from the one before: then the
\* change between them is the one its own Registered brought.
OwnConfigAtMost ==
  (stream # 0 /\ wire = "open" /\ ~halfClosed /\ ~cancelled) =>
    caps = advertised \/ (EffectiveMayChange /\ caps = advertised + 1)

-----------------------------------------------------------------------------
(* Messages that come and go. *)

\* What receiving a message does to the positions of the others.
LEMMA Consumed ==
  ASSUME TypeOK, inbox # <<>>, Consume
  PROVE  /\ Head(inbox) = inbox[1] /\ 1 \in DOMAIN inbox /\ Head(inbox) \in Message
         /\ Len(inbox) \in Nat /\ Len(inbox') = Len(inbox) - 1
         /\ DOMAIN inbox \subseteq Nat /\ DOMAIN inbox' \subseteq Nat \ {0}
         /\ \A i \in DOMAIN inbox' : i + 1 \in DOMAIN inbox /\ inbox'[i] = inbox[i + 1]
         /\ \A i \in DOMAIN inbox : i # 1 => i - 1 \in DOMAIN inbox' /\ inbox'[i - 1] = inbox[i]
         /\ Len(inbox) = 1 => inbox' = <<>>
<1>1. /\ inbox' \in Seq(Message) /\ Len(inbox') = Len(inbox) - 1
      /\ \A i \in 1..Len(inbox') : inbox'[i] = inbox[i + 1]
      /\ Head(inbox) = inbox[1] /\ 1 \in DOMAIN inbox /\ Head(inbox) \in Message
  BY HeadAndTail, HeadTailProperties DEF TypeOK, Consume
<1>2. /\ DOMAIN inbox = 1..Len(inbox) /\ Len(inbox) \in Nat
      /\ DOMAIN inbox' = 1..Len(inbox')
  BY <1>1, LenProperties DEF TypeOK
<1>3. Len(inbox) = 1 => inbox' = <<>>
  BY <1>1, EmptySeq
<1>4. QED
  BY <1>1, <1>2, <1>3

\* What the control plane's sending does to the positions of the messages.
LEMMA Pushed ==
  ASSUME TypeOK, NEW m \in Message, Push(m)
  PROVE  /\ DOMAIN inbox = 1..Len(inbox) /\ Len(inbox) \in Nat
         /\ DOMAIN inbox' = DOMAIN inbox \cup {Len(inbox) + 1}
         /\ Len(inbox') = Len(inbox) + 1 /\ inbox'[Len(inbox) + 1] = m
         /\ \A i \in DOMAIN inbox : inbox'[i] = inbox[i]
BY Appended, AppendProperties DEF TypeOK, Push

-----------------------------------------------------------------------------
(* Streams and their jobs. *)

\* Executions keep the number of the stream they came on.
LEMMA NumberedStep ==
  ASSUME TypeOK, Tracked, DispatchHead, OpenIsCurrent, Numbered, [Next]_vars
  PROVE  Numbered'
<1> USE ClientAssumption
    DEF Attached, InSession, clientVars, procVars, wireVars, peerVars, sessionVars,
        execFrame, serverFrame
<1>1. ASSUME cur' = cur, \A j \in Jobs : exec[j] = "idle" => exec'[j] = "idle" \/ j[2] = cur
      PROVE  \A c \in Commands, s \in Streams : s > cur' => exec'[<<c, s>>] = "idle"
  <2>1. cur \in Int /\ \A s \in Streams : s \in Int
    BY DEF TypeOK, Streams
  <2>2. \A c \in Commands, s \in Streams : <<c, s>> \in Jobs /\ <<c, s>>[2] = s
    BY DEF Jobs
  <2>3. QED
    BY <1>1, <2>1, <2>2 DEF Numbered
<1>2. CASE Register \/ Signal \/ Main
  <2>1. exec' = exec /\ cur' = cur /\ (runPc' = runPc \/ runPc' = "top")
    BY <1>2 DEF Register, Signal, Main, RegisterReturns, CloseCancel, CloseCloseSend, CloseWait
  <2>2. QED
    BY <1>1, <2>1 DEF Numbered
<1>3. CASE RunStep
  <2>1. exec' = exec /\ cur' = cur
    BY <1>3 DEF RunStep, RunTop, ConnectFails, SendRegister, AwaitFails, AwaitRejected,
       AwaitRegistered, StartSession, Join, Backoff
  <2>2. runPc' \in Attached => runPc \in Attached
    BY <1>3 DEF RunStep, RunTop, ConnectFails, SendRegister, AwaitFails, AwaitRejected,
       AwaitRegistered, StartSession, Join, Backoff, GiveUp, ReturnToRun
  <2>3. QED
    BY <1>1, <2>1, <2>2 DEF Numbered
<1>4. CASE ConnectOpens
  BY <1>4 DEF ConnectOpens, Numbered, TypeOK, Streams
<1>5. CASE RecvStep /\ ~Dispatch
  <2>1. exec' = exec /\ cur' = cur /\ runPc \in Attached
    BY <1>5 DEF RecvStep, RecvFailed, RecvExecute, RecvUpdateConfig, RecvDisconnect, Drain,
       RecvAck, RecvOther, Received
  <2>2. QED
    BY <1>1, <2>1 DEF Numbered
<1>6. CASE Dispatch
  <2>1. cur' = cur /\ runPc \in Attached
    BY <1>6 DEF Dispatch
  <2>2. \A j \in Jobs : exec[j] = "idle" => exec'[j] = "idle" \/ j[2] = cur
    BY <1>6 DEF Dispatch, TypeOK
  <2>3. QED
    BY <1>1, <2>1, <2>2 DEF Numbered
<1>7. CASE HeartbeatStep \/ HeartbeatStalls \/ HeartbeatSent
  <2>1. exec' = exec /\ cur' = cur /\ runPc' = runPc
    BY <1>7 DEF HeartbeatStep, HeartbeatStalls, HeartbeatSent, HeartbeatTick,
       HeartbeatLock, HeartbeatSendFails, HeartbeatCtxDone
  <2>2. QED
    BY <1>1, <2>1 DEF Numbered
<1>8. ASSUME NEW j \in Jobs, TaskReturns(j) \/ Sender(j) \/ ResultSent(j)
      PROVE  Numbered'
  <2>1. cur' = cur /\ runPc' = runPc
    BY <1>8 DEF TaskReturns, Sender, ResultSent, ResultLock, ResultLost
  <2>2. \A k \in Jobs : exec[k] = "idle" => exec'[k] = "idle"
    BY <1>8 DEF TaskReturns, Sender, ResultSent, ResultLock, ResultLost, Finish, TypeOK
  <2>3. QED
    BY <1>1, <2>1, <2>2 DEF Numbered
<1>9. CASE Server
  <2>1. cur' = cur /\ runPc' = runPc
    BY <1>9 DEF Server, ServerAnswers, ServerExecutes, ServerPushesConfig, ServerAcks,
       ServerDismisses, ServerSeesHalfClose, StreamBreaks
  <2>2. \A j \in Jobs : exec[j] = "idle" => exec'[j] = "idle" \/ j[2] = cur
    <3>1. CASE \E c \in Commands : ServerExecutes(c)
      BY <3>1 DEF ServerExecutes, TypeOK
    <3>2. CASE ~\E c \in Commands : ServerExecutes(c)
      BY <1>9, <3>2 DEF Server, ServerAnswers, ServerPushesConfig, ServerAcks,
         ServerDismisses, ServerSeesHalfClose, StreamBreaks
    <3>3. QED
      BY <3>1, <3>2
  <2>3. QED
    BY <1>1, <2>1, <2>2 DEF Numbered
<1>10. CASE UNCHANGED vars
  BY <1>1, <1>10 DEF Numbered, vars
<1>11. QED
  BY <1>2, <1>3, <1>4, <1>5, <1>6, <1>7, <1>8, <1>9, <1>10 DEF Next, RecvStep, Terminated

\* Nothing is received on a stream before Register is sent on it (client.go:394).
LEMMA RegisterFirstStep ==
  ASSUME TypeOK, RegisterFirst, [Next]_vars
  PROVE  RegisterFirst'
<1> USE DEF RegisterFirst, clientVars, procVars, wireVars, peerVars, sessionVars, execFrame,
            serverFrame
<1>1. CASE Register \/ Signal \/ Main
  BY <1>1 DEF Register, Signal, Main, RegisterReturns, CloseCancel, CloseCloseSend, CloseWait
<1>2. CASE RunStep
  BY <1>2 DEF RunStep, RunTop, ConnectFails, SendRegister, AwaitFails, AwaitRejected,
     AwaitRegistered, StartSession, Join, Backoff, GiveUp, ReturnToRun
<1>3. CASE ConnectOpens
  BY <1>3 DEF ConnectOpens
<1>4. CASE RecvStep
  BY <1>4 DEF RecvStep, RecvFailed, RecvExecute, Dispatch, RecvUpdateConfig,
     RecvDisconnect, Drain, RecvAck, RecvOther, Received
<1>5. CASE HeartbeatStep \/ HeartbeatStalls \/ HeartbeatSent
  BY <1>5 DEF HeartbeatStep, HeartbeatStalls, HeartbeatSent, HeartbeatTick,
     HeartbeatLock, HeartbeatSendFails, HeartbeatCtxDone
<1>6. ASSUME NEW j \in Jobs, TaskReturns(j) \/ Sender(j) \/ ResultSent(j)
      PROVE  RegisterFirst'
  BY <1>6 DEF TaskReturns, Sender, ResultSent, ResultLock, ResultLost
<1>7. CASE Server
  BY <1>7 DEF Server, ServerAnswers, ServerExecutes, ServerPushesConfig, ServerAcks,
     ServerDismisses, ServerSeesHalfClose, StreamBreaks
<1>8. CASE UNCHANGED vars
  BY <1>8 DEF vars
<1>9. QED
  BY <1>1, <1>2, <1>3, <1>4, <1>5, <1>6, <1>7, <1>8 DEF Next, Terminated

-----------------------------------------------------------------------------
(* What a graceful Disconnect leaves behind. *)

\* Nothing follows a Disconnect in the inbox: the control plane has ended its side.
LEMMA DisconnectLastStep ==
  ASSUME TypeOK, DispatchHead, RegisterFirst, DisconnectLast, [Next]_vars
  PROVE  DisconnectLast'
<1> USE DEF clientVars, procVars, wireVars, peerVars, sessionVars, execFrame, serverFrame
<1>1. ASSUME inbox' = inbox, peer' = peer \/ ~\E i \in DOMAIN inbox : inbox[i].type = "disconnect"
      PROVE  DisconnectLast'
  BY <1>1 DEF DisconnectLast
<1>2. ASSUME inbox # <<>>, Consume, peer' = peer
      PROVE  DisconnectLast'
  BY <1>2, Consumed DEF DisconnectLast
<1>3. ASSUME NEW m \in Message, Push(m), peer # "ended",
             m.type = "disconnect" => peer' = "ended"
      PROVE  DisconnectLast'
  BY <1>3, Pushed DEF DisconnectLast
<1>4. CASE Register \/ Signal \/ Main
  BY <1>1, <1>4 DEF Register, Signal, Main, RegisterReturns, CloseCancel, CloseCloseSend,
     CloseWait
<1>5. CASE RunTop \/ ConnectFails \/ StartSession \/ Join \/ Backoff
  BY <1>1, <1>5 DEF RunTop, ConnectFails, StartSession, Join, Backoff
<1>6. CASE AwaitFails \/ AwaitRejected \/ AwaitRegistered
  BY <1>1, <1>2, <1>6 DEF AwaitFails, AwaitRejected, AwaitRegistered
<1>7. CASE ConnectOpens
  <2>1. inbox' = <<>> /\ DOMAIN inbox' = {}
    BY <1>7 DEF ConnectOpens
  <2>2. QED
    BY <2>1 DEF DisconnectLast
<1>8. CASE RecvFailed \/ RecvExecute \/ Drain
  BY <1>1, <1>8 DEF RecvFailed, RecvExecute, Drain
<1>9. CASE Dispatch
  BY <1>2, <1>9 DEF Dispatch, DispatchHead
<1>10. CASE RecvDisconnect \/ RecvAck \/ RecvOther \/ RecvUpdateConfig
  BY <1>2, <1>10 DEF RecvDisconnect, RecvAck, RecvOther, RecvUpdateConfig, Received
<1>11. CASE HeartbeatStep \/ HeartbeatStalls \/ HeartbeatSent
  BY <1>1, <1>11 DEF HeartbeatStep, HeartbeatStalls, HeartbeatSent, HeartbeatTick,
     HeartbeatLock, HeartbeatSendFails, HeartbeatCtxDone
<1>12. ASSUME NEW j \in Jobs, TaskReturns(j) \/ Sender(j) \/ ResultSent(j)
       PROVE  DisconnectLast'
  BY <1>1, <1>12 DEF TaskReturns, Sender, ResultSent, ResultLock, ResultLost
<1>13. CASE Server
  <2>1. CASE ServerAnswers
    <3>1. PICK m \in Message : m.type # "disconnect" /\ Push(m)
      BY <2>1, MessageForms DEF ServerAnswers
    <3>2. QED
      BY <1>3, <2>1, <3>1 DEF ServerAnswers
  <2>2. CASE ServerPushesConfig \/ ServerAcks
    <3>1. PICK m \in Message : m.type # "disconnect" /\ Push(m)
      BY <2>2, MessageForms DEF ServerPushesConfig, ServerAcks
    <3>2. QED
      BY <1>3, <2>2, <3>1 DEF ServerPushesConfig, ServerAcks
  <2>3. ASSUME NEW c \in Commands, ServerExecutes(c) PROVE DisconnectLast'
    <3>1. PICK m \in Message : m.type # "disconnect" /\ Push(m)
      BY <2>3, MessageForms DEF ServerExecutes
    <3>2. QED
      BY <1>3, <2>3, <3>1 DEF ServerExecutes
  <2>4. CASE ServerDismisses
    <3>1. PICK m \in Message : Push(m)
      BY <2>4, MessageForms DEF ServerDismisses
    <3>2. QED
      BY <1>3, <2>4, <3>1 DEF ServerDismisses
  <2>5. CASE ServerSeesHalfClose \/ StreamBreaks
    BY <1>1, <2>5 DEF ServerSeesHalfClose, StreamBreaks
  <2>6. QED
    BY <1>13, <2>1, <2>2, <2>3, <2>4, <2>5 DEF Server
<1>14. CASE SendRegister
  <2>1. inbox' = <<>> /\ DOMAIN inbox' = {}
    BY <1>14 DEF SendRegister, RegisterFirst
  <2>2. QED
    BY <2>1 DEF DisconnectLast
<1>15. CASE UNCHANGED vars
  BY <1>1, <1>15 DEF vars
<1>16. QED
  BY <1>4, <1>5, <1>6, <1>7, <1>8, <1>9, <1>10, <1>11, <1>12, <1>13, <1>14, <1>15
     DEF Next, RunStep, RecvStep, Terminated

\* A result is lost only where a context is done or a Send may fail.
LEMMA NothingLostStep ==
  ASSUME TypeOK, Tracked, DispatchHead, SInv, NothingLost, [Next]_vars
  PROVE  NothingLost'
<1> USE DEF clientVars, procVars, wireVars, peerVars, sessionVars, execFrame, serverFrame
<1> DEFINE Gone == {"lost", "dropped"}
<1>1. ASSUME cur' = cur, Undisturbed' /\ runPc' # "join" => Undisturbed /\ runPc # "join",
             Undisturbed' /\ runPc' # "join" =>
               \A j \in Jobs : j[2] = cur /\ exec[j] \notin Gone => exec'[j] \notin Gone
      PROVE  NothingLost'
  <2> SUFFICES ASSUME Undisturbed', runPc' # "join", NEW c \in Commands
               PROVE  exec'[<<c, cur'>>] \notin Gone
    BY DEF NothingLost
  <2>1. wire = "open" => runPc \in Attached
    BY <1>1 DEF SInv, SessionOpen, Attached
  <2>2. <<c, cur>> \in Jobs
    BY <1>1, <2>1 DEF SInv, Numbered, Jobs, Undisturbed
  <2>3. QED
    BY <1>1, <2>2 DEF NothingLost
<1>2. CASE Register \/ Signal \/ Main
  <2>1. cur' = cur /\ exec' = exec /\ wire' = wire /\ (runPc' = runPc \/ runPc = "idle")
    BY <1>2 DEF Register, Signal, Main, RegisterReturns, CloseCancel, CloseCloseSend,
       CloseWait, SInv, SessionOpen
  <2>2. (cancelled => cancelled') /\ (halfClosed => halfClosed')
    <3>1. CASE Register \/ Signal \/ RegisterReturns \/ CloseWait
      <4>1. cancelled' = cancelled /\ halfClosed' = halfClosed
        BY <3>1, Zenon DEF Register, Signal, RegisterReturns, CloseWait
      <4>2. QED
        BY <4>1
    <3>2. CASE CloseCancel
      <4>1. cancelled' = TRUE /\ halfClosed' = halfClosed
        BY <3>2, Zenon DEF CloseCancel
      <4>2. QED
        BY <4>1
    <3>3. CASE CloseCloseSend
      <4>1. cancelled' = cancelled /\ halfClosed' = TRUE
        BY <3>3, Zenon DEF CloseCloseSend
      <4>2. QED
        BY <4>1
    <3>4. QED
      BY <1>2, <3>1, <3>2, <3>3 DEF Main
  <2>3. QED
    BY <1>1, <2>1, <2>2 DEF Undisturbed
<1>3. CASE RunStep
  <2>1. cur' = cur /\ exec' = exec /\ cancelled' = cancelled
    BY <1>3, Zenon DEF RunStep, RunTop, ConnectFails, SendRegister, AwaitFails,
       AwaitRejected, AwaitRegistered, StartSession, Join, Backoff
  <2>2. wire' = "finished" \/ (wire' = wire /\ runPc # "join")
    BY <1>3 DEF RunStep, RunTop, ConnectFails, SendRegister, AwaitFails, AwaitRejected,
       AwaitRegistered, StartSession, Join, Backoff, GiveUp
  <2>3. halfClosed => halfClosed'
    BY <1>3, Zenon DEF RunStep, RunTop, ConnectFails, SendRegister, AwaitFails,
       AwaitRejected, AwaitRegistered, StartSession, Join, Backoff, applyUpdateConfig,
       Handle, ForceReconnect
  <2>4. QED
    BY <1>1, <2>1, <2>2, <2>3 DEF Undisturbed
<1>4. CASE ConnectOpens
  <2>1. cur' \in Streams /\ cur' > cur /\ exec' = exec
    BY <1>4, ClientAssumption DEF ConnectOpens, TypeOK, Streams
  <2>2. \A c \in Commands : exec'[<<c, cur'>>] = "idle"
    BY <2>1 DEF SInv, Numbered
  <2>3. QED
    BY <2>2 DEF NothingLost
<1>5. CASE RecvStep /\ ~Dispatch
  <2>1. /\ cur' = cur /\ exec' = exec /\ wire' = wire /\ runPc # "join"
    BY <1>5 DEF RecvStep, RecvFailed, RecvExecute, RecvUpdateConfig, RecvDisconnect, Drain,
       RecvAck, RecvOther, Received
  <2>2. cancelled' = cancelled /\ (halfClosed => halfClosed')
    <3>1. CASE RecvUpdateConfig
      BY <3>1, Zenon DEF RecvUpdateConfig, applyUpdateConfig, Handle, ForceReconnect
    <3>2. CASE ~RecvUpdateConfig
      <4>1. cancelled' = cancelled /\ halfClosed' = halfClosed
        BY <1>5, <3>2, Zenon DEF RecvStep, RecvFailed, RecvExecute, RecvDisconnect, Drain,
           RecvAck, RecvOther
      <4>2. QED
        BY <4>1
    <3>3. QED
      BY <3>1, <3>2
  <2>3. QED
    BY <1>1, <2>1, <2>2 DEF Undisturbed
<1>6. CASE Dispatch
  <2>1. /\ cur' = cur /\ wire' = wire /\ runPc = "dispatch"
    BY <1>6 DEF Dispatch
  <2>2. cancelled' = cancelled /\ halfClosed' = halfClosed
    BY <1>6, Zenon DEF Dispatch
  <2>3. ~cancelled => \A j \in Jobs : exec[j] \notin Gone => exec'[j] \notin Gone
    BY <1>6 DEF Dispatch, StreamCtxDone, TypeOK
  <2>4. QED
    BY <1>1, <2>1, <2>2, <2>3 DEF Undisturbed
<1>7. CASE HeartbeatStep \/ HeartbeatStalls \/ HeartbeatSent
  <2>1. cur' = cur /\ exec' = exec /\ runPc' = runPc
    BY <1>7 DEF HeartbeatStep, HeartbeatStalls, HeartbeatSent, HeartbeatTick,
       HeartbeatLock, HeartbeatSendFails, HeartbeatCtxDone
  <2>2. wire' \in {wire, "finished"}
    BY <1>7 DEF HeartbeatStep, HeartbeatStalls, HeartbeatSent, HeartbeatTick,
       HeartbeatLock, HeartbeatSendFails, HeartbeatCtxDone, FinishOnFail
  <2>3. cancelled' = cancelled /\ halfClosed' = halfClosed
    BY <1>7, Zenon DEF HeartbeatStep, HeartbeatStalls, HeartbeatSent, HeartbeatTick,
       HeartbeatLock, HeartbeatSendFails, HeartbeatCtxDone
  <2>4. QED
    BY <1>1, <2>1, <2>2, <2>3 DEF Undisturbed
<1>8. ASSUME NEW j \in Jobs, TaskReturns(j) \/ Sender(j) \/ ResultSent(j)
      PROVE  NothingLost'
  <2>1. cur' = cur /\ runPc' = runPc
    BY <1>8 DEF TaskReturns, Sender, ResultSent, ResultLock, ResultLost
  <2>2. wire' \in {wire, "finished"}
    BY <1>8 DEF TaskReturns, Sender, ResultSent, ResultLock, ResultLost, FinishOnFail
  <2>3. cancelled' = cancelled /\ halfClosed' = halfClosed
    BY <1>8, Zenon DEF TaskReturns, Sender, ResultSent, ResultLock, ResultLost
  <2>4. Undisturbed /\ runPc # "join" => ~StreamCtxDone(cur) /\ ~SendFail(cur)
    <3>1. wire = "open" => runPc \in Attached
      BY DEF SInv, SessionOpen, Attached
    <3>2. QED
      BY <3>1 DEF StreamCtxDone, SendFail, Undisturbed, Attached, InSession
  <2>5. Undisturbed /\ runPc # "join" =>
          \A k \in Jobs : k[2] = cur /\ exec[k] \notin Gone => exec'[k] \notin Gone
    <3>1. CASE ResultLost(j)
      BY <2>4, <3>1 DEF ResultLost, Finish, TypeOK
    <3>2. CASE ~ResultLost(j)
      BY <1>8, <3>2 DEF TaskReturns, Sender, ResultSent, ResultLock, Finish, TypeOK
    <3>3. QED
      BY <3>1, <3>2
  <2>6. QED
    BY <1>1, <2>1, <2>2, <2>3, <2>5 DEF Undisturbed
<1>9. CASE Server
  <2>1. cur' = cur /\ runPc' = runPc /\ wire' \in {wire, "ended"}
    BY <1>9 DEF Server, ServerAnswers, ServerExecutes, ServerPushesConfig, ServerAcks,
       ServerDismisses, ServerSeesHalfClose, StreamBreaks
  <2>2. cancelled' = cancelled /\ halfClosed' = halfClosed
    BY <1>9, Zenon DEF Server, ServerAnswers, ServerExecutes, ServerPushesConfig, ServerAcks,
       ServerDismisses, ServerSeesHalfClose, StreamBreaks
  <2>3. \A j \in Jobs : exec[j] \notin Gone => exec'[j] \notin Gone
    <3>1. CASE \E c \in Commands : ServerExecutes(c)
      BY <3>1 DEF ServerExecutes, TypeOK
    <3>2. CASE ~\E c \in Commands : ServerExecutes(c)
      BY <1>9, <3>2 DEF Server, ServerAnswers, ServerPushesConfig, ServerAcks,
         ServerDismisses, ServerSeesHalfClose, StreamBreaks
    <3>3. QED
      BY <3>1, <3>2
  <2>4. QED
    BY <1>1, <2>1, <2>2, <2>3 DEF Undisturbed
<1>10. CASE UNCHANGED vars
  BY <1>1, <1>10, Zenon DEF Undisturbed, vars
<1>11. QED
  BY <1>2, <1>3, <1>4, <1>5, <1>6, <1>7, <1>8, <1>9, <1>10 DEF Next, RecvStep, Terminated

\* An execute message leaves the inbox only when its job is dispatched, or with its stream.
LEMMA SentQueuedStep ==
  ASSUME TypeOK, Tracked, DispatchHead, SInv, SentQueued, [Next]_vars
  PROVE  SentQueued'
<1> USE DEF clientVars, procVars, wireVars, peerVars, sessionVars, execFrame, serverFrame
<1> DEFINE Queued(c) == \E i \in DOMAIN inbox : inbox[i].type = "execute" /\ inbox[i].cmd = c
           SentOn(c) == exec[<<c, cur>>] = "sent"
<1>1. ASSUME wire' = "open" => wire = "open",
             wire = "open" => \A c \in Commands : SentOn(c)' => SentOn(c) \/ Queued(c)',
             wire = "open" => \A c \in Commands : SentOn(c)' /\ Queued(c) => Queued(c)'
      PROVE  SentQueued'
  BY <1>1 DEF SentQueued
<1>2. ASSUME wire' = "open" => wire = "open", cur' = cur, inbox' = inbox,
             \A j \in Jobs : j[2] = cur /\ exec'[j] = "sent" => exec[j] = "sent"
      PROVE  SentQueued'
  <2>1. wire = "open" => \A c \in Commands : <<c, cur>> \in Jobs
    BY DEF SInv, SessionOpen, Numbered, Attached, Jobs
  <2>2. QED
    BY <1>1, <1>2, <2>1
<1>3. ASSUME wire' = "open" => wire = "open", cur' = cur, inbox # <<>>, Consume,
             \A j \in Jobs : j[2] = cur /\ exec'[j] = "sent" =>
               /\ exec[j] = "sent"
               /\ ~(Head(inbox).type = "execute" /\ Head(inbox).cmd = j[1])
      PROVE  SentQueued'
  <2>1. wire = "open" => \A c \in Commands : <<c, cur>> \in Jobs
    BY DEF SInv, SessionOpen, Numbered, Attached, Jobs
  <2>2. ASSUME NEW c \in Commands, <<c, cur>> \in Jobs, SentOn(c)', Queued(c)
        PROVE  Queued(c)'
    <3>1. PICK i \in DOMAIN inbox : inbox[i].type = "execute" /\ inbox[i].cmd = c
      BY <2>2
    <3>2. i # 1
      BY <1>3, <2>2, <3>1, Consumed
    <3>3. QED
      BY <1>3, <3>1, <3>2, Consumed
  <2>3. QED
    BY <1>1, <1>3, <2>1, <2>2
<1>4. ASSUME NEW m \in Message, Push(m), cur' = cur, wire' = wire,
             \A j \in Jobs : j[2] = cur /\ exec'[j] = "sent" =>
               exec[j] = "sent" \/ (m.type = "execute" /\ m.cmd = j[1])
      PROVE  SentQueued'
  <2>1. wire = "open" => \A c \in Commands : <<c, cur>> \in Jobs
    BY DEF SInv, SessionOpen, Numbered, Attached, Jobs
  <2>2. \A c \in Commands : Queued(c) => Queued(c)'
    BY <1>4, Pushed
  <2>3. \A c \in Commands : m.type = "execute" /\ m.cmd = c => Queued(c)'
    BY <1>4, Pushed
  <2>4. QED
    BY <1>1, <1>4, <2>1, <2>2, <2>3
<1> HIDE DEF Queued, SentOn
<1>5. CASE Register \/ Signal \/ Main
  BY <1>2, <1>5 DEF Register, Signal, Main, RegisterReturns, CloseCancel, CloseCloseSend,
     CloseWait
<1>6. CASE RunTop \/ ConnectFails \/ SendRegister \/ StartSession \/ Join \/ Backoff
  <2>1. cur' = cur /\ exec' = exec /\ inbox' = inbox
    BY <1>6 DEF RunTop, ConnectFails, SendRegister, StartSession, Join, Backoff
  <2>2. wire' = "open" => wire = "open"
    BY <1>6 DEF RunTop, ConnectFails, SendRegister, StartSession, Join, Backoff, GiveUp
  <2>3. QED
    BY <1>2, <2>1, <2>2
<1>7. CASE AwaitFails \/ AwaitRejected
  BY <1>7 DEF AwaitFails, AwaitRejected, GiveUp, SentQueued
<1>8. CASE AwaitRegistered
  BY <1>3, <1>8 DEF AwaitRegistered
<1>9. CASE ConnectOpens
  <2>1. cur' \in Streams /\ cur' > cur /\ exec' = exec
    BY <1>9, ClientAssumption DEF ConnectOpens, TypeOK, Streams
  <2>2. \A c \in Commands : exec'[<<c, cur'>>] = "idle"
    BY <2>1 DEF SInv, Numbered
  <2>3. QED
    BY <2>2 DEF SentQueued
<1>10. CASE RecvFailed \/ RecvExecute \/ Drain
  BY <1>2, <1>10 DEF RecvFailed, RecvExecute, Drain
<1>11. CASE Dispatch
  <2>1. inbox # <<>> /\ Head(inbox).type = "execute" /\ Consume /\ cur' = cur /\ wire' = wire
    BY <1>11 DEF Dispatch, DispatchHead
  <2>2. \A j \in Jobs : exec'[j] = "sent" => exec[j] = "sent" /\ j # <<Head(inbox).cmd, cur>>
    BY <1>11 DEF Dispatch, TypeOK
  <2>3. \A j \in Jobs : j = <<j[1], j[2]>>
    BY DEF Jobs
  <2>4. QED
    BY <1>3, <2>1, <2>2, <2>3
<1>12. CASE RecvDisconnect \/ RecvAck \/ RecvOther \/ RecvUpdateConfig
  <2>1. /\ inbox # <<>> /\ Head(inbox).type # "execute" /\ Consume
        /\ cur' = cur /\ exec' = exec /\ wire' = wire
    BY <1>12 DEF RecvDisconnect, RecvAck, RecvOther, RecvUpdateConfig, Received
  <2>2. QED
    BY <1>3, <2>1
<1>13. CASE HeartbeatStep \/ HeartbeatStalls \/ HeartbeatSent
  <2>1. cur' = cur /\ exec' = exec /\ inbox' = inbox
    BY <1>13 DEF HeartbeatStep, HeartbeatStalls, HeartbeatSent, HeartbeatTick,
       HeartbeatLock, HeartbeatSendFails, HeartbeatCtxDone
  <2>2. wire' = "open" => wire = "open"
    BY <1>13 DEF HeartbeatStep, HeartbeatStalls, HeartbeatSent, HeartbeatTick,
       HeartbeatLock, HeartbeatSendFails, HeartbeatCtxDone, FinishOnFail
  <2>3. QED
    BY <1>2, <2>1, <2>2
<1>14. ASSUME NEW j \in Jobs, TaskReturns(j) \/ Sender(j) \/ ResultSent(j)
       PROVE  SentQueued'
  <2>1. cur' = cur /\ inbox' = inbox
    BY <1>14 DEF TaskReturns, Sender, ResultSent, ResultLock, ResultLost
  <2>2. wire' = "open" => wire = "open"
    BY <1>14 DEF TaskReturns, Sender, ResultSent, ResultLock, ResultLost, FinishOnFail
  <2>3. \A k \in Jobs : exec'[k] = "sent" => exec[k] = "sent"
    BY <1>14 DEF TaskReturns, Sender, ResultSent, ResultLock, ResultLost, Finish, TypeOK
  <2>4. QED
    BY <1>2, <2>1, <2>2, <2>3
<1>15. CASE Server
  <2>1. CASE ServerAnswers \/ ServerPushesConfig \/ ServerAcks \/ ServerDismisses
    <3>1. PICK m \in Message : Push(m)
      BY <2>1, MessageForms DEF ServerAnswers, ServerPushesConfig, ServerAcks, ServerDismisses
    <3>2. cur' = cur /\ wire' = wire /\ exec' = exec
      BY <2>1 DEF ServerAnswers, ServerPushesConfig, ServerAcks, ServerDismisses
    <3>3. QED
      BY <1>4, <3>1, <3>2
  <2>2. ASSUME NEW c \in Commands, ServerExecutes(c) PROVE SentQueued'
    <3> DEFINE m == [type |-> "execute", cmd |-> c]
    <3>1. m \in Message /\ m.type = "execute" /\ m.cmd = c
      BY MessageForms
    <3>2. Push(m) /\ cur' = cur /\ wire' = wire
      BY <2>2 DEF ServerExecutes
    <3>3. \A j \in Jobs : exec'[j] = "sent" => exec[j] = "sent" \/ j = <<c, cur>>
      BY <2>2 DEF ServerExecutes, TypeOK
    <3> HIDE DEF m
    <3>4. \A j \in Jobs : exec'[j] = "sent" => exec[j] = "sent" \/ m.cmd = j[1]
      BY <3>1, <3>3
    <3>5. QED
      BY <1>4, <3>1, <3>2, <3>4
  <2>3. CASE ServerSeesHalfClose \/ StreamBreaks
    BY <1>2, <2>3 DEF ServerSeesHalfClose, StreamBreaks
  <2>4. QED
    BY <1>15, <2>1, <2>2, <2>3 DEF Server
<1>16. CASE UNCHANGED vars
  BY <1>2, <1>16 DEF vars
<1>17. QED
  BY <1>5, <1>6, <1>7, <1>8, <1>9, <1>10, <1>11, <1>12, <1>13, <1>14, <1>15, <1>16
     DEF Next, RunStep, RecvStep, Terminated

\* Once a graceful Disconnect is received, the control plane sends nothing more.
LEMMA GracefulOverStep ==
  ASSUME TypeOK, DisconnectLast, GracefulOver, [Next]_vars
  PROVE  GracefulOver'
<1> USE DEF clientVars, procVars, wireVars, peerVars, sessionVars, execFrame, serverFrame
<1>1. ASSUME runPc' = runPc, graceful' = graceful, inbox' = inbox, peer' = peer
      PROVE  GracefulOver'
  BY <1>1 DEF GracefulOver
<1>2. ASSUME runPc' \notin {"recv", "dispatch", "drain", "join"} PROVE GracefulOver'
  BY <1>2 DEF GracefulOver
<1>3. CASE Register \/ Signal \/ Main
  <2>1. CASE Register
    BY <1>2, <2>1 DEF Register
  <2>2. CASE Signal \/ Main
    BY <1>1, <2>2, Zenon DEF Signal, Main, RegisterReturns, CloseCancel, CloseCloseSend,
       CloseWait
  <2>3. QED
    BY <1>3, <2>1, <2>2
<1>4. CASE RunTop \/ ConnectFails \/ ConnectOpens \/ Backoff
  BY <1>2, <1>4 DEF RunTop, ConnectFails, ConnectOpens, Backoff, ReturnToRun
<1>5. CASE SendRegister \/ AwaitFails \/ AwaitRejected \/ AwaitRegistered \/ Join
  BY <1>2, <1>5 DEF SendRegister, AwaitFails, AwaitRejected, AwaitRegistered, Join, GiveUp,
     ReturnToRun
<1>6. CASE StartSession
  BY <1>6 DEF StartSession, GracefulOver
<1>7. CASE RecvFailed \/ RecvExecute
  <2>1. runPc = "recv" /\ runPc' \in {"join", "dispatch"}
    BY <1>7 DEF RecvFailed, RecvExecute, Received
  <2>2. graceful' = graceful
    BY <1>7, Zenon DEF RecvFailed, RecvExecute
  <2>3. QED
    BY <2>1, <2>2 DEF GracefulOver
<1>8. CASE Dispatch \/ RecvUpdateConfig \/ RecvAck \/ RecvOther
  <2>1. runPc \in {"recv", "dispatch"} /\ runPc' \in {"recv", "join"}
    BY <1>8 DEF Dispatch, RecvUpdateConfig, RecvAck, RecvOther, Received
  <2>2. graceful' = graceful
    BY <1>8, Zenon DEF Dispatch, RecvUpdateConfig, RecvAck, RecvOther
  <2>3. QED
    BY <2>1, <2>2 DEF GracefulOver
<1>9. CASE RecvDisconnect
  <2>1. inbox # <<>> /\ Head(inbox).type = "disconnect" /\ Consume /\ peer' = peer
    BY <1>9 DEF RecvDisconnect, Received
  <2>2. inbox' = <<>> /\ peer' = "ended"
    BY <2>1, Consumed DEF DisconnectLast
  <2>3. CASE Head(inbox).graceful
    BY <1>9, <2>2, <2>3 DEF RecvDisconnect, GracefulOver
  <2>4. CASE ~Head(inbox).graceful
    BY <1>9, <2>4 DEF RecvDisconnect, GracefulOver
  <2>5. QED
    BY <2>3, <2>4
<1>10. CASE Drain
  <2>1. runPc = "drain" /\ runPc' = "join" /\ inbox' = inbox /\ peer' = peer
    BY <1>10 DEF Drain
  <2>2. graceful' = graceful
    BY <1>10, Zenon DEF Drain
  <2>3. QED
    BY <2>1, <2>2 DEF GracefulOver
<1>11. CASE HeartbeatStep \/ HeartbeatStalls \/ HeartbeatSent
  BY <1>1, <1>11, Zenon DEF HeartbeatStep, HeartbeatStalls, HeartbeatSent, HeartbeatTick,
     HeartbeatLock, HeartbeatSendFails, HeartbeatCtxDone
<1>12. ASSUME NEW j \in Jobs, TaskReturns(j) \/ Sender(j) \/ ResultSent(j)
       PROVE  GracefulOver'
  BY <1>1, <1>12, Zenon DEF TaskReturns, Sender, ResultSent, ResultLock, ResultLost
<1>13. CASE Server
  <2>1. runPc' = runPc /\ (UNCHANGED <<inbox, peer>> \/ peer # "ended")
    BY <1>13 DEF Server, ServerAnswers, ServerExecutes, ServerPushesConfig, ServerAcks,
       ServerDismisses, ServerSeesHalfClose, StreamBreaks
  <2>2. graceful' = graceful
    BY <1>13, Zenon DEF Server, ServerAnswers, ServerExecutes, ServerPushesConfig, ServerAcks,
       ServerDismisses, ServerSeesHalfClose, StreamBreaks
  <2>3. QED
    BY <2>1, <2>2 DEF GracefulOver
<1>14. CASE UNCHANGED vars
  BY <1>1, <1>14, Zenon DEF vars
<1>15. QED
  BY <1>3, <1>4, <1>5, <1>6, <1>7, <1>8, <1>9, <1>10, <1>11, <1>12, <1>13, <1>14
     DEF Next, RunStep, RecvStep, Terminated

\* At the end of the drain every job of the stream has been delivered, and nothing can
\* happen to one in the join.
LEMMA DeliveredStep ==
  ASSUME TypeOK, SInv, DInv, [Next]_vars
  PROVE  GracefulDelivers'
<1> USE DEF clientVars, procVars, wireVars, peerVars, sessionVars, execFrame, serverFrame
<1> DEFINE Over(c) == exec[<<c, cur>>] \in {"idle", "delivered"}
<1> SUFFICES ASSUME runPc' = "join", graceful', wire' = "open", ~halfClosed', ~cancelled',
                    NEW c \in Commands
             PROVE  Over(c)'
  BY DEF GracefulDelivers
<1>1. ASSUME runPc = "join", graceful, Undisturbed PROVE Over(c) /\ <<c, cur>> \in Jobs
                                                     /\ peer = "ended"
  BY <1>1 DEF DInv, GracefulDelivers, GracefulOver, Undisturbed, SInv, Numbered, Attached,
     InSession, Jobs
<1>2. CASE Register \/ Signal \/ Main
  <2>1. CASE Register \/ CloseCancel
    BY <2>1 DEF Register, CloseCancel
  <2>2. CASE CloseCloseSend
    BY <2>2 DEF CloseCloseSend
  <2>3. CASE Signal \/ RegisterReturns \/ CloseWait
    <3>1. runPc' = runPc /\ wire' = wire /\ exec' = exec /\ cur' = cur
      BY <2>3 DEF Signal, RegisterReturns, CloseWait
    <3>2. graceful' = graceful /\ halfClosed' = halfClosed /\ cancelled' = cancelled
      BY <2>3, Zenon DEF Signal, RegisterReturns, CloseWait
    <3>3. QED
      BY <1>1, <3>1, <3>2 DEF Undisturbed
  <2>4. QED
    BY <1>2, <2>1, <2>2, <2>3 DEF Main
<1>3. CASE RunStep \/ ConnectOpens
  BY <1>3 DEF RunStep, ConnectOpens, RunTop, ConnectFails, SendRegister, AwaitFails,
     AwaitRejected, AwaitRegistered, StartSession, Join, Backoff, GiveUp, ReturnToRun
<1>4. CASE RecvStep /\ ~Drain /\ ~RecvDisconnect
  <2>1. runPc \in {"recv", "dispatch"}
    BY <1>4 DEF RecvStep, RecvFailed, RecvExecute, Dispatch, RecvUpdateConfig, RecvAck,
       RecvOther, Received
  <2>2. graceful' = graceful
    BY <1>4, Zenon DEF RecvStep, RecvFailed, RecvExecute, Dispatch, RecvUpdateConfig,
       RecvAck, RecvOther
  <2>3. QED
    BY <2>1, <2>2 DEF DInv, GracefulOver
<1>5. CASE RecvDisconnect
  BY <1>5 DEF RecvDisconnect
<1>6. CASE Drain
  <2>1. runPc = "drain" /\ wire' = wire /\ exec' = exec /\ cur' = cur /\ InFlight = {}
    BY <1>6 DEF Drain, Drained
  <2>2. halfClosed' = halfClosed /\ cancelled' = cancelled
    BY <1>6, Zenon DEF Drain
  <2>3. Undisturbed
    BY <2>1, <2>2 DEF Undisturbed
  <2>4. inbox = <<>>
    BY <2>1 DEF DInv, GracefulOver
  <2>5. <<c, cur>> \in Jobs
    BY <2>1 DEF SInv, Numbered, Attached, InSession, Jobs
  <2>6. exec[<<c, cur>>] \notin {"lost", "dropped"}
    BY <2>1, <2>3 DEF DInv, NothingLost
  <2>7. exec[<<c, cur>>] # "sent"
    <3>1. DOMAIN inbox = {}
      BY <2>4
    <3>2. QED
      BY <2>3, <3>1 DEF DInv, SentQueued, Undisturbed
  <2>8. exec[<<c, cur>>] \notin {"running", "send", "sending"}
    BY <2>1, <2>5 DEF InFlight
  <2>9. exec[<<c, cur>>] \in ExecPcs
    BY <2>5 DEF TypeOK
  <2>10. QED
    BY <2>1, <2>6, <2>7, <2>8, <2>9 DEF ExecPcs
<1>7. CASE HeartbeatStep \/ HeartbeatStalls \/ HeartbeatSent
  <2>1. runPc' = runPc /\ exec' = exec /\ cur' = cur /\ wire' \in {wire, "finished"}
    BY <1>7 DEF HeartbeatStep, HeartbeatStalls, HeartbeatSent, HeartbeatTick,
       HeartbeatLock, HeartbeatSendFails, HeartbeatCtxDone, FinishOnFail
  <2>2. graceful' = graceful /\ halfClosed' = halfClosed /\ cancelled' = cancelled
    BY <1>7, Zenon DEF HeartbeatStep, HeartbeatStalls, HeartbeatSent, HeartbeatTick,
       HeartbeatLock, HeartbeatSendFails, HeartbeatCtxDone
  <2>3. QED
    BY <1>1, <2>1, <2>2 DEF Undisturbed
<1>8. ASSUME NEW j \in Jobs, TaskReturns(j) \/ Sender(j) \/ ResultSent(j)
      PROVE  Over(c)'
  <2>1. runPc' = runPc /\ cur' = cur /\ wire' \in {wire, "finished"}
    BY <1>8 DEF TaskReturns, Sender, ResultSent, ResultLock, ResultLost, FinishOnFail
  <2>2. graceful' = graceful /\ halfClosed' = halfClosed /\ cancelled' = cancelled
    BY <1>8, Zenon DEF TaskReturns, Sender, ResultSent, ResultLock, ResultLost
  <2>3. Over(c) /\ <<c, cur>> \in Jobs
    BY <1>1, <2>1, <2>2 DEF Undisturbed
  <2>4. exec'[<<c, cur>>] = exec[<<c, cur>>]
    BY <1>8, <2>3 DEF TaskReturns, Sender, ResultSent, ResultLock, ResultLost, Finish, TypeOK
  <2>5. QED
    BY <2>1, <2>3, <2>4
<1>9. CASE Server
  <2>1. runPc' = runPc /\ cur' = cur /\ wire' \in {wire, "ended"}
        /\ (exec' = exec \/ peer # "ended")
    BY <1>9 DEF Server, ServerAnswers, ServerExecutes, ServerPushesConfig, ServerAcks,
       ServerDismisses, ServerSeesHalfClose, StreamBreaks
  <2>2. graceful' = graceful /\ halfClosed' = halfClosed /\ cancelled' = cancelled
    BY <1>9, Zenon DEF Server, ServerAnswers, ServerExecutes, ServerPushesConfig, ServerAcks,
       ServerDismisses, ServerSeesHalfClose, StreamBreaks
  <2>3. QED
    BY <1>1, <2>1, <2>2 DEF Undisturbed
<1>10. CASE UNCHANGED vars
  <2>1. runPc' = runPc /\ exec' = exec /\ cur' = cur /\ wire' = wire
    BY <1>10 DEF vars
  <2>2. graceful' = graceful /\ halfClosed' = halfClosed /\ cancelled' = cancelled
    BY <1>10, Zenon DEF vars
  <2>3. QED
    BY <1>1, <2>1, <2>2 DEF Undisturbed
<1>11. QED
  BY <1>2, <1>3, <1>4, <1>5, <1>6, <1>7, <1>8, <1>9, <1>10 DEF Next, RecvStep, Terminated

-----------------------------------------------------------------------------
(* Which manifest the control plane works from. *)

\* What an update that arrives in a session does to the manifest: the stream is half-closed
\* in the same step.
LEMMA CapsFollowed ==
  ASSUME stream # 0, NEW v, NEW b \in BOOLEAN, applyUpdateConfig(v, b)
  PROVE  caps' = caps \/ halfClosed'
BY DEF applyUpdateConfig, Handle, ForceReconnect

\* Only the answer to Register is taken before the session, and it changes the manifest once
\* if the effective config may change it, and never otherwise.
LEMMA CapsKept ==
  ASSUME AwaitRegistered
  PROVE  caps' = caps \/ (EffectiveMayChange /\ caps' = caps + 1)
BY DEF AwaitRegistered, applyUpdateConfig, Handle

\* The Registered of a stream answers the Register of that stream (client.go:394-413).
LEMMA AcceptedStep ==
  ASSUME TypeOK, DispatchHead, RegisterFirst, Accepted, [Next]_vars
  PROVE  Accepted'
<1> USE DEF InSession, clientVars, procVars, wireVars, peerVars, sessionVars, execFrame,
            serverFrame
<1> DEFINE Holds == \E i \in DOMAIN inbox : inbox[i].type = "registered"
           In    == runPc \in InSession \cup {"setup"}
<1>1. ASSUME UNCHANGED <<manifest, advertised>>,
             peer' = "serving" \/ Holds' \/ In' => peer = "serving" \/ Holds \/ In
      PROVE  Accepted'
  BY <1>1 DEF Accepted
<1>2. ASSUME inbox # <<>>, Consume PROVE Holds' => Holds
  BY <1>2, Consumed
<1>3. ASSUME NEW m \in Message, Push(m), m.type # "registered" PROVE Holds' => Holds
  BY <1>3, Pushed
<1>4. inbox' = inbox => (Holds' <=> Holds)
  OBVIOUS
<1> HIDE DEF Holds
<1>5. CASE Register \/ Signal \/ Main
  BY <1>1, <1>4, <1>5 DEF Register, Signal, Main, RegisterReturns, CloseCancel,
     CloseCloseSend, CloseWait
<1>6. CASE RunTop \/ ConnectFails \/ StartSession \/ Join \/ Backoff
  BY <1>1, <1>4, <1>6 DEF RunTop, ConnectFails, StartSession, Join, Backoff, GiveUp,
     ReturnToRun
<1>7. CASE SendRegister
  <2>1. peer' \in {"idle", "hello"} /\ runPc' \notin InSession \cup {"setup"} /\ inbox' = <<>>
    BY <1>7 DEF SendRegister, RegisterFirst, GiveUp, ReturnToRun
  <2>2. ~Holds'
    BY <2>1 DEF Holds
  <2>3. QED
    BY <2>1, <2>2 DEF Accepted, Holds
<1>8. CASE AwaitFails \/ AwaitRejected
  <2>1. Holds' => Holds
    BY <1>2, <1>4, <1>8 DEF AwaitFails, AwaitRejected
  <2>2. UNCHANGED <<manifest, advertised, peer>> /\ ~In'
    BY <1>8 DEF AwaitFails, AwaitRejected, GiveUp, ReturnToRun
  <2>3. QED
    BY <1>1, <2>1, <2>2
<1>9. CASE AwaitRegistered
  <2>1. Holds
    BY <1>9, HeadAndTail DEF AwaitRegistered, TypeOK, Holds
  <2>2. QED
    BY <1>1, <1>9, <2>1 DEF AwaitRegistered
<1>10. CASE ConnectOpens
  <2>1. inbox' = <<>> /\ peer' = "idle" /\ runPc' = "register"
    BY <1>10 DEF ConnectOpens
  <2>2. ~Holds'
    BY <2>1 DEF Holds
  <2>3. QED
    BY <2>1, <2>2 DEF Accepted, Holds
<1>11. CASE RecvStep
  <2>1. In /\ UNCHANGED <<manifest, advertised>>
    BY <1>11 DEF RecvStep, RecvFailed, RecvExecute, Dispatch, RecvUpdateConfig,
       RecvDisconnect, Drain, RecvAck, RecvOther, Received
  <2>2. QED
    BY <1>1, <2>1
<1>12. CASE HeartbeatStep \/ HeartbeatStalls \/ HeartbeatSent
  <2>1. UNCHANGED <<manifest, advertised, peer, inbox, runPc>>
    BY <1>12 DEF HeartbeatStep, HeartbeatStalls, HeartbeatSent, HeartbeatTick,
       HeartbeatLock, HeartbeatSendFails, HeartbeatCtxDone
  <2>2. QED
    BY <1>1, <1>4, <2>1
<1>13. ASSUME NEW j \in Jobs, TaskReturns(j) \/ Sender(j) \/ ResultSent(j)
       PROVE  Accepted'
  <2>1. UNCHANGED <<manifest, advertised, peer, inbox, runPc>>
    BY <1>13 DEF TaskReturns, Sender, ResultSent, ResultLock, ResultLost
  <2>2. QED
    BY <1>1, <1>4, <2>1
<1>14. CASE Server
  <2>1. UNCHANGED <<manifest, runPc>>
    BY <1>14 DEF Server, ServerAnswers, ServerExecutes, ServerPushesConfig, ServerAcks,
       ServerDismisses, ServerSeesHalfClose, StreamBreaks
  <2>2. CASE ServerAnswers
    <3>1. CASE advertised' = manifest
      BY <2>1, <3>1 DEF Accepted
    <3>2. CASE advertised' # manifest
      <4>1. PICK m \in Message : m.type # "registered" /\ Push(m)
        BY <2>2, <3>2, MessageForms DEF ServerAnswers
      <4>2. peer' = "ended" /\ advertised' = advertised
        BY <2>2, <3>2 DEF ServerAnswers
      <4>3. QED
        BY <1>1, <1>3, <2>1, <4>1, <4>2
    <3>3. QED
      BY <3>1, <3>2
  <2>3. CASE \/ ServerPushesConfig \/ ServerAcks \/ ServerDismisses
             \/ \E c \in Commands : ServerExecutes(c)
    BY <1>1, <2>1, <2>3 DEF ServerPushesConfig, ServerAcks, ServerDismisses, ServerExecutes
  <2>4. CASE ServerSeesHalfClose \/ StreamBreaks
    BY <1>1, <1>4, <2>1, <2>4 DEF ServerSeesHalfClose, StreamBreaks
  <2>5. QED
    BY <1>14, <2>2, <2>3, <2>4 DEF Server
<1>15. CASE UNCHANGED vars
  BY <1>1, <1>4, <1>15 DEF vars
<1>16. QED
  BY <1>5, <1>6, <1>7, <1>8, <1>9, <1>10, <1>11, <1>12, <1>13, <1>14, <1>15
     DEF Next, RunStep, Terminated

\* The manifest sent stays the current one until the stream is half-closed (client.go:682).
LEMMA SentStep ==
  ASSUME TypeOK, SInv, Sent, Published, [Next]_vars
  PROVE  Sent' /\ Published'
<1> USE DEF InSession, clientVars, procVars, wireVars, peerVars, sessionVars, execFrame,
            serverFrame
<1> DEFINE With == runPc \in InSession \cup {"await", "setup"}
<1>1. ASSUME UNCHANGED <<manifest, caps>>, With' => With, runPc' = "await" => runPc = "await",
             halfClosed => halfClosed'
      PROVE  Sent'
  BY <1>1 DEF Sent
<1>2. CASE Register \/ Signal \/ Main
  <2>1. UNCHANGED <<manifest, caps, stream>> /\ (runPc' = runPc \/ runPc' = "top")
    BY <1>2 DEF Register, Signal, Main, RegisterReturns, CloseCancel, CloseCloseSend, CloseWait
  <2>2. halfClosed' = halfClosed \/ halfClosed' = TRUE
    BY <1>2, Zenon DEF Register, Signal, Main, RegisterReturns, CloseCancel,
       CloseCloseSend, CloseWait
  <2>3. QED
    BY <1>1, <2>1, <2>2 DEF Published
<1>3. CASE RunTop \/ ConnectFails \/ AwaitFails \/ AwaitRejected \/ Join \/ Backoff
  BY <1>3 DEF RunTop, ConnectFails, AwaitFails, AwaitRejected, Join, Backoff, GiveUp,
     ReturnToRun, Sent, Published
<1>4. CASE SendRegister
  BY <1>4 DEF SendRegister, GiveUp, ReturnToRun, Sent, Published
<1>5. CASE AwaitRegistered
  <2>1. runPc = "await" /\ runPc' = "setup" /\ manifest' = manifest /\ stream' = stream
    BY <1>5 DEF AwaitRegistered
  <2>2. caps' = caps \/ (EffectiveMayChange /\ caps' = caps + 1)
    BY <1>5, CapsKept
  <2>3. ~halfClosed' => ~halfClosed
    BY <1>5, Zenon DEF AwaitRegistered, applyUpdateConfig, Handle, ForceReconnect
  <2>4. QED
    BY <2>1, <2>2, <2>3 DEF Sent, Published
<1>6. CASE StartSession
  <2>1. runPc = "setup" /\ runPc' = "recv" /\ manifest' = manifest /\ caps' = caps
        /\ stream' = cur
    BY <1>6 DEF StartSession
  <2>2. cur # 0
    BY <2>1 DEF SInv, Numbered, Attached, Streams
  <2>3. halfClosed' = halfClosed
    BY <1>6, Zenon DEF StartSession
  <2>4. QED
    BY <1>1, <2>1, <2>2, <2>3 DEF Published
<1>7. CASE ConnectOpens
  BY <1>7 DEF ConnectOpens, Sent, Published
<1>8. CASE RecvUpdateConfig
  <2>1. runPc = "recv" /\ runPc' = runPc /\ manifest' = manifest /\ stream' = stream
        /\ stream # 0
    BY <1>8 DEF RecvUpdateConfig, Received, Published
  <2>2. caps' = caps \/ halfClosed'
    BY <1>8, <2>1, CapsFollowed DEF RecvUpdateConfig
  <2>3. ~halfClosed' => ~halfClosed
    BY <1>8, Zenon DEF RecvUpdateConfig, applyUpdateConfig, Handle, ForceReconnect
  <2>4. QED
    BY <2>1, <2>2, <2>3 DEF Sent, Published
<1>9. CASE RecvStep /\ ~RecvUpdateConfig
  <2>1. UNCHANGED <<manifest, caps, stream>> /\ runPc \in InSession
        /\ runPc' # "await"
    BY <1>9 DEF RecvStep, RecvFailed, RecvExecute, Dispatch, RecvDisconnect, Drain,
       RecvAck, RecvOther, Received
  <2>2. halfClosed' = halfClosed
    BY <1>9, Zenon DEF RecvStep, RecvFailed, RecvExecute, Dispatch, RecvDisconnect, Drain,
       RecvAck, RecvOther
  <2>3. QED
    BY <1>1, <2>1, <2>2 DEF Published
<1>10. CASE HeartbeatStep \/ HeartbeatStalls \/ HeartbeatSent
  <2>1. UNCHANGED <<manifest, caps, stream, runPc>>
    BY <1>10 DEF HeartbeatStep, HeartbeatStalls, HeartbeatSent, HeartbeatTick,
       HeartbeatLock, HeartbeatSendFails, HeartbeatCtxDone
  <2>2. halfClosed' = halfClosed
    BY <1>10, Zenon DEF HeartbeatStep, HeartbeatStalls, HeartbeatSent, HeartbeatTick,
       HeartbeatLock, HeartbeatSendFails, HeartbeatCtxDone
  <2>3. QED
    BY <1>1, <2>1, <2>2 DEF Published
<1>11. ASSUME NEW j \in Jobs, TaskReturns(j) \/ Sender(j) \/ ResultSent(j)
       PROVE  Sent' /\ Published'
  <2>1. UNCHANGED <<manifest, caps, stream, runPc>>
    BY <1>11 DEF TaskReturns, Sender, ResultSent, ResultLock, ResultLost
  <2>2. halfClosed' = halfClosed
    BY <1>11, Zenon DEF TaskReturns, Sender, ResultSent, ResultLock, ResultLost
  <2>3. QED
    BY <1>1, <2>1, <2>2 DEF Published
<1>12. CASE Server
  <2>1. UNCHANGED <<manifest, caps, stream, runPc>>
    BY <1>12 DEF Server, ServerAnswers, ServerExecutes, ServerPushesConfig, ServerAcks,
       ServerDismisses, ServerSeesHalfClose, StreamBreaks
  <2>2. halfClosed' = halfClosed
    BY <1>12, Zenon DEF Server, ServerAnswers, ServerExecutes, ServerPushesConfig, ServerAcks,
       ServerDismisses, ServerSeesHalfClose, StreamBreaks
  <2>3. QED
    BY <1>1, <2>1, <2>2 DEF Published
<1>13. CASE UNCHANGED vars
  <2>1. UNCHANGED <<manifest, caps, stream, runPc>>
    BY <1>13 DEF vars
  <2>2. halfClosed' = halfClosed
    BY <1>13, Zenon DEF vars
  <2>3. QED
    BY <1>1, <2>1, <2>2 DEF Published
<1>14. QED
  BY <1>2, <1>3, <1>4, <1>5, <1>6, <1>7, <1>8, <1>9, <1>10, <1>11, <1>12, <1>13
     DEF Next, RunStep, Terminated

-----------------------------------------------------------------------------
(* What the control plane sees of its commands. *)

ServiceStep == [Service!ServiceNext]_Service!serviceVars

\* A session neither comes back from being over nor is drained but by recvLoop's leaving it.
LEMMA StatusFollows ==
  ASSUME Undisturbed' => Undisturbed,
         Undisturbed' /\ runPc' # "join" => runPc # "join",
         Undisturbed' /\ runPc' = "join" => ~graceful' \/ (runPc = "join" /\ graceful)
  PROVE  SessionStatus' \in {SessionStatus, "over"}
BY DEF SessionStatus

\* A step that leaves commands and streams alone is none of the service's, or ends the session.
LEMMA QuietStep ==
  ASSUME cur' = cur, cancelled' = cancelled, SessionStatus' \in {SessionStatus, "over"},
         \A j \in Jobs : Fate(exec'[j]) = Fate(exec[j])
  PROVE  ServiceStep
<1>1. [j \in Jobs |-> Fate(exec'[j])] = [j \in Jobs |-> Fate(exec[j])]
  OBVIOUS
<1>2. CASE SessionStatus' = SessionStatus
  BY <1>1, <1>2 DEF ServiceStep, Service!serviceVars
<1>3. CASE SessionStatus' = "over"
  <2>1. Service!End
    BY <1>1, <1>3 DEF Service!End
  <2>2. QED
    BY <2>1 DEF ServiceStep, Service!ServiceNext
<1>4. QED
  BY <1>2, <1>3

\* Of what main does, the service sees the shutdown.
LEMMA MainServes ==
  ASSUME SInv, Register \/ Signal \/ Main
  PROVE  ServiceStep
<1> USE DEF clientVars, procVars, wireVars, peerVars
<1>1. CASE CloseCancel
  <2>1. exec' = exec /\ cur' = cur
    BY <1>1 DEF CloseCancel
  <2>2. cancelled' = TRUE /\ SessionStatus' = "over"
    BY <1>1, Zenon DEF CloseCancel, SessionStatus, Undisturbed
  <2>3. Service!ShutDown
    BY <2>1, <2>2 DEF Service!ShutDown
  <2>4. QED
    BY <2>3 DEF ServiceStep, Service!ServiceNext
<1>2. CASE CloseCloseSend
  <2>1. exec' = exec /\ cur' = cur
    BY <1>2 DEF CloseCloseSend
  <2>2. cancelled' = cancelled /\ SessionStatus' = "over"
    BY <1>2, Zenon DEF CloseCloseSend, SessionStatus, Undisturbed
  <2>3. QED
    BY <2>1, <2>2, QuietStep
<1>3. CASE Register \/ Signal \/ RegisterReturns \/ CloseWait
  <2>1. exec' = exec /\ cur' = cur /\ wire' = wire
        /\ (runPc' = runPc \/ (runPc = "idle" /\ runPc' = "top"))
    BY <1>3 DEF Register, Signal, RegisterReturns, CloseWait, SInv, SessionOpen
  <2>2. UNCHANGED <<cancelled, halfClosed, graceful>>
    BY <1>3, Zenon DEF Register, Signal, RegisterReturns, CloseWait
  <2>3. SessionStatus' \in {SessionStatus, "over"}
    BY <2>1, <2>2, StatusFollows DEF Undisturbed
  <2>4. QED
    BY <2>1, <2>2, <2>3, QuietStep
<1>4. QED
  BY <1>1, <1>2, <1>3 DEF Main

\* Of what connectOnce does around recvLoop, it sees a session start or end.
LEMMA RunServes ==
  ASSUME TypeOK, RunStep \/ ConnectOpens
  PROVE  ServiceStep
<1> USE DEF clientVars, procVars, wireVars, peerVars
<1>1. CASE ConnectOpens
  <2>1. exec' = exec /\ cur' = cur + 1 /\ cur + 1 \in Streams
    BY <1>1, ClientAssumption DEF ConnectOpens, TypeOK, Streams
  <2>2. ~cancelled /\ ~cancelled' /\ ~halfClosed' /\ wire' = "open" /\ runPc' = "register"
    BY <1>1, Zenon DEF ConnectOpens
  <2>3. SessionStatus' = "open" /\ cancelled' = cancelled
    <3>1. SessionStatus' = "open"
      BY <2>2 DEF SessionStatus, Undisturbed
    <3>2. QED
      BY <1>1, <3>1, Zenon DEF ConnectOpens
  <2>4. Service!Open
    BY <2>1, <2>2, <2>3 DEF Service!Open
  <2>5. QED
    BY <2>4 DEF ServiceStep, Service!ServiceNext
<1>2. CASE RunStep
  <2>1. exec' = exec /\ cur' = cur /\ wire' \in {wire, "finished"}
    BY <1>2 DEF RunStep, RunTop, ConnectFails, SendRegister, AwaitFails, AwaitRejected,
       AwaitRegistered, StartSession, Join, Backoff, GiveUp
  <2>2. cancelled' = cancelled
    BY <1>2, Zenon DEF RunStep, RunTop, ConnectFails, SendRegister, AwaitFails,
       AwaitRejected, AwaitRegistered, StartSession, Join, Backoff
  <2>3. halfClosed => halfClosed'
    <3>1. CASE AwaitRegistered
      <4>1. halfClosed' = halfClosed \/ halfClosed' = TRUE
        BY <3>1, Zenon DEF AwaitRegistered, applyUpdateConfig, Handle, ForceReconnect
      <4>2. QED
        BY <4>1
    <3>2. CASE ~AwaitRegistered
      <4>1. halfClosed' = halfClosed
        BY <1>2, <3>2, Zenon DEF RunStep, RunTop, ConnectFails, SendRegister, AwaitFails,
           AwaitRejected, StartSession, Join, Backoff
      <4>2. QED
        BY <4>1
    <3>3. QED
      BY <3>1, <3>2
  <2>4. runPc' # "join" /\ (runPc = "join" => wire' = "finished")
    BY <1>2 DEF RunStep, RunTop, ConnectFails, SendRegister, AwaitFails, AwaitRejected,
       AwaitRegistered, StartSession, Join, Backoff, GiveUp, ReturnToRun
  <2>5. SessionStatus' \in {SessionStatus, "over"}
    BY <2>1, <2>2, <2>3, <2>4, StatusFollows DEF Undisturbed
  <2>6. QED
    BY <2>1, <2>2, <2>5, QuietStep
<1>3. QED
  BY <1>1, <1>2

\* The service counts as the client does.
LEMMA ServiceCounts ==
  ASSUME NEW S
  PROVE  Service!Cardinality(S) = Cardinality(S)
BY DEF Service!Cardinality, Cardinality

\* recvLoop starts a command, or refuses it when it is shutting down.
LEMMA DispatchServes ==
  ASSUME IInv, SInv, Dispatch
  PROVE  ServiceStep
<1> DEFINE c == Head(inbox).cmd
           j == <<c, cur>>
<1>1. runPc = "dispatch" /\ runPc' = "recv" /\ cur' = cur /\ wire' = wire
  BY DEF Dispatch
<1>2. UNCHANGED <<cancelled, halfClosed, graceful>>
  BY Zenon DEF Dispatch
<1>3. SessionStatus' = SessionStatus
  <2>1. Undisturbed' <=> Undisturbed
    BY <1>1, <1>2 DEF Undisturbed
  <2>2. QED
    BY <1>1, <2>1 DEF SessionStatus
<1>4. c \in Commands /\ cur \in Streams /\ j \in Jobs /\ exec[j] = "sent"
  <2>1. inbox # <<>> /\ Head(inbox).type = "execute"
    BY <1>1 DEF IInv, DispatchHead
  <2>2. Head(inbox) \in Message /\ Head(inbox) = inbox[1] /\ 1 \in DOMAIN inbox
    BY <2>1, HeadAndTail DEF IInv, TypeOK
  <2>3. QED
    BY <2>1, <2>2, MessageFields DEF IInv, InboxTracked, Jobs
<1>5. ASSUME NEW pc \in {"running", "dropped"}, exec' = [exec EXCEPT ![j] = pc]
      PROVE  [k \in Jobs |-> Fate(exec'[k])]
               = [[k \in Jobs |-> Fate(exec[k])] EXCEPT ![j] = Fate(pc)]
  BY <1>4, <1>5 DEF IInv, TypeOK
<1>6. Service!Executing = InFlight
  BY DEF Service!Executing, Service!Sendings, InFlight, Fate, Jobs, IInv, TypeOK, ExecPcs
<1>7. Fate(exec[j]) = "sent" /\ Fate("running") = "running" /\ Fate("dropped") = "refused"
  BY <1>4 DEF Fate
<1>8. CASE SlotFree /\ exec' = [exec EXCEPT ![j] = "running"]
  <2>1. Service!Cardinality(Service!Executing) < MaxConcurrent
    BY <1>6, <1>8, ServiceCounts DEF SlotFree, IInv, SemaphoreExact
  <2>2. Service!Start(c)
    BY <1>1, <1>2, <1>3, <1>4, <1>5, <1>7, <1>8, <2>1 DEF Service!Start, Service!Becomes
  <2>3. QED
    BY <1>4, <2>2 DEF ServiceStep, Service!ServiceNext
<1>9. CASE StreamCtxDone(cur) /\ exec' = [exec EXCEPT ![j] = "dropped"]
  <2>1. cancelled
    BY <1>1, <1>9 DEF StreamCtxDone
  <2>2. Service!Refuse(c)
    BY <1>1, <1>2, <1>3, <1>4, <1>5, <1>7, <1>9, <2>1 DEF Service!Refuse, Service!Becomes
  <2>3. QED
    BY <1>4, <2>2 DEF ServiceStep, Service!ServiceNext
<1>10. QED
  BY <1>8, <1>9 DEF Dispatch

\* What recvLoop leaves drained owes nothing; any other way out of it ends the session.
LEMMA RecvServes ==
  ASSUME IInv, SInv, DInv, GracefulDelivers', RecvStep
  PROVE  ServiceStep
<1> USE DEF clientVars, procVars, wireVars, peerVars
<1>1. CASE Drain
  <2>1. exec' = exec /\ cur' = cur /\ wire' = wire /\ runPc = "drain" /\ runPc' = "join"
    BY <1>1 DEF Drain
  <2>2. UNCHANGED <<cancelled, halfClosed, graceful>>
    BY <1>1, Zenon DEF Drain
  <2>3. CASE ~Undisturbed
    <3>1. ~Undisturbed'
      BY <2>1, <2>2, <2>3 DEF Undisturbed
    <3>2. SessionStatus' \in {SessionStatus, "over"}
      BY <2>3, <3>1, StatusFollows
    <3>3. QED
      BY <2>1, <2>2, <3>2, QuietStep
  <2>4. CASE Undisturbed
    <3>1. graceful' /\ Undisturbed'
      BY <2>1, <2>2, <2>4 DEF Undisturbed, DInv, GracefulOver
    <3>2. SessionStatus = "open" /\ SessionStatus' = "drained"
      BY <2>1, <2>4, <3>1 DEF SessionStatus
    <3>3. cur \in Streams
      BY <2>1 DEF SInv, Numbered, Attached, InSession
    <3>4. \A c \in Commands : <<c, cur>> \in Jobs /\ exec[<<c, cur>>] \in {"idle", "delivered"}
      BY <2>1, <2>2, <3>1, <3>3 DEF GracefulDelivers, Undisturbed, Jobs
    <3>5. \A c \in Commands : Fate(exec[<<c, cur>>]) \in {"unsent", "delivered"}
      BY <3>4 DEF Fate
    <3>6. Service!Drained
      BY <2>1, <2>2, <3>2, <3>4, <3>5 DEF Service!Drained
    <3>7. QED
      BY <3>6 DEF ServiceStep, Service!ServiceNext
  <2>5. QED
    BY <2>3, <2>4
<1>2. CASE RecvFailed \/ RecvExecute \/ RecvUpdateConfig \/ RecvDisconnect \/ RecvAck \/ RecvOther
  <2>1. exec' = exec /\ cur' = cur /\ wire' = wire /\ runPc = "recv"
    BY <1>2 DEF RecvFailed, RecvExecute, RecvUpdateConfig, RecvDisconnect, RecvAck, RecvOther,
       Received
  <2>2. cancelled' = cancelled
    BY <1>2, Zenon DEF RecvFailed, RecvExecute, RecvUpdateConfig, RecvDisconnect, RecvAck,
       RecvOther
  <2>3. halfClosed => halfClosed'
    <3>1. halfClosed' = halfClosed \/ halfClosed' = TRUE
      BY <1>2, Zenon DEF RecvFailed, RecvExecute, RecvUpdateConfig, RecvDisconnect, RecvAck,
         RecvOther, applyUpdateConfig, Handle, ForceReconnect
    <3>2. QED
      BY <3>1
  <2>4. runPc' = "join" => ~graceful'
    <3>1. CASE RecvDisconnect
      BY <3>1 DEF RecvDisconnect
    <3>2. CASE ~RecvDisconnect
      <4>1. graceful' = graceful
        BY <1>2, <3>2, Zenon DEF RecvFailed, RecvExecute, RecvUpdateConfig, RecvAck, RecvOther
      <4>2. QED
        BY <2>1, <4>1 DEF DInv, GracefulOver
    <3>3. QED
      BY <3>1, <3>2
  <2>5. SessionStatus' \in {SessionStatus, "over"}
    BY <2>1, <2>2, <2>3, <2>4, StatusFollows DEF Undisturbed
  <2>6. QED
    BY <2>1, <2>2, <2>5, QuietStep
<1>3. QED
  BY <1>1, <1>2, DispatchServes DEF RecvStep

\* A heartbeat is none of the service's, but its failing Send may end the session.
LEMMA HeartbeatServes ==
  ASSUME HeartbeatStep \/ HeartbeatStalls \/ HeartbeatSent
  PROVE  ServiceStep
<1> USE DEF clientVars, procVars, wireVars, peerVars, sessionVars
<1>1. exec' = exec /\ cur' = cur /\ runPc' = runPc /\ wire' \in {wire, "finished"}
  BY DEF HeartbeatStep, HeartbeatStalls, HeartbeatSent, HeartbeatTick, HeartbeatLock,
     HeartbeatSendFails, HeartbeatCtxDone, FinishOnFail
<1>2. UNCHANGED <<cancelled, halfClosed, graceful>>
  BY Zenon DEF HeartbeatStep, HeartbeatStalls, HeartbeatSent, HeartbeatTick, HeartbeatLock,
     HeartbeatSendFails, HeartbeatCtxDone
<1>3. SessionStatus' \in {SessionStatus, "over"}
  BY <1>1, <1>2, StatusFollows DEF Undisturbed
<1>4. QED
  BY <1>1, <1>2, <1>3, QuietStep

\* An executor delivers on the stream that brought the command, or loses the result with it.
LEMMA ExecutorServes ==
  ASSUME IInv, SInv, DInv, NEW j \in Jobs, TaskReturns(j) \/ Sender(j) \/ ResultSent(j)
  PROVE  ServiceStep
<1> USE DEF clientVars, procVars, wireVars, peerVars, execFrame
<1>1. cur' = cur /\ runPc' = runPc /\ wire' \in {wire, "finished"}
  BY DEF TaskReturns, Sender, ResultSent, ResultLock, ResultLost, FinishOnFail
<1>2. UNCHANGED <<cancelled, halfClosed, graceful>>
  BY Zenon DEF TaskReturns, Sender, ResultSent, ResultLock, ResultLost
<1>3. SessionStatus' \in {SessionStatus, "over"}
  BY <1>1, <1>2, StatusFollows DEF Undisturbed
<1>4. CASE TaskReturns(j) \/ ResultLock(j)
  <2>1. \A k \in Jobs : Fate(exec'[k]) = Fate(exec[k])
    BY <1>4 DEF TaskReturns, ResultLock, Fate, IInv, TypeOK
  <2>2. QED
    BY <1>1, <1>2, <1>3, <2>1, QuietStep
<1>5. ASSUME NEW pc \in {"delivered", "lost"}, Finish(j, pc), exec[j] \in {"send", "sending"}
      PROVE  /\ Fate(exec[j]) = "running"
             /\ [k \in Jobs |-> Fate(exec'[k])]
                  = [[k \in Jobs |-> Fate(exec[k])] EXCEPT ![j] = pc]
  <2>1. Fate(pc) = pc /\ Fate(exec[j]) = "running"
    BY <1>5 DEF Fate
  <2>2. exec' = [exec EXCEPT ![j] = pc]
    BY <1>5 DEF Finish
  <2>3. QED
    BY <2>1, <2>2 DEF IInv, TypeOK
<1>6. CASE ResultSent(j)
  <2>1. exec[j] = "sending" /\ Finish(j, "delivered") /\ j[2] = cur /\ ~cancelled /\ wire' = wire
    BY <1>6 DEF ResultSent, SendOk
  <2>2. PICK c \in Commands : j = <<c, cur>> /\ cur \in Streams
    BY <2>1 DEF Jobs
  <2>3. SessionStatus' = SessionStatus
    <3>1. Undisturbed' <=> Undisturbed
      BY <1>2, <2>1 DEF Undisturbed
    <3>2. QED
      BY <1>1, <1>2, <3>1 DEF SessionStatus
  <2>4. Service!Deliver(c)
    BY <1>1, <1>2, <1>5, <2>1, <2>2, <2>3 DEF Service!Deliver, Service!Becomes
  <2>5. QED
    BY <2>2, <2>4 DEF ServiceStep, Service!ServiceNext
<1>7. CASE ResultLost(j)
  <2>1. exec[j] \in {"send", "sending"} /\ Finish(j, "lost")
    BY <1>7 DEF ResultLost
  <2>2. j[2] # cur \/ SessionStatus = "over"
    <3> SUFFICES ASSUME j[2] = cur, Undisturbed PROVE SessionStatus = "over"
      BY DEF SessionStatus
    <3>1. ~cancelled /\ (StreamCtxDone(cur) \/ runPc = "join")
      BY <1>7 DEF ResultLost, SendFail, Undisturbed
    <3>2. runPc = "join"
      BY <3>1 DEF StreamCtxDone, Undisturbed, SInv, SessionOpen, InSession
    <3>3. ~graceful
      <4>1. PICK c \in Commands : j = <<c, cur>>
        BY DEF Jobs
      <4>2. QED
        BY <2>1, <3>2, <4>1 DEF DInv, GracefulDelivers, Undisturbed
    <3>4. QED
      BY <3>2, <3>3 DEF SessionStatus
  <2>3. SessionStatus' = SessionStatus
    <3>1. CASE wire' = wire
      <4>1. Undisturbed' <=> Undisturbed
        BY <1>2, <3>1 DEF Undisturbed
      <4>2. QED
        BY <1>1, <1>2, <4>1 DEF SessionStatus
    <3>2. CASE wire' # wire
      <4>1. halfClosed /\ wire' = "finished"
        BY <1>7, <3>2 DEF ResultLost, FinishOnFail
      <4>2. QED
        BY <4>1 DEF SessionStatus, Undisturbed
    <3>3. QED
      BY <3>1, <3>2
  <2>4. Service!Lose(j)
    BY <1>1, <1>2, <1>5, <2>1, <2>2, <2>3 DEF Service!Lose, Service!Becomes
  <2>5. QED
    BY <2>4 DEF ServiceStep, Service!ServiceNext, Service!Sendings, Jobs
<1>8. QED
  BY <1>4, <1>6, <1>7 DEF Sender

\* The control plane sends a command once per session, and none after its Disconnect.
LEMMA ServerServes ==
  ASSUME IInv, SInv, DInv, Server
  PROVE  ServiceStep
<1> USE DEF clientVars, procVars, wireVars, peerVars, serverFrame
<1>1. cur' = cur /\ runPc' = runPc /\ wire' \in {wire, "ended"}
  BY DEF Server, ServerAnswers, ServerExecutes, ServerPushesConfig, ServerAcks, ServerDismisses,
     ServerSeesHalfClose, StreamBreaks
<1>2. UNCHANGED <<cancelled, halfClosed, graceful>>
  BY Zenon DEF Server, ServerAnswers, ServerExecutes, ServerPushesConfig, ServerAcks,
     ServerDismisses, ServerSeesHalfClose, StreamBreaks
<1>3. ASSUME NEW c \in Commands, ServerExecutes(c)
      PROVE  ServiceStep
  <2>1. /\ wire' = wire /\ wire = "open" /\ peer = "serving" /\ exec[<<c, cur>>] = "idle"
        /\ exec' = [exec EXCEPT ![<<c, cur>>] = "sent"]
    BY <1>3 DEF ServerExecutes
  <2>2. cur \in Streams /\ <<c, cur>> \in Jobs
    BY <2>1 DEF IInv, OpenIsCurrent, Jobs
  <2>3. SessionStatus' = SessionStatus /\ SessionStatus # "drained"
    <3>1. Undisturbed' <=> Undisturbed
      BY <1>2, <2>1 DEF Undisturbed
    <3>2. runPc = "join" => ~graceful
      BY <2>1 DEF DInv, GracefulOver
    <3>3. QED
      BY <1>1, <1>2, <3>1, <3>2 DEF SessionStatus
  <2>4. /\ Fate(exec[<<c, cur>>]) = "unsent"
        /\ [k \in Jobs |-> Fate(exec'[k])]
             = [[k \in Jobs |-> Fate(exec[k])] EXCEPT ![<<c, cur>>] = "sent"]
    <3>1. Fate("idle") = "unsent" /\ Fate("sent") = "sent"
      BY DEF Fate
    <3>2. QED
      BY <2>1, <2>2, <3>1 DEF IInv, TypeOK
  <2>5. Service!Send(c)
    BY <1>1, <1>2, <2>2, <2>3, <2>4 DEF Service!Send, Service!Becomes
  <2>6. QED
    BY <2>2, <2>5 DEF ServiceStep, Service!ServiceNext
<1>4. CASE ~\E c \in Commands : ServerExecutes(c)
  <2>1. exec' = exec
    BY <1>4 DEF Server, ServerAnswers, ServerPushesConfig, ServerAcks, ServerDismisses,
       ServerSeesHalfClose, StreamBreaks
  <2>2. SessionStatus' \in {SessionStatus, "over"}
    BY <1>1, <1>2, StatusFollows DEF Undisturbed
  <2>3. QED
    BY <1>1, <1>2, <2>1, <2>2, QuietStep
<1>5. QED
  BY <1>3, <1>4

-----------------------------------------------------------------------------
(* What Close waits for. *)

Running == {j \in Jobs : exec[j] = "running"}

\* The steps a goroutine may have before it once the run context is done: connectOnce may
\* still start a session, with a heartbeat, and leave it only after a drain.
MainWork(pc) == CASE pc = "closeSend" -> 2 [] pc = "closeWait" -> 1 [] OTHER -> 0
RunWork(pc) == CASE pc = "await" -> 7 [] pc = "setup" -> 6 [] pc = "recv" -> 4
                 [] pc \in {"dispatch", "drain"} -> 3
                 [] pc \in {"connect", "register", "join"} -> 2
                 [] pc \in {"top", "backoff"} -> 1 [] OTHER -> 0
HbWork(pc) == IF pc \in {"none", "exited"} THEN 0 ELSE 1

\* Everything that is left to do: a message received may start an executor, which runs, and
\* then gives its slot back.
LoopWork == MainWork(mainPc) + RunWork(runPc) + HbWork(hbPc)
TaskWork == sem + Cardinality(Running)
Work == LoopWork + TaskWork + 4 * Len(inbox)

\* Once Close has cancelled the run context, a step of a goroutine leaves less to do: only
\* a message that arrives brings new work (Close, run, heartbeatLoop, safeSend).
CloseWorksOff ==
  [][cancelled => \/ Work' < Work
                  \/ Len(inbox') > Len(inbox)
                  \/ UNCHANGED <<mainPc, runPc, hbPc, exec>>]_vars

\* The guards of the steps that are open to the goroutines after the cancellation.
CanMove ==
  \/ mainPc = "closeSend" /\ SendMuFree
  \/ mainPc = "closeWait" /\ runPc = "done"
  \/ runPc \in {"top", "connect", "setup", "backoff"}
  \/ runPc = "register" /\ SendFail(cur) /\ SendMuFree
  \/ runPc \in {"await", "recv"} /\ RecvFails
  \/ runPc = "dispatch" /\ StreamCtxDone(cur)
  \/ runPc = "drain" /\ Drained
  \/ runPc = "join" /\ hbPc = "exited"
  \/ hbPc = "sending" /\ SendFail(cur)
  \/ hbPc \in {"send", "wait"} /\ StreamCtxDone(cur)
  \/ \E j \in Jobs : \/ exec[j] = "running"
                     \/ exec[j] = "send" /\ StreamCtxDone(j[2])
                     \/ exec[j] = "sending" /\ SendFail(j[2])

\* Until Close has returned, a goroutine can take a step: nobody waits for somebody who
\* waits, neither for sendMu, nor for a slot, nor in the drain or the join.
CloseNeverStuck == cancelled /\ mainPc # "exited" => CanMove

\* Only Close cancels; run has been started by then, and a session has a heartbeat loop.
CInv ==
  /\ cancelled => mainPc \in {"closeSend", "closeWait", "exited"}
  /\ mainPc # "init" => runPc # "idle"
  /\ runPc \in InSession => hbPc # "none"

\* No step but Close's first cancels.
LEMMA CancelledStep ==
  ASSUME TypeOK, SInv, CInv, [Next]_vars
  PROVE  CInv'
<1> USE DEF CInv, InSession, clientVars, procVars, wireVars, peerVars, sessionVars, execFrame,
            serverFrame
<1>1. CASE Register \/ Signal \/ Main
  <2>1. CASE CloseCancel
    BY <2>1 DEF CloseCancel
  <2>2. CASE ~CloseCancel
    <3>1. cancelled' = cancelled
      BY <1>1, <2>2, Zenon DEF Register, Signal, Main, RegisterReturns, CloseCloseSend, CloseWait
    <3>2. QED
      BY <1>1, <2>2, <3>1 DEF Register, Signal, Main, RegisterReturns, CloseCloseSend, CloseWait
  <2>3. QED
    BY <2>1, <2>2
<1>2. CASE RunStep \/ ConnectOpens
  <2>1. cancelled' = cancelled
    BY <1>2, Zenon DEF RunStep, RunTop, ConnectFails, SendRegister, AwaitFails, AwaitRejected,
       AwaitRegistered, StartSession, Join, Backoff, ConnectOpens
  <2>2. mainPc' = mainPc /\ runPc # "idle" /\ runPc' # "idle"
        /\ (runPc' \in InSession => hbPc' # "none")
    BY <1>2 DEF RunStep, RunTop, ConnectFails, SendRegister, AwaitFails, AwaitRejected,
       AwaitRegistered, StartSession, Join, Backoff, ConnectOpens, GiveUp, ReturnToRun
  <2>3. QED
    BY <2>1, <2>2
<1>3. CASE RecvStep
  <2>1. cancelled' = cancelled
    BY <1>3, Zenon DEF RecvStep, RecvFailed, RecvExecute, Dispatch, RecvUpdateConfig,
       RecvDisconnect, Drain, RecvAck, RecvOther
  <2>2. mainPc' = mainPc /\ hbPc' = hbPc /\ runPc \in InSession /\ runPc' # "idle"
    BY <1>3 DEF RecvStep, RecvFailed, RecvExecute, Dispatch, RecvUpdateConfig,
       RecvDisconnect, Drain, RecvAck, RecvOther, Received
  <2>3. QED
    BY <2>1, <2>2
<1>4. CASE HeartbeatStep \/ HeartbeatStalls \/ HeartbeatSent
  <2>1. cancelled' = cancelled
    BY <1>4, Zenon DEF HeartbeatStep, HeartbeatStalls, HeartbeatSent, HeartbeatTick,
       HeartbeatLock, HeartbeatSendFails, HeartbeatCtxDone
  <2>2. mainPc' = mainPc /\ runPc' = runPc /\ hbPc' # "none"
    BY <1>4 DEF HeartbeatStep, HeartbeatStalls, HeartbeatSent, HeartbeatTick,
       HeartbeatLock, HeartbeatSendFails, HeartbeatCtxDone
  <2>3. QED
    BY <2>1, <2>2
<1>5. ASSUME NEW j \in Jobs, TaskReturns(j) \/ Sender(j) \/ ResultSent(j)
      PROVE  CInv'
  <2>1. cancelled' = cancelled
    BY <1>5, Zenon DEF TaskReturns, Sender, ResultSent, ResultLock, ResultLost
  <2>2. UNCHANGED <<mainPc, runPc, hbPc>>
    BY <1>5 DEF TaskReturns, Sender, ResultSent, ResultLock, ResultLost
  <2>3. QED
    BY <2>1, <2>2
<1>6. CASE Server
  <2>1. cancelled' = cancelled
    BY <1>6, Zenon DEF Server, ServerAnswers, ServerExecutes, ServerPushesConfig, ServerAcks,
       ServerDismisses, ServerSeesHalfClose, StreamBreaks
  <2>2. UNCHANGED <<mainPc, runPc, hbPc>>
    BY <1>6 DEF Server, ServerAnswers, ServerExecutes, ServerPushesConfig, ServerAcks,
       ServerDismisses, ServerSeesHalfClose, StreamBreaks
  <2>3. QED
    BY <2>1, <2>2
<1>7. CASE UNCHANGED vars
  <2>1. cancelled' = cancelled
    BY <1>7, Zenon DEF vars
  <2>2. QED
    BY <1>7, <2>1 DEF vars
<1>8. QED
  BY <1>1, <1>2, <1>3, <1>4, <1>5, <1>6, <1>7 DEF Next, Terminated

\* Whoever holds sendMu, a slot or the join up can let go.
LEMMA SomebodyMoves ==
  ASSUME TypeOK, CInv
  PROVE  CloseNeverStuck
<1> SUFFICES ASSUME cancelled, mainPc # "exited", ~CanMove PROVE FALSE
  BY DEF CloseNeverStuck
<1>1. RecvFails /\ \A s : StreamCtxDone(s) /\ SendFail(s)
  BY DEF RecvFails, StreamCtxDone, SendFail
<1>2. hbPc \in {"none", "exited"} /\ \A j \in Jobs : exec[j] \notin {"running", "send", "sending"}
  BY <1>1 DEF CanMove, TypeOK
<1>3. SendMuFree /\ Drained
  BY <1>2 DEF SendMuFree, Drained, InFlight
<1>4. mainPc \in {"closeSend", "closeWait"} /\ runPc # "idle"
  BY DEF CInv
<1>5. runPc \in RunPcs
  BY DEF TypeOK
<1>6. QED
  BY <1>1, <1>2, <1>3, <1>4, <1>5 DEF CanMove, CInv, InSession, RunPcs

\* The ranks, one by one.
LEMMA Ranks ==
  /\ \A pc : MainWork(pc) \in 0..2 /\ RunWork(pc) \in 0..7 /\ HbWork(pc) \in 0..1
  /\ MainWork("closeSend") = 2 /\ MainWork("closeWait") = 1 /\ MainWork("exited") = 0
  /\ RunWork("await") = 7 /\ RunWork("setup") = 6 /\ RunWork("recv") = 4
  /\ RunWork("dispatch") = 3 /\ RunWork("drain") = 3 /\ RunWork("connect") = 2
  /\ RunWork("register") = 2 /\ RunWork("join") = 2 /\ RunWork("top") = 1
  /\ RunWork("backoff") = 1 /\ RunWork("done") = 0
  /\ HbWork("none") = 0 /\ HbWork("exited") = 0 /\ HbWork("send") = 1
  /\ HbWork("sending") = 1 /\ HbWork("wait") = 1
BY DEF MainWork, RunWork, HbWork

\* What is left to do is counted in natural numbers.
LEMMA WorkCounted ==
  ASSUME TypeOK
  PROVE  /\ IsFiniteSet(Running) /\ Cardinality(Running) \in Nat /\ sem \in Nat
         /\ LoopWork \in Nat /\ TaskWork \in Nat /\ Len(inbox) \in Nat
<1>1. sem \in Nat /\ Len(inbox) \in Nat
  BY ClientAssumption, LenProperties DEF TypeOK
<1>2. IsFiniteSet(Running) /\ Cardinality(Running) \in Nat
  BY JobsFinite, FS_Subset, FS_CardinalityType DEF Running
<1>3. TaskWork \in Nat
  BY <1>1, <1>2 DEF TaskWork
<1>4. LoopWork \in Nat
  BY Ranks DEF LoopWork
<1>5. QED
  BY <1>1, <1>2, <1>3, <1>4

\* ... so is what the next step leaves.
LEMMA WorkCountedNext ==
  ASSUME TypeOK'
  PROVE  /\ Cardinality(Running') \in Nat /\ sem' \in Nat
         /\ LoopWork' \in Nat /\ TaskWork' \in Nat /\ Len(inbox') \in Nat
<1>1. sem' \in Nat /\ Len(inbox') \in Nat
  BY ClientAssumption, LenProperties DEF TypeOK
<1>2. Running' \subseteq Jobs
  BY DEF Running
<1>3. Cardinality(Running') \in Nat
  BY <1>2, JobsFinite, FS_Subset, FS_CardinalityType
<1>4. TaskWork' \in Nat
  BY <1>1, <1>3 DEF TaskWork
<1>5. LoopWork' \in Nat
  BY Ranks DEF LoopWork
<1>6. QED
  BY <1>1, <1>3, <1>4, <1>5

\* A goroutine that comes closer to its end leaves less to do, if nothing else changes.
LEMMA LessWork ==
  ASSUME TypeOK, TypeOK', sem' = sem, exec' = exec, Len(inbox') <= Len(inbox),
         LoopWork' < LoopWork
  PROVE  Work' < Work
<1>1. Running' = Running
  BY DEF Running
<1>2. TaskWork' = TaskWork
  BY <1>1 DEF TaskWork
<1>3. QED
  BY <1>2, WorkCounted, WorkCountedNext DEF Work

\* A message handled leaves less to do, whatever recvLoop does next.
LEMMA MessageWork ==
  ASSUME TypeOK, TypeOK', inbox # <<>>, Consume,
         LoopWork' <= LoopWork + 1, TaskWork' <= TaskWork + 2
  PROVE  Work' < Work
<1>1. Len(inbox') = Len(inbox) - 1
  BY Consumed
<1>2. LoopWork \in Nat /\ TaskWork \in Nat /\ Len(inbox) \in Nat
  BY WorkCounted
<1>3. LoopWork' \in Nat /\ TaskWork' \in Nat
  BY WorkCountedNext
<1>4. LoopWork' + TaskWork' + 4 * Len(inbox') < LoopWork + TaskWork + 4 * Len(inbox)
  BY <1>1, <1>2, <1>3
<1>5. QED
  BY <1>4 DEF Work

\* The goroutine that receives, after the cancellation: a command dispatched is work for two
\* steps, and its message is worth four.
LEMMA RecvWorksOff ==
  ASSUME IInv, TypeOK', cancelled, RecvStep
  PROVE  Work' < Work
<1> USE DEF clientVars, procVars, wireVars, peerVars
<1>1. TypeOK
  BY DEF IInv
<1>2. ASSUME mainPc' = mainPc, hbPc' = hbPc, NEW k \in Int, RunWork(runPc') <= RunWork(runPc) + k
      PROVE  LoopWork' <= LoopWork + k
  BY <1>2, Ranks DEF LoopWork
<1>3. CASE RecvFailed \/ RecvExecute \/ Drain
  <2>1. /\ sem' = sem /\ exec' = exec /\ inbox' = inbox /\ mainPc' = mainPc /\ hbPc' = hbPc
        /\ \/ runPc = "recv" /\ runPc' \in {"join", "dispatch"}
           \/ runPc = "drain" /\ runPc' = "join"
    BY <1>3 DEF RecvFailed, RecvExecute, Drain, Received
  <2>2. RunWork(runPc') <= RunWork(runPc) + (-1)
    BY <2>1, Ranks
  <2>3. LoopWork' < LoopWork /\ Len(inbox') <= Len(inbox)
    BY <1>1, <1>2, <2>1, <2>2, WorkCounted, WorkCountedNext
  <2>4. QED
    BY <1>1, <2>1, <2>3, LessWork
<1>4. CASE RecvUpdateConfig \/ RecvDisconnect \/ RecvAck \/ RecvOther
  <2>1. /\ inbox # <<>> /\ Consume /\ mainPc' = mainPc /\ hbPc' = hbPc
        /\ runPc = "recv" /\ runPc' \in {"recv", "drain", "join"}
        /\ sem' = sem /\ exec' = exec
    BY <1>4 DEF RecvUpdateConfig, RecvDisconnect, RecvAck, RecvOther, Received
  <2>2. TaskWork' = TaskWork
    BY <2>1 DEF TaskWork, Running
  <2>3. RunWork(runPc') <= RunWork(runPc) + 1
    BY <2>1, Ranks
  <2>4. TaskWork' <= TaskWork + 2 /\ LoopWork' <= LoopWork + 1
    BY <1>1, <1>2, <2>1, <2>2, <2>3, WorkCounted
  <2>5. QED
    BY <1>1, <2>1, <2>4, MessageWork
<1>5. CASE Dispatch
  <2> DEFINE j == <<Head(inbox).cmd, cur>>
  <2>1. /\ inbox # <<>> /\ Consume /\ mainPc' = mainPc /\ hbPc' = hbPc
        /\ runPc = "dispatch" /\ runPc' = "recv" /\ (sem' = sem \/ sem' = sem + 1)
        /\ \E pc : exec' = [exec EXCEPT ![j] = pc]
    BY <1>5 DEF Dispatch, IInv, DispatchHead
  <2>2. Running' \subseteq Running \cup {j}
    BY <1>1, <2>1 DEF Running, TypeOK
  <2> HIDE DEF j
  <2>3. IsFiniteSet(Running \cup {j})
    BY <1>1, WorkCounted, FS_AddElement
  <2>4. Cardinality(Running \cup {j}) \in Nat
        /\ Cardinality(Running \cup {j}) <= Cardinality(Running) + 1
    <3>1. IsFiniteSet(Running) /\ Cardinality(Running) \in Nat
      BY <1>1, WorkCounted
    <3>2. CASE j \in Running
      <4>1. Running \cup {j} = Running
        BY <3>2
      <4>2. QED
        BY <3>1, <4>1
    <3>3. CASE j \notin Running
      <4>1. Cardinality(Running \cup {j}) = Cardinality(Running) + 1
        BY <3>1, <3>3, FS_AddElement
      <4>2. QED
        BY <3>1, <4>1
    <3>4. QED
      BY <3>2, <3>3
  <2>5. Cardinality(Running') <= Cardinality(Running \cup {j})
    BY <2>2, <2>3, FS_Subset
  <2>6. TaskWork' <= TaskWork + 2
    <3>1. sem \in Nat /\ Cardinality(Running) \in Nat
      BY <1>1, WorkCounted
    <3>2. sem' \in Nat /\ Cardinality(Running') \in Nat
      BY WorkCountedNext
    <3>3. Cardinality(Running') <= Cardinality(Running) + 1
      BY <2>4, <2>5, <3>1, <3>2
    <3>4. QED
      BY <2>1, <3>1, <3>2, <3>3 DEF TaskWork
  <2>7. RunWork(runPc') <= RunWork(runPc) + 1
    BY <2>1, Ranks
  <2>8. QED
    BY <1>1, <1>2, <2>1, <2>6, <2>7, MessageWork
<1>6. QED
  BY <1>3, <1>4, <1>5 DEF RecvStep

\* An executor that may not send any more gives its slot back.
LEMMA ExecutorWorksOff ==
  ASSUME TypeOK, TypeOK', cancelled, NEW j \in Jobs, TaskReturns(j) \/ Sender(j) \/ ResultSent(j)
  PROVE  Work' < Work
<1> USE DEF clientVars, procVars, wireVars, peerVars, execFrame
<1>1. TaskReturns(j) \/ ResultLost(j)
  BY DEF Sender, ResultLock, ResultSent, StreamCtxDone, SendOk
<1>2. UNCHANGED <<mainPc, runPc, hbPc, inbox>>
  BY <1>1 DEF TaskReturns, ResultLost
<1>3. TaskWork' < TaskWork
  <2>1. CASE TaskReturns(j)
    <3>1. j \in Running /\ Running' = Running \ {j} /\ sem' = sem
      BY <2>1 DEF TaskReturns, Running, TypeOK
    <3>2. Cardinality(Running') = Cardinality(Running) - 1
      BY <3>1, WorkCounted, FS_RemoveElement
    <3>3. QED
      BY <3>1, <3>2, WorkCounted DEF TaskWork
  <2>2. CASE ResultLost(j)
    <3>1. exec[j] \in {"send", "sending"} /\ exec' = [exec EXCEPT ![j] = "lost"] /\ sem' = sem - 1
      BY <2>2 DEF ResultLost, Finish
    <3>2. Running' = Running
      BY <3>1 DEF Running, TypeOK
    <3>3. QED
      BY <3>1, <3>2, WorkCounted DEF TaskWork
  <2>3. QED
    BY <1>1, <2>1, <2>2
<1>4. LoopWork' = LoopWork /\ Len(inbox') = Len(inbox)
  BY <1>2 DEF LoopWork
<1>5. QED
  BY <1>3, <1>4, WorkCounted, WorkCountedNext DEF Work

\* What is left to do shrinks by every step of a goroutine, and grows only by messages.
LEMMA WorkStep ==
  ASSUME IInv, SInv, CInv, TypeOK', cancelled, Next
  PROVE  Work' < Work \/ Len(inbox') > Len(inbox) \/ UNCHANGED <<mainPc, runPc, hbPc, exec>>
<1> USE DEF clientVars, procVars, wireVars, peerVars, sessionVars, serverFrame
<1>1. TypeOK /\ Len(inbox) \in Nat
  BY WorkCounted DEF IInv
<1>2. mainPc \in {"closeSend", "closeWait", "exited"}
  BY DEF CInv
<1>3. ASSUME sem' = sem, exec' = exec, inbox' = inbox \/ (inbox # <<>> /\ Consume),
             LoopWork' < LoopWork
      PROVE  Work' < Work
  <2>1. Len(inbox') <= Len(inbox)
    BY <1>1, <1>3, Consumed
  <2>2. QED
    BY <1>1, <1>3, <2>1, LessWork
<1>4. CASE Register \/ Signal \/ Main
  <2>1. /\ \/ mainPc = "closeSend" /\ mainPc' = "closeWait"
           \/ mainPc = "closeWait" /\ mainPc' = "exited"
        /\ UNCHANGED <<sem, exec, inbox, runPc, hbPc>>
    BY <1>2, <1>4 DEF Register, Signal, Main, RegisterReturns, CloseCancel, CloseCloseSend,
       CloseWait
  <2>2. LoopWork' < LoopWork
    BY <2>1, Ranks DEF LoopWork
  <2>3. QED
    BY <1>3, <2>1, <2>2
<1>5. CASE RunStep
  <2>1. sem' = sem /\ exec' = exec /\ mainPc' = mainPc
        /\ (inbox' = inbox \/ (inbox # <<>> /\ Consume))
    BY <1>5 DEF RunStep, RunTop, ConnectFails, SendRegister, AwaitFails, AwaitRejected,
       AwaitRegistered, StartSession, Join, Backoff
  <2>2. LoopWork' < LoopWork
    <3>1. CASE StartSession
      <4>1. hbPc \in {"none", "exited"} /\ hbPc' = "send" /\ runPc = "setup" /\ runPc' = "recv"
        BY <1>1, <3>1 DEF StartSession, SInv, SessionOpen, InSession, TypeOK
      <4>2. QED
        BY <2>1, <4>1, Ranks DEF LoopWork
    <3>2. CASE ~StartSession
      <4>1. hbPc' = hbPc /\ \/ runPc \in {"top", "connect", "register", "join", "backoff", "await"}
                               /\ runPc' = "done"
                            \/ runPc = "await" /\ runPc' = "setup"
        BY <1>5, <3>2 DEF RunStep, RunTop, ConnectFails, SendRegister, AwaitFails, AwaitRejected,
           AwaitRegistered, Join, Backoff, GiveUp, ReturnToRun, SendOk
      <4>2. QED
        BY <2>1, <4>1, Ranks DEF LoopWork
    <3>3. QED
      BY <3>1, <3>2
  <2>3. QED
    BY <1>3, <2>1, <2>2
<1>6. CASE ConnectOpens
  BY <1>6 DEF ConnectOpens
<1>7. CASE RecvStep
  BY <1>7, RecvWorksOff
<1>8. CASE HeartbeatStep \/ HeartbeatStalls \/ HeartbeatSent
  <2>1. CASE HeartbeatStalls
    BY <2>1 DEF HeartbeatStalls
  <2>2. CASE ~HeartbeatStalls
    <3>1. HeartbeatSendFails \/ HeartbeatCtxDone
      BY <1>8, <2>2 DEF HeartbeatStep, HeartbeatTick, HeartbeatLock, HeartbeatSent,
         StreamCtxDone, SendOk
    <3>2. UNCHANGED <<sem, exec, inbox, mainPc, runPc>> /\ hbPc' = "exited"
          /\ hbPc \in {"send", "sending", "wait"}
      BY <3>1 DEF HeartbeatSendFails, HeartbeatCtxDone
    <3>3. LoopWork' < LoopWork
      BY <3>2, Ranks DEF LoopWork
    <3>4. QED
      BY <1>3, <3>2, <3>3
  <2>3. QED
    BY <2>1, <2>2
<1>9. ASSUME NEW j \in Jobs, TaskReturns(j) \/ Sender(j) \/ ResultSent(j)
      PROVE  Work' < Work
  BY <1>1, <1>9, ExecutorWorksOff
<1>10. CASE Server
  <2>1. CASE ServerSeesHalfClose \/ StreamBreaks
    BY <2>1 DEF ServerSeesHalfClose, StreamBreaks
  <2>2. CASE ~(ServerSeesHalfClose \/ StreamBreaks)
    <3>1. \E m \in Message : Push(m)
      BY <1>10, <2>2, MessageForms DEF Server, ServerAnswers, ServerExecutes, ServerPushesConfig,
         ServerAcks, ServerDismisses
    <3>2. QED
      BY <1>1, <3>1, Pushed
  <2>3. QED
    BY <2>1, <2>2
<1>11. QED
  BY <1>4, <1>5, <1>6, <1>7, <1>8, <1>9, <1>10 DEF Next, Terminated, vars

-----------------------------------------------------------------------------
(* The theorems. *)

\* What both theorems follow a stream with.
LEMMA StreamsFollowed == Spec => [](IInv /\ SInv)
<1>1. Init => Numbered /\ RegisterFirst
  BY DEF Init, Numbered, RegisterFirst, Attached, InSession, Jobs
<1>2. IInv /\ Numbered /\ RegisterFirst /\ [Next]_vars => Numbered' /\ RegisterFirst'
  BY NumberedStep, RegisterFirstStep DEF IInv, Tracked
<1>3. Spec => []SessionOpen
  BY Sessions, PTL
<1>4. QED
  BY <1>1, <1>2, <1>3, Invariance, PTL DEF Spec, SInv

\* What becomes of a stream's commands is followed with it.
LEMMA CommandsFollowed == Spec => []DInv
<1>1. Init => DInv
  <2>1. ASSUME Init PROVE DOMAIN inbox = {} /\ wire = "none" /\ runPc = "idle"
    BY <2>1 DEF Init
  <2>2. QED
    BY <2>1 DEF DInv, NothingLost, SentQueued, DisconnectLast, GracefulOver,
       GracefulDelivers, Undisturbed
<1>2. IInv /\ SInv /\ DInv /\ [Next]_vars => DInv'
  <2> SUFFICES ASSUME IInv, SInv, DInv, [Next]_vars PROVE DInv'
    OBVIOUS
  <2> USE DEF IInv, Tracked
  <2>1. NothingLost'
    BY NothingLostStep DEF DInv
  <2>2. SentQueued'
    BY SentQueuedStep DEF DInv
  <2>3. DisconnectLast' /\ GracefulOver'
    BY DisconnectLastStep, GracefulOverStep DEF DInv, SInv
  <2>4. GracefulDelivers'
    BY DeliveredStep
  <2>5. QED
    BY <2>1, <2>2, <2>3, <2>4 DEF DInv
<1>3. QED
  BY <1>1, <1>2, StreamsFollowed, PTL DEF Spec

\* A graceful Disconnect costs no result: when recvLoop leaves the drain on a healthy
\* stream, every command the control plane sent on it has been answered (recvLoop,
\* dispatchCapabilityExecution).
THEOREM GracefulCorrect == Spec => []GracefulDelivers
<1>1. DInv => GracefulDelivers
  BY DEF DInv
<1>2. QED
  BY <1>1, CommandsFollowed, PTL

\* For any number of commands, sessions and slots, the client keeps what CommandService
\* promises: each of its steps is one of the service's or none (recvLoop,
\* dispatchCapabilityExecution, safeSend, Close).
THEOREM ServiceCorrect == Spec => ImplementsService
<1>1. Init => Service!ServiceInit
  <2> SUFFICES ASSUME Init PROVE Service!ServiceInit
    OBVIOUS
  <2>1. cur = 0 /\ wire = "none" /\ exec = [j \in Jobs |-> "idle"]
    BY DEF Init
  <2>2. cancelled = FALSE
    BY Zenon DEF Init
  <2>3. SessionStatus = "over"
    BY <2>1 DEF SessionStatus, Undisturbed
  <2>4. [j \in Jobs |-> Fate(exec[j])] = [j \in Jobs |-> "unsent"]
    BY <2>1 DEF Fate
  <2>5. QED
    BY <2>1, <2>2, <2>3, <2>4 DEF Service!ServiceInit, Service!Sendings, Jobs
<1>2. IInv /\ SInv /\ DInv /\ DInv' /\ [Next]_vars => [Service!ServiceNext]_Service!serviceVars
  <2> SUFFICES ASSUME IInv, SInv, DInv, DInv', [Next]_vars PROVE ServiceStep
    BY DEF ServiceStep
  <2>1. TypeOK /\ GracefulDelivers'
    BY DEF IInv, DInv
  <2>2. CASE UNCHANGED vars
    <3>1. UNCHANGED <<exec, cur, wire, runPc>>
      BY <2>2 DEF vars, procVars, wireVars
    <3>2. UNCHANGED <<cancelled, halfClosed, graceful>>
      BY <2>2, Zenon DEF vars, procVars, wireVars
    <3>3. SessionStatus' \in {SessionStatus, "over"}
      BY <3>1, <3>2, StatusFollows DEF Undisturbed
    <3>4. QED
      BY <3>1, <3>2, <3>3, QuietStep
  <2>3. QED
    BY <2>1, <2>2, MainServes, RunServes, RecvServes, HeartbeatServes, ExecutorServes,
       ServerServes DEF Next, Terminated
<1>3. QED
  BY <1>1, <1>2, Invariance, StreamsFollowed, CommandsFollowed, PTL
     DEF Spec, ImplementsService, Service!ServiceSpec

\* Nothing but Close or a permanent rejection ends run: a stream that breaks, a session the
\* control plane ends or an update of the config leads to another attempt (run, connectOnce).
RunGoesOn == runPc = "done" => cancelled \/ permanent

\* run gives up where connectOnce returned a permanent error, or once it is cancelled.
LEMMA RunEnds ==
  ASSUME RunGoesOn, [Next]_vars
  PROVE  RunGoesOn'
<1> USE DEF RunGoesOn, clientVars, procVars, wireVars, peerVars, sessionVars, execFrame,
            serverFrame
<1>1. ASSUME NEW p, ReturnToRun(p), cancelled' = cancelled
      PROVE  RunGoesOn'
  BY <1>1, Zenon DEF ReturnToRun
<1>2. CASE RunStep \/ ConnectOpens
  <2>1. cancelled' = cancelled
    BY <1>2, Zenon DEF RunStep, RunTop, ConnectFails, SendRegister, AwaitFails, AwaitRejected,
       AwaitRegistered, StartSession, Join, Backoff, ConnectOpens
  <2>2. CASE RunTop \/ Backoff
    BY <2>1, <2>2, Zenon DEF RunTop, Backoff
  <2>3. CASE ConnectFails \/ SendRegister \/ AwaitFails \/ AwaitRejected \/ Join
    <3>1. (\E p : ReturnToRun(p)) \/ runPc' = "await"
      BY <2>3, Zenon DEF ConnectFails, SendRegister, AwaitFails, AwaitRejected, Join, GiveUp
    <3>2. QED
      BY <1>1, <2>1, <3>1
  <2>4. CASE AwaitRegistered \/ StartSession \/ ConnectOpens
    BY <2>4 DEF AwaitRegistered, StartSession, ConnectOpens
  <2>5. QED
    BY <1>2, <2>2, <2>3, <2>4 DEF RunStep
<1>3. CASE RecvStep
  <2>1. runPc' # "done"
    BY <1>3 DEF RecvStep, RecvFailed, RecvExecute, Dispatch, RecvUpdateConfig,
       RecvDisconnect, Drain, RecvAck, RecvOther, Received
  <2>2. QED
    BY <2>1
<1>4. CASE Register \/ Signal \/ Main
  <2>1. runPc' = runPc \/ runPc' = "top"
    BY <1>4 DEF Register, Signal, Main, RegisterReturns, CloseCancel, CloseCloseSend, CloseWait
  <2>2. CASE runPc' = "top"
    BY <2>2
  <2>3. CASE runPc' = runPc
    <3>1. permanent' = permanent
      BY <1>4, Zenon DEF Register, Signal, Main, RegisterReturns, CloseCancel, CloseCloseSend,
         CloseWait
    <3>2. CASE CloseCancel
      BY <3>2, Zenon DEF CloseCancel
    <3>3. CASE ~CloseCancel
      <4>1. cancelled' = cancelled
        BY <1>4, <3>3, Zenon DEF Register, Signal, Main, RegisterReturns, CloseCloseSend,
           CloseWait
      <4>2. QED
        BY <2>3, <3>1, <4>1, Zenon
    <3>4. QED
      BY <3>2, <3>3
  <2>4. QED
    BY <2>1, <2>2, <2>3
<1>5. ASSUME UNCHANGED <<runPc, cancelled, permanent>>
      PROVE  RunGoesOn'
  BY <1>5, Zenon
<1>6. ASSUME \/ HeartbeatStep \/ HeartbeatStalls \/ HeartbeatSent \/ Server \/ UNCHANGED vars
             \/ \E j \in Jobs : TaskReturns(j) \/ Sender(j) \/ ResultSent(j)
      PROVE  UNCHANGED <<runPc, cancelled, permanent>>
  <2>1. CASE HeartbeatStep \/ HeartbeatStalls \/ HeartbeatSent
    BY <2>1, Zenon DEF HeartbeatStep, HeartbeatStalls, HeartbeatSent, HeartbeatTick,
       HeartbeatLock, HeartbeatSendFails, HeartbeatCtxDone
  <2>2. CASE Server
    BY <2>2, Zenon DEF Server, ServerAnswers, ServerExecutes, ServerPushesConfig, ServerAcks,
       ServerDismisses, ServerSeesHalfClose, StreamBreaks
  <2>3. ASSUME NEW j \in Jobs, TaskReturns(j) \/ Sender(j) \/ ResultSent(j)
        PROVE  UNCHANGED <<runPc, cancelled, permanent>>
    BY <2>3, Zenon DEF TaskReturns, Sender, ResultSent, ResultLock, ResultLost
  <2>4. CASE UNCHANGED vars
    BY <2>4, Zenon DEF vars
  <2>5. QED
    BY <1>6, <2>1, <2>2, <2>3, <2>4
<1>7. QED
  BY <1>2, <1>3, <1>4, <1>5, <1>6 DEF Next, Terminated

\* What Close waits for is followed with the streams.
LEMMA CloseFollowed == Spec => []CInv
<1>1. Init => CInv
  <2> SUFFICES ASSUME Init PROVE CInv
    OBVIOUS
  <2>1. mainPc = "init" /\ runPc = "idle"
    BY DEF Init
  <2>2. ~cancelled
    BY Zenon DEF Init
  <2>3. QED
    BY <2>1, <2>2 DEF CInv, InSession
<1>2. IInv /\ SInv /\ CInv /\ [Next]_vars => CInv'
  BY CancelledStep DEF IInv
<1>3. QED
  BY <1>1, <1>2, StreamsFollowed, PTL DEF Spec

\* Close never waits in vain: as long as it has not returned, a goroutine can take a step,
\* whoever is inside a Send, waits for a slot, drains or joins (Close, run, safeSend).
THEOREM CloseMoves == Spec => []CloseNeverStuck
<1>1. IInv /\ CInv => CloseNeverStuck
  BY SomebodyMoves DEF IInv
<1>2. QED
  BY <1>1, StreamsFollowed, CloseFollowed, PTL

\* ... and each such step brings it closer: between the messages that arrive, the goroutines
\* take no more steps than the work that is left, a natural number.
THEOREM CloseEnds == Spec => [](Work \in Nat) /\ CloseWorksOff
<1> DEFINE Shrinks == \/ Work' < Work \/ Len(inbox') > Len(inbox)
                      \/ UNCHANGED <<mainPc, runPc, hbPc, exec>>
<1>1. IInv /\ SInv /\ CInv /\ IInv' /\ [Next]_vars => [cancelled => Shrinks]_vars
  BY WorkStep DEF IInv
<1>2. IInv => Work \in Nat
  BY WorkCounted DEF IInv, Work
<1>3. QED
  BY <1>1, <1>2, StreamsFollowed, CloseFollowed, Invariance, PTL DEF Spec, CloseWorksOff

\* The agent keeps trying to be connected: run ends for Close or for a permanent rejection
\* only, whatever fails and however often (run, connectOnce).
THEOREM RunPersists == Spec => []RunGoesOn
<1>1. Init => RunGoesOn
  BY DEF Init, RunGoesOn
<1>2. RunGoesOn /\ [Next]_vars => RunGoesOn'
  BY RunEnds
<1>3. QED
  BY <1>1, <1>2, PTL DEF Spec

\* The control plane never works from a manifest older than the session's own Registered: one
\* that is neither broken nor being ended has the manifest the client has now, or lacks the
\* change that Registered made, and no other; where Registered brings no change, it lacks none
\* (UpdateCapabilities, connectOnce).
THEOREM ManifestCorrect ==
  Spec => [](OwnConfigAtMost /\ (EffectiveMayChange \/ ManifestFresh))
<1>1. Init => MInv
  <2>1. ASSUME Init PROVE DOMAIN inbox = {} /\ peer = "idle" /\ runPc = "idle"
    BY <2>1 DEF Init
  <2>2. QED
    BY <2>1 DEF MInv, Accepted, Sent, Published, InSession
<1>2. IInv /\ SInv /\ MInv /\ [Next]_vars => MInv'
  BY AcceptedStep, SentStep DEF IInv, SInv, MInv
<1>3. SInv /\ MInv => OwnConfigAtMost /\ (EffectiveMayChange \/ ManifestFresh)
  BY DEF SInv, SessionOpen, MInv, Accepted, Sent, ManifestFresh, OwnConfigAtMost
<1>4. QED
  BY <1>1, <1>2, <1>3, StreamsFollowed, PTL DEF Spec
=============================================================================

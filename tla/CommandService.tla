--------------------------- MODULE CommandService ---------------------------
(***************************************************************************)
(* What the agent promises the control plane about the commands it sends:  *)
(* a command is executed at most once for each time it is sent, never more *)
(* of them at a time than there are slots, however many sessions they came *)
(* on; its result comes on the session that brought it, or is lost because *)
(* that session was disturbed; and a session that was drained owes none.   *)
(***************************************************************************)
EXTENDS Integers, FiniteSets

CONSTANTS
  Commands,  \* commands the control plane may send, once per session
  Sessions,  \* numbers of the sessions
  Slots      \* how many commands are executed at a time

VARIABLES
  session,   \* the session opened last
  status,    \* "open" as long as nothing disturbs it, "drained", or "over"
  closing,   \* the agent is shutting down
  fate       \* per command and session, what became of it

serviceVars == <<session, status, closing, fate>>

Sendings  == Commands \X Sessions
Executing == {j \in Sendings : fate[j] = "running"}
Becomes(j, f) == fate' = [fate EXCEPT ![j] = f]

ServiceInit ==
  /\ session = 0 /\ status = "over" /\ closing = FALSE
  /\ fate = [j \in Sendings |-> "unsent"]

\* A new session replaces the last one.
Open ==
  /\ ~closing /\ session + 1 \in Sessions
  /\ session' = session + 1 /\ status' = "open"
  /\ UNCHANGED <<closing, fate>>

\* The session breaks, is dismissed or has to make room for another one.
End ==
  /\ status' = "over"
  /\ UNCHANGED <<session, closing, fate>>

\* The agent has finished what the session brought, and will leave it.
Drained ==
  /\ status = "open" /\ status' = "drained"
  /\ \A c \in Commands : fate[<<c, session>>] \in {"unsent", "delivered"}
  /\ UNCHANGED <<session, closing, fate>>

ShutDown ==
  /\ closing' = TRUE /\ status' = "over"
  /\ UNCHANGED <<session, fate>>

Send(c) ==
  /\ session \in Sessions /\ status # "drained"
  /\ fate[<<c, session>>] = "unsent" /\ Becomes(<<c, session>>, "sent")
  /\ UNCHANGED <<session, status, closing>>

Start(c) ==
  /\ fate[<<c, session>>] = "sent" /\ Becomes(<<c, session>>, "running")
  /\ Cardinality(Executing) < Slots
  /\ UNCHANGED <<session, status, closing>>

\* Only an agent that shuts down lets a command go without executing it.
Refuse(c) ==
  /\ fate[<<c, session>>] = "sent" /\ Becomes(<<c, session>>, "refused")
  /\ closing
  /\ UNCHANGED <<session, status, closing>>

Deliver(c) ==
  /\ fate[<<c, session>>] = "running" /\ Becomes(<<c, session>>, "delivered")
  /\ ~closing
  /\ UNCHANGED <<session, status, closing>>

\* A result is lost if its session was replaced or is over.
Lose(j) ==
  /\ fate[j] = "running" /\ Becomes(j, "lost")
  /\ j[2] # session \/ status = "over"
  /\ UNCHANGED <<session, status, closing>>

ServiceNext ==
  \/ Open \/ End \/ Drained \/ ShutDown
  \/ \E c \in Commands :
       session \in Sessions /\ (Send(c) \/ Start(c) \/ Refuse(c) \/ Deliver(c))
  \/ \E j \in Sendings : Lose(j)

ServiceSpec == ServiceInit /\ [][ServiceNext]_serviceVars
=============================================================================

------------------------ MODULE ProviderTasksProofs -------------------------
(***************************************************************************)
(* Proofs about ProviderTasks: from the order of the steps of a task,      *)
(* which TLC checks task by task, to what its executions keep to, whatever *)
(* configurations are applied between the steps and whatever the system    *)
(* holds.                                                                  *)
(***************************************************************************)
EXTENDS ProviderTasks, FiniteSetTheorems, TLAPS

-----------------------------------------------------------------------------
(* The invariant, for an execution of program p.                           *)

\* The client is one of those made, each from a configuration.
Made == /\ config \in Configs
        /\ made \in Seq(Configs) /\ client \in 1..Len(made)

\* Parameters end an execution where they are read; what was called or read lies behind.
Behind(p) ==
  /\ pc \in Nat /\ pc > 0
  /\ outcome = "refused" => pc \in StepsOf(p, {"read", "verify"})
  /\ asked # {} => \E i \in StepsOf(p, {"call"}) : i <= pc /\ (outcome = "running" => i < pc)
  /\ limitsOf # <<>> => \E i \in StepsOf(p, {"limits"}) : i < pc

\* Behind a step that fetches it, a client is held.
Fetched(p) ==
  outcome = "running" /\ pc <= Len(p.steps) /\ (\E i \in StepsOf(p, {"hold"}) : i < pc) =>
    held \in 1..Len(made)

\* The clients that were called, for each way to call one only.
CalledOne(p) ==
  /\ CallsVia(p, "held") /\ HeldFor(p, {"call"}) => asked \subseteq {held}
  /\ AskHost(p) => client = 1
  /\ CallsVia(p, "current") /\ AskHost(p) => asked \subseteq {1}
  /\ (\A i, j \in StepsOf(p, {"call"}) : i = j) => \A c, d \in asked : c = d

\* The configuration whose limits are applied, for each way to apply the right ones.
LimitsOne(p) ==
  limitsOf # <<>> =>
    /\ LimitsOf(p, {"held"}) /\ HeldFor(p, {"call", "limits"}) =>
         held \in 1..Len(made) /\ limitsOf = made[held]
    /\ LimitsOf(p, {"current", "start"}) /\ AskHost(p) => limitsOf = made[1]

\* The parameter read last, and the step that read it.
LastRead(p) ==
  last # "nothing" =>
    /\ outcome = "running" => pc - 1 \in StepsOf(p, {"read"})
    /\ outcome = "refused" => /\ pc \in StepsOf(p, {"read"})
                              /\ last \in Values \ p.steps[pc].takes

Follows(p) == Behind(p) /\ Fetched(p) /\ CalledOne(p) /\ LimitsOne(p) /\ LastRead(p)

IInv == /\ task \in DOMAIN Programs /\ Made
        /\ \A t \in DOMAIN Programs : task = t => Follows(Programs[t])

-----------------------------------------------------------------------------
(* Steps.                                                                  *)

\* Where an execution is, its program has the step that is taken.
LEMMA AtStep ==
  ASSUME NEW t \in DOMAIN Programs, task = t, NEW op, At(op), pc \in Nat, pc > 0
  PROVE  /\ outcome = "running" /\ pc <= Len(Programs[t].steps) /\ Len(Programs[t].steps) \in Nat
         /\ Here = Programs[t].steps[pc] /\ Here.op = op
         /\ \A ops : pc \in StepsOf(Programs[t], ops) <=> op \in ops
<1>1. Len(Programs[t].steps) \in Nat
  BY TaskRunAssumption DEF WellFormed
<1>2. /\ outcome = "running" /\ pc <= Len(Programs[t].steps)
      /\ Here = Programs[t].steps[pc] /\ Here.op = op
  BY DEF At, Here, Steps
<1>3. pc \in 1..Len(Programs[t].steps)
  BY <1>1, <1>2
<1>4. QED
  BY <1>1, <1>2, <1>3 DEF StepsOf

\* How a step that fetches nothing moves on, or ends the execution.
Advances(p) ==
  /\ outcome = "running"
  /\ \/ pc' = pc + 1 /\ outcome' = outcome /\ pc \notin StepsOf(p, {"hold"})
     \/ pc' = Len(p.steps) + 1 /\ pc < pc' /\ outcome' = outcome
     \/ pc' = pc /\ outcome' \in {"failed", "panicked", "done"}
     \/ pc' = pc /\ outcome' = "refused" /\ pc \in StepsOf(p, {"read", "verify"})

\* A step that advances leaves what lies behind it, and the client that is held.
LEMMA AdvancesKeeps ==
  ASSUME NEW p, Len(p.steps) \in Nat, Behind(p), Fetched(p), Advances(p),
         UNCHANGED <<held, made>>
  PROVE  /\ pc' \in Nat /\ pc' > 0 /\ pc <= pc'
         /\ outcome' = "refused" => pc' \in StepsOf(p, {"read", "verify"})
         /\ outcome' = "running" => pc < pc'
         /\ Fetched(p)'
<1>1. pc \in Nat /\ pc > 0 /\ outcome = "running"
  BY DEF Behind, Advances
<1>2. pc' \in Nat /\ pc' > 0 /\ pc <= pc' /\ (outcome' = "running" => pc < pc')
  BY <1>1 DEF Advances
<1>3. outcome' = "refused" => pc' \in StepsOf(p, {"read", "verify"})
  BY <1>1 DEF Advances
<1>4. Fetched(p)'
  <2>1. SUFFICES ASSUME outcome' = "running", pc' <= Len(p.steps),
                        NEW i \in StepsOf(p, {"hold"}), i < pc'
                 PROVE  held \in 1..Len(made)
    BY DEF Fetched
  <2>2. pc' = pc + 1 /\ pc \notin StepsOf(p, {"hold"}) /\ pc <= Len(p.steps)
    BY <1>1, <2>1 DEF Advances
  <2>3. i \in Nat /\ i < pc
    BY <1>1, <2>1, <2>2 DEF StepsOf
  <2>4. QED
    BY <1>1, <2>2, <2>3 DEF Fetched
<1>5. QED
  BY <1>2, <1>3, <1>4

\* Most steps call nothing, fetch nothing and read no limits.
LEMMA QuietStep ==
  ASSUME NEW p, Len(p.steps) \in Nat, Made, Follows(p), Advances(p), LastRead(p)',
         UNCHANGED <<config, client, made, held, asked, limitsOf>>
  PROVE  Made' /\ Follows(p)'
<1>1. Made'
  BY DEF Made
<1>2. /\ pc' \in Nat /\ pc' > 0 /\ pc <= pc'
      /\ outcome' = "refused" => pc' \in StepsOf(p, {"read", "verify"})
      /\ outcome' = "running" => pc < pc'
      /\ Fetched(p)'
  BY AdvancesKeeps DEF Follows
<1>3. pc \in Nat /\ outcome = "running"
  BY DEF Follows, Behind, Advances
<1>4. Behind(p)'
  <2>1. ASSUME asked' # {}
        PROVE  \E i \in StepsOf(p, {"call"}) : i <= pc' /\ (outcome' = "running" => i < pc')
    <3>1. PICK i \in StepsOf(p, {"call"}) : i < pc
      BY <1>3, <2>1 DEF Follows, Behind
    <3>2. i \in Nat
      BY <3>1 DEF StepsOf
    <3>3. i < pc'
      BY <1>2, <1>3, <3>1, <3>2
    <3>4. QED
      BY <1>2, <3>1, <3>2, <3>3
  <2>2. ASSUME limitsOf' # <<>>
        PROVE  \E i \in StepsOf(p, {"limits"}) : i < pc'
    <3>1. PICK i \in StepsOf(p, {"limits"}) : i < pc
      BY <2>2 DEF Follows, Behind
    <3>2. i \in Nat
      BY <3>1 DEF StepsOf
    <3>3. QED
      BY <1>2, <1>3, <3>1, <3>2
  <2>3. QED
    BY <1>2, <2>1, <2>2 DEF Behind
<1>5. CalledOne(p)'
  BY DEF Follows, CalledOne
<1>6. LimitsOne(p)'
  BY DEF Follows, LimitsOne
<1>7. QED
  BY <1>1, <1>2, <1>4, <1>5, <1>6 DEF Follows

-----------------------------------------------------------------------------
(* One lemma per step that is not quiet.  An execution stays in its program*)
(* p, the one of task t.                                                   *)

\* A call goes to the client that was called before, or is the first.
LEMMA CallStep ==
  ASSUME NEW t \in DOMAIN Programs, task = t, Made, Follows(Programs[t]), CallClient
  PROVE  Made' /\ Follows(Programs[t])'
<1> DEFINE p == Programs[t]
           c == CallTo
<1>1. pc \in Nat /\ pc > 0
  BY DEF Follows, Behind
<1>2. /\ outcome = "running" /\ pc <= Len(p.steps) /\ Len(p.steps) \in Nat
      /\ Here = p.steps[pc] /\ Here.op = "call"
      /\ pc \in StepsOf(p, {"call"}) /\ pc \notin StepsOf(p, {"hold"})
  BY <1>1, AtStep DEF CallClient
<1>3. asked' = asked \cup {c}
  BY DEF CallClient
<1>4. UNCHANGED <<config, client, made, held, limitsOf>> /\ last' = "nothing"
  BY DEF CallClient, cell, cellVars
<1>5. Advances(p)
  <2>1. \/ pc' = Len(Steps) + 1 /\ UNCHANGED outcome
        \/ GoOn
        \/ Stop("panicked") \/ Stop("failed")
    BY DEF CallClient
  <2>2. Len(Steps) = Len(p.steps)
    BY DEF Steps
  <2>3. QED
    BY <1>1, <1>2, <2>1, <2>2 DEF Advances, GoOn, Stop
<1> HIDE DEF p
<1>6. /\ pc' \in Nat /\ pc' > 0 /\ pc <= pc'
      /\ outcome' = "refused" => pc' \in StepsOf(p, {"read", "verify"})
      /\ outcome' = "running" => pc < pc'
      /\ Fetched(p)'
  BY <1>2, <1>4, <1>5, AdvancesKeeps DEF Follows, p
<1>7. Made'
  BY <1>4 DEF Made
<1>8. Behind(p)'
  <2>1. \E i \in StepsOf(p, {"call"}) : i <= pc' /\ (outcome' = "running" => i < pc')
    BY <1>2, <1>6
  <2>2. ASSUME limitsOf' # <<>>
        PROVE  \E i \in StepsOf(p, {"limits"}) : i < pc'
    <3>1. PICK i \in StepsOf(p, {"limits"}) : i < pc
      BY <1>4, <2>2 DEF Follows, Behind, p
    <3>2. i \in Nat
      BY <3>1 DEF StepsOf
    <3>3. QED
      BY <1>1, <1>6, <3>1, <3>2
  <2>3. QED
    BY <1>6, <2>1, <2>2 DEF Behind
<1> HIDE DEF c
<1>9. CalledOne(p)'
  <2>1. CalledOne(p)
    BY DEF Follows, p
  <2>2. ASSUME CallsVia(p, "held"), HeldFor(p, {"call"})
        PROVE  asked' \subseteq {held}
    <3>1. c = held
      BY <1>2, <2>2 DEF CallsVia, CallTo, c
    <3>2. QED
      BY <1>3, <2>1, <2>2, <3>1 DEF CalledOne
  <2>3. ASSUME CallsVia(p, "current"), AskHost(p)
        PROVE  asked' \subseteq {1}
    <3>1. c = client
      BY <1>2, <2>3 DEF CallsVia, CallTo, c
    <3>2. QED
      BY <1>3, <2>1, <2>3, <3>1 DEF CalledOne
  <2>4. ASSUME \A i, j \in StepsOf(p, {"call"}) : i = j
        PROVE  \A d, e \in asked' : d = e
    <3>1. asked = {}
      <4>1. SUFFICES ASSUME asked # {}
                     PROVE  FALSE
        OBVIOUS
      <4>2. PICK i \in StepsOf(p, {"call"}) : i < pc
        BY <1>2, <4>1 DEF Follows, Behind, p
      <4>3. i = pc
        BY <1>2, <2>4, <4>2, Zenon
      <4>4. QED
        BY <1>1, <4>2, <4>3
    <3>2. QED
      BY <1>3, <3>1
  <2>5. QED
    BY <1>4, <2>1, <2>2, <2>3, <2>4 DEF CalledOne
<1>10. LimitsOne(p)'
  BY <1>4 DEF Follows, LimitsOne, p
<1>11. LastRead(p)'
  BY <1>4 DEF LastRead
<1>12. QED
  BY <1>6, <1>7, <1>8, <1>9, <1>10, <1>11 DEF Follows, p

\* The limits are read of the client held, or of the only one there is.
LEMMA LimitsStep ==
  ASSUME NEW t \in DOMAIN Programs, task = t, Made, Follows(Programs[t]), ReadLimits
  PROVE  Made' /\ Follows(Programs[t])'
<1> DEFINE p == Programs[t]
<1>1. pc \in Nat /\ pc > 0
  BY DEF Follows, Behind
<1>2. /\ outcome = "running" /\ pc <= Len(p.steps) /\ Len(p.steps) \in Nat
      /\ Here = p.steps[pc] /\ Here.op = "limits"
      /\ pc \in StepsOf(p, {"limits"}) /\ pc \notin StepsOf(p, {"hold"})
  BY <1>1, AtStep DEF ReadLimits
<1>3. limitsOf' = CASE Here.of = "held"    -> made[held]
                    [] Here.of = "current" -> made[client]
                    [] Here.of = "start"   -> made[1]
  BY DEF ReadLimits, LimitsAt
<1>4. /\ UNCHANGED <<config, client, made, held, asked>> /\ last' = "nothing"
      /\ pc' = pc + 1 /\ outcome' = outcome
  BY DEF ReadLimits, GoOn, cell, cellVars
<1> HIDE DEF p
<1>5. Advances(p)
  BY <1>1, <1>2, <1>4 DEF Advances
<1>6. /\ pc' \in Nat /\ pc' > 0 /\ pc <= pc'
      /\ outcome' = "refused" => pc' \in StepsOf(p, {"read", "verify"})
      /\ outcome' = "running" => pc < pc'
      /\ Fetched(p)'
  BY <1>2, <1>4, <1>5, AdvancesKeeps DEF Follows, p
<1>7. Made'
  BY <1>4 DEF Made
<1>8. Behind(p)'
  <2>1. ASSUME asked' # {}
        PROVE  \E i \in StepsOf(p, {"call"}) : i <= pc' /\ (outcome' = "running" => i < pc')
    <3>1. PICK i \in StepsOf(p, {"call"}) : i < pc
      BY <1>2, <1>4, <2>1 DEF Follows, Behind, p
    <3>2. i \in Nat
      BY <3>1 DEF StepsOf
    <3>3. i < pc'
      BY <1>1, <1>4, <3>1, <3>2
    <3>4. QED
      BY <1>6, <3>1, <3>2, <3>3
  <2>2. \E i \in StepsOf(p, {"limits"}) : i < pc'
    BY <1>1, <1>2, <1>4
  <2>3. QED
    BY <1>6, <2>1, <2>2 DEF Behind
<1>9. CalledOne(p)'
  BY <1>4 DEF Follows, CalledOne, p
<1>10. LimitsOne(p)'
  <2>1. ASSUME LimitsOf(p, {"held"}), HeldFor(p, {"call", "limits"})
        PROVE  held \in 1..Len(made) /\ limitsOf' = made[held]
    <3>1. Here.of = "held"
      BY <1>2, <2>1 DEF LimitsOf
    <3>2. limitsOf' = made[held]
      BY <1>3, <3>1
    <3>3. pc \in StepsOf(p, {"call", "limits"})
      BY <1>2 DEF StepsOf
    <3>4. PICK i \in StepsOf(p, {"hold"}) : i < pc
      BY <2>1, <3>3 DEF HeldFor
    <3>5. held \in 1..Len(made)
      BY <1>2, <3>4 DEF Follows, Fetched, p
    <3>6. QED
      BY <3>2, <3>5
  <2>2. ASSUME LimitsOf(p, {"current", "start"}), AskHost(p)
        PROVE  limitsOf' = made[1]
    <3>1. Here.of \in {"current", "start"}
      BY <1>2, <2>2 DEF LimitsOf
    <3>2. client = 1
      BY <2>2 DEF Follows, CalledOne, p
    <3>3. QED
      BY <1>3, <3>1, <3>2
  <2>3. QED
    BY <1>4, <2>1, <2>2 DEF LimitsOne
<1>11. LastRead(p)'
  BY <1>4 DEF LastRead
<1>12. QED
  BY <1>6, <1>7, <1>8, <1>9, <1>10, <1>11 DEF Follows, p

\* The client is fetched before anything is asked of it, and before its limits are read.
LEMMA HoldStep ==
  ASSUME NEW t \in DOMAIN Programs, task = t, Made, Follows(Programs[t]), HoldClient
  PROVE  Made' /\ Follows(Programs[t])'
<1> DEFINE p == Programs[t]
<1>1. pc \in Nat /\ pc > 0
  BY DEF Follows, Behind
<1>2. /\ outcome = "running" /\ pc <= Len(p.steps) /\ Len(p.steps) \in Nat
      /\ pc \in StepsOf(p, {"hold"})
  BY <1>1, AtStep DEF HoldClient
<1>3. /\ UNCHANGED <<config, client, made, asked, limitsOf>> /\ last' = "nothing"
      /\ held' = client
      /\ \/ pc' = pc + 1 /\ outcome' = outcome
         \/ pc' = pc /\ outcome' = "failed"
  BY DEF HoldClient, GoOn, Stop, cell, cellVars
<1> HIDE DEF p
<1>4. pc' \in Nat /\ pc' > 0 /\ pc <= pc'
  BY <1>1, <1>3
<1>5. Made' /\ held' \in 1..Len(made')
  BY <1>3 DEF Made
<1>6. ASSUME NEW i \in StepsOf(p, {"call"}), i < pc
      PROVE  ~Precede(StepsOf(p, {"hold"}), StepsOf(p, {"call"}))
  <2>1. i \in Nat /\ ~(pc < i)
    BY <1>1, <1>6 DEF StepsOf
  <2>2. QED
    BY <1>2, <2>1 DEF Precede
<1>7. ASSUME NEW i \in StepsOf(p, {"limits"}), i < pc
      PROVE  ~Precede(StepsOf(p, {"hold"}), StepsOf(p, {"call", "limits"}))
  <2>1. i \in Nat /\ ~(pc < i) /\ i \in StepsOf(p, {"call", "limits"})
    BY <1>1, <1>7 DEF StepsOf
  <2>2. QED
    BY <1>2, <2>1 DEF Precede
<1>8. asked # {} => \E i \in StepsOf(p, {"call"}) : i < pc
  BY <1>2 DEF Follows, Behind, p
<1>9. limitsOf # <<>> => \E i \in StepsOf(p, {"limits"}) : i < pc
  BY DEF Follows, Behind, p
<1>10. Behind(p)'
  <2>1. \A i \in Nat : i < pc => i < pc'
    BY <1>1, <1>4
  <2>2. \A ops : StepsOf(p, ops) \subseteq Nat
    BY DEF StepsOf
  <2>3. outcome' # "refused"
    BY <1>2, <1>3
  <2>4. asked' # {} => \E i \in StepsOf(p, {"call"}) : i <= pc' /\ i < pc'
    BY <1>3, <1>4, <1>8, <2>1, <2>2
  <2>5. limitsOf' # <<>> => \E i \in StepsOf(p, {"limits"}) : i < pc'
    BY <1>3, <1>9, <2>1, <2>2
  <2>6. QED
    BY <1>4, <2>3, <2>4, <2>5 DEF Behind
<1>11. Fetched(p)'
  BY <1>5 DEF Fetched
<1>12. CalledOne(p)'
  <2>1. HeldFor(p, {"call"}) => asked = {}
    BY <1>6, <1>8 DEF HeldFor
  <2>2. QED
    BY <1>3, <2>1 DEF Follows, CalledOne, p
<1>13. LimitsOne(p)'
  <2>1. HeldFor(p, {"call", "limits"}) => limitsOf = <<>>
    BY <1>7, <1>9 DEF HeldFor
  <2>2. QED
    BY <1>3, <2>1 DEF Follows, LimitsOne, p
<1>14. LastRead(p)'
  BY <1>3 DEF LastRead
<1>15. QED
  BY <1>5, <1>10, <1>11, <1>12, <1>13, <1>14 DEF Follows, p

\* The parameter that is read is one the step takes, or the execution ends.
LEMMA ReadStep ==
  ASSUME NEW t \in DOMAIN Programs, task = t, Made, Follows(Programs[t]),
         NEW v \in Values, Read(v)
  PROVE  Made' /\ Follows(Programs[t])'
<1> DEFINE p == Programs[t]
<1>1. pc \in Nat /\ pc > 0
  BY DEF Follows, Behind
<1>2. /\ outcome = "running" /\ pc <= Len(p.steps) /\ Len(p.steps) \in Nat
      /\ Here = p.steps[pc] /\ pc \in StepsOf(p, {"read"})
      /\ pc \in StepsOf(p, {"read", "verify"}) /\ pc \notin StepsOf(p, {"hold"})
  BY <1>1, AtStep DEF Read
<1>3. /\ UNCHANGED <<config, client, made, held, asked, limitsOf>> /\ last' = v
      /\ \/ v \notin Here.takes /\ pc' = pc /\ outcome' = "refused"
         \/ v \in Here.takes /\ pc' = pc + 1 /\ outcome' = outcome
  BY DEF Read, Takes, GoOn, Stop, cell, cellVars, clientVars
<1>4. Advances(p)
  BY <1>1, <1>2, <1>3 DEF Advances
<1>5. LastRead(p)'
  BY <1>1, <1>2, <1>3 DEF LastRead
<1>6. QED
  BY <1>2, <1>3, <1>4, <1>5, QuietStep

\* What is left of Execute: calls nothing, fetches nothing and reads no parameter.
QuietSteps ==
  \/ VerifyParams \/ SkipCall \/ EndEarly \/ Each \/ FindItem \/ KeepItems \/ KeepItemsBelow
  \/ SortItems \/ ItemsAround \/ PickItem \/ CutItems \/ AddLastItem \/ Return

\* Such a step moves the execution on, or ends it, and leaves the client alone.
LEMMA OtherStep ==
  ASSUME NEW t \in DOMAIN Programs, task = t, Made, Follows(Programs[t]), QuietSteps
  PROVE  Made' /\ Follows(Programs[t])'
<1> DEFINE p == Programs[t]
<1>1. pc \in Nat /\ pc > 0 /\ Len(p.steps) \in Nat /\ Steps = p.steps
  BY TaskRunAssumption DEF Follows, Behind, Steps
<1>2. UNCHANGED <<config, client, made, held, asked, limitsOf>> /\ last' = "nothing"
  BY DEF QuietSteps, VerifyParams, SkipCall, EndEarly, Each, FindItem, KeepItems,
         KeepItemsBelow, SortItems, ItemsAround, PickItem, CutItems, AddLastItem, Return,
         cell, cellVars, clientVars
<1>3. Advances(p)
  <2>1. CASE VerifyParams
    BY <1>1, <2>1, AtStep DEF VerifyParams, GoOn, Stop, Advances
  <2>2. CASE SkipCall
    BY <1>1, <2>2, AtStep DEF SkipCall, GoOn, Advances
  <2>3. CASE EndEarly
    BY <1>1, <2>3, AtStep DEF EndEarly, GoOn, Advances
  <2>4. CASE Each
    BY <1>1, <2>4, AtStep DEF Each, GoOn, Stop, Advances
  <2>5. CASE FindItem
    BY <1>1, <2>5, AtStep DEF FindItem, GoOn, Stop, Advances
  <2>6. CASE KeepItems
    BY <1>1, <2>6, AtStep DEF KeepItems, GoOn, Advances
  <2>7. CASE KeepItemsBelow
    BY <1>1, <2>7, AtStep DEF KeepItemsBelow, GoOn, Advances
  <2>8. CASE SortItems
    BY <1>1, <2>8, AtStep DEF SortItems, GoOn, Advances
  <2>9. CASE ItemsAround
    BY <1>1, <2>9, AtStep DEF ItemsAround, GoOn, Advances
  <2>10. CASE PickItem
    BY <1>1, <2>10, AtStep DEF PickItem, GoOn, Advances
  <2>11. CASE CutItems
    BY <1>1, <2>11, AtStep DEF CutItems, GoOn, Advances
  <2>12. CASE AddLastItem
    BY <1>1, <2>12, AtStep DEF AddLastItem, GoOn, Advances
  <2>13. CASE Return
    BY <1>1, <2>13 DEF Return, Stop, Advances
  <2>14. QED
    BY <2>1, <2>2, <2>3, <2>4, <2>5, <2>6, <2>7, <2>8, <2>9, <2>10, <2>11, <2>12, <2>13
       DEF QuietSteps
<1>4. LastRead(p)'
  BY <1>2 DEF LastRead
<1>5. QED
  BY <1>1, <1>2, <1>3, <1>4, QuietStep

\* An update may replace the client, but not the one that is held, nor those called.
LEMMA UpdateStep ==
  ASSUME NEW t \in DOMAIN Programs, task = t, Made, Follows(Programs[t]),
         NEW raw \in Raws, UpdateConfig(raw)
  PROVE  Made' /\ Follows(Programs[t])'
<1> DEFINE p == Programs[t]
<1>1. UNCHANGED <<task, pc, outcome, held, asked, limitsOf, last>>
  BY DEF UpdateConfig, runVars
<1>2. outcome = "running" /\ ~AskHost(p)
  BY DEF UpdateConfig, HasClient, Provider, AskHost
<1>3. config' \in Configs
  BY DEF UpdateConfig, Update, Made, Merge, Raws, Configs
<1>4. \/ client' = client /\ made' = made
      \/ client' = Len(made) + 1 /\ made' = Append(made, config')
  BY DEF UpdateConfig
<1>5. /\ made \in Seq(Configs) /\ client \in 1..Len(made) /\ Len(made) \in Nat
  BY DEF Made
<1>6. /\ made' \in Seq(Configs) /\ client' \in 1..Len(made')
      /\ \A i \in 1..Len(made) : i \in 1..Len(made') /\ made'[i] = made[i]
  <2>1. CASE client' = client /\ made' = made
    BY <1>5, <2>1
  <2>2. CASE client' = Len(made) + 1 /\ made' = Append(made, config')
    <3>1. made' \in Seq(Configs) /\ Len(made') = Len(made) + 1
      BY <1>3, <1>5, <2>2
    <3>2. \A i \in 1..Len(made) : made'[i] = made[i]
      BY <1>3, <1>5, <2>2
    <3>3. QED
      BY <1>5, <2>2, <3>1, <3>2
  <2>3. QED
    BY <1>4, <2>1, <2>2
<1>7. Made'
  BY <1>3, <1>6 DEF Made
<1> HIDE DEF p
<1>8. Behind(p)'
  BY <1>1 DEF Follows, Behind, p
<1>9. Fetched(p)'
  BY <1>1, <1>6 DEF Follows, Fetched, p
<1>10. CalledOne(p)'
  BY <1>1, <1>2 DEF Follows, CalledOne, p
<1>11. LimitsOne(p)'
  BY <1>1, <1>2, <1>6 DEF Follows, LimitsOne, p
<1>12. LastRead(p)'
  BY <1>1 DEF Follows, LastRead, p
<1>13. QED
  BY <1>7, <1>8, <1>9, <1>10, <1>11, <1>12 DEF Follows, p

\* A step that touches nothing the invariant names.
LEMMA StutterStep ==
  ASSUME NEW p, Made, Follows(p),
         UNCHANGED <<config, client, made, pc, outcome, held, asked, limitsOf, last>>
  PROVE  Made' /\ Follows(p)'
  BY DEF Made, Follows, Behind, Fetched, CalledOne, LimitsOne, LastRead

\* Closing a client that was replaced is such a step.
LEMMA ExpireStep ==
  ASSUME NEW p, Made, Follows(p), NEW k, Expire(k)
  PROVE  Made' /\ Follows(p)'
<1>1. UNCHANGED <<config, client, made, pc, outcome, held, asked, limitsOf, last>>
  BY DEF Expire, CloseRetired, runVars
<1>2. QED
  BY <1>1, StutterStep

-----------------------------------------------------------------------------
(* The invariant holds.                                                    *)

\* Before the first step nothing was read, fetched or called.
LEMMA Start == ASSUME Init
               PROVE  IInv
<1>1. /\ config \in Configs /\ client = 1 /\ made = <<config>>
      /\ pc = 1 /\ outcome = "running" /\ last = "nothing" /\ asked = {} /\ limitsOf = <<>>
      /\ held = 0 /\ task \in DOMAIN Programs
  BY DEF Init, CellInit
<1>2. Made
  BY <1>1 DEF Made
<1>3. ASSUME NEW t \in DOMAIN Programs
      PROVE  Follows(Programs[t])
  <2> DEFINE p == Programs[t]
  <2>1. Behind(p)
    BY <1>1 DEF Behind
  <2>2. Fetched(p)
    BY <1>1 DEF Fetched, StepsOf
  <2>3. CalledOne(p)
    BY <1>1 DEF CalledOne
  <2>4. LimitsOne(p)
    BY <1>1 DEF LimitsOne
  <2>5. LastRead(p)
    BY <1>1 DEF LastRead
  <2>6. QED
    BY <2>1, <2>2, <2>3, <2>4, <2>5 DEF Follows
<1>4. QED
  BY <1>1, <1>2, <1>3 DEF IInv

\* An execution is one of the same task from its beginning to its end.
LEMMA SameTask == [Next]_vars => task' = task
<1> SUFFICES ASSUME [Next]_vars
             PROVE  task' = task
  OBVIOUS
<1>1. CASE Execute
  BY <1>1 DEF Execute, Read, VerifyParams, HoldClient, ReadLimits, CallClient, SkipCall,
     EndEarly, Each, FindItem, KeepItems, KeepItemsBelow, SortItems, ItemsAround, PickItem,
     CutItems, AddLastItem, Return, cell
<1>2. CASE \E raw \in Raws : UpdateConfig(raw)
  BY <1>2 DEF UpdateConfig, runVars
<1>3. CASE \E k \in retired : Expire(k)
  BY <1>3 DEF Expire, runVars
<1>4. CASE UNCHANGED vars
  BY <1>4 DEF vars, runVars
<1>5. QED
  BY <1>1, <1>2, <1>3, <1>4 DEF Next

\* Every step keeps it.
LEMMA Invariance == IInv /\ [Next]_vars => IInv'
<1> SUFFICES ASSUME IInv, [Next]_vars
             PROVE  IInv'
  OBVIOUS
<1>1. task' = task
  BY SameTask
<1>2. task \in DOMAIN Programs /\ Made /\ Follows(Programs[task])
  BY DEF IInv
<1>3. ASSUME NEW t \in DOMAIN Programs, task = t, Follows(Programs[t])
      PROVE  Made' /\ Follows(Programs[t])'
  <2>1. CASE \E v \in Values : Read(v)
    BY <1>2, <1>3, <2>1, ReadStep
  <2>2. CASE HoldClient
    BY <1>2, <1>3, <2>2, HoldStep
  <2>3. CASE ReadLimits
    BY <1>2, <1>3, <2>3, LimitsStep
  <2>4. CASE CallClient
    BY <1>2, <1>3, <2>4, CallStep
  <2>5. CASE QuietSteps
    BY <1>2, <1>3, <2>5, OtherStep
  <2>6. CASE \E raw \in Raws : UpdateConfig(raw)
    BY <1>2, <1>3, <2>6, UpdateStep
  <2>7. CASE \E k \in retired : Expire(k)
    BY <1>2, <1>3, <2>7, ExpireStep
  <2>8. CASE UNCHANGED vars
    <3>1. UNCHANGED <<config, client, made, pc, outcome, held, asked, limitsOf, last>>
      BY <2>8 DEF vars, cellVars, runVars
    <3>2. QED
      BY <1>2, <1>3, <3>1, StutterStep
  <2>9. QED
    BY <2>1, <2>2, <2>3, <2>4, <2>5, <2>6, <2>7, <2>8 DEF Next, Execute, QuietSteps
<1>4. Made'
  BY <1>2, <1>3
<1>5. ASSUME NEW t \in DOMAIN Programs, task' = t
      PROVE  Follows(Programs[t])'
  BY <1>1, <1>2, <1>3, <1>5
<1>6. QED
  BY <1>1, <1>2, <1>4, <1>5 DEF IInv

\* The invariant holds in every state.
LEMMA AlwaysIInv == Spec => []IInv
  BY Start, Invariance, PTL DEF Spec

-----------------------------------------------------------------------------
(* The theorems.  What they need of the programs is ExceptionsSuffice.     *)

\* A task that reads and checks its parameters before its first call refuses none after one.
THEOREM ChecksComeFirst == Spec => []ChecksFirst
<1>1. IInv => ChecksFirst
  <2>1. SUFFICES ASSUME IInv, task \notin ChecksLate, outcome = "refused", asked # {}
                 PROVE  FALSE
    BY DEF ChecksFirst
  <2> DEFINE p == Programs[task]
  <2>2. task \in DOMAIN Programs /\ Behind(p)
    BY <2>1 DEF IInv, Follows
  <2>3. ChecksPrecedeCalls(p)
    BY <2>1, <2>2, ExceptionsSuffice
  <2> HIDE DEF p
  <2>4. pc \in StepsOf(p, {"read", "verify"}) /\ pc \in Nat
    BY <2>1, <2>2 DEF Behind
  <2>5. PICK i \in StepsOf(p, {"call"}) : i <= pc
    BY <2>1, <2>2 DEF Behind
  <2>6. pc < i /\ i \in Nat
    BY <2>3, <2>4, <2>5 DEF ChecksPrecedeCalls, Precede, StepsOf
  <2>7. QED
    BY <2>4, <2>5, <2>6
<1>2. QED
  BY <1>1, AlwaysIInv, PTL

\* A task that fetches its client once before its calls, or calls once, or asks a host, asks
\* one client, however many are installed while it runs.
THEOREM OneClientOnly == Spec => []OneClient
<1>1. ASSUME \A c, d \in asked : c = d
      PROVE  Cardinality(asked) <= 1
  <2>1. CASE asked = {}
    BY <2>1, FS_EmptySet
  <2>2. CASE asked # {}
    <3>1. PICK c : asked = {c}
      BY <1>1, <2>2
    <3>2. Cardinality(asked) = 1
      BY <3>1, FS_Singleton
    <3>3. QED
      BY <3>2
  <2>3. QED
    BY <2>1, <2>2
<1>2. IInv => OneClient
  <2>1. SUFFICES ASSUME IInv, task \notin Refetches
                 PROVE  \A c, d \in asked : c = d
    BY <1>1 DEF OneClient
  <2> DEFINE p == Programs[task]
  <2>2. task \in DOMAIN Programs /\ CalledOne(p)
    BY <2>1 DEF IInv, Follows
  <2>3. FetchesOnce(p)
    BY <2>1, <2>2, ExceptionsSuffice
  <2> HIDE DEF p
  <2>4. QED
    BY <2>2, <2>3 DEF CalledOne, FetchesOnce
<1>3. QED
  BY <1>2, AlwaysIInv, PTL

\* A task that reads its limits of the client it then calls applies the limits of the
\* configuration that client was made for, although another may be in force by then.
THEOREM LimitsOfTheClient == Spec => []LimitsInForce
<1>1. IInv => LimitsInForce
  <2>1. SUFFICES ASSUME IInv, task \notin LimitsApart, limitsOf # <<>>, NEW c \in asked
                 PROVE  limitsOf = made[c]
    BY DEF LimitsInForce
  <2> DEFINE p == Programs[task]
  <2>2. task \in DOMAIN Programs /\ Behind(p) /\ CalledOne(p) /\ LimitsOne(p)
    BY <2>1 DEF IInv, Follows
  <2>3. LimitsOfClient(p)
    BY <2>1, <2>2, ExceptionsSuffice
  <2> HIDE DEF p
  <2>4. StepsOf(p, {"limits"}) # {} /\ StepsOf(p, {"call"}) # {}
    BY <2>1, <2>2 DEF Behind
  <2>5. HeldFor(p, {"call", "limits"}) => HeldFor(p, {"call"})
    BY DEF HeldFor, Precede, StepsOf
  <2>6. CASE CallsVia(p, "held") /\ LimitsOf(p, {"held"}) /\ HeldFor(p, {"call", "limits"})
    <3>1. c = held
      BY <2>1, <2>2, <2>5, <2>6 DEF CalledOne
    <3>2. QED
      BY <2>1, <2>2, <2>6, <3>1 DEF LimitsOne
  <2>7. CASE CallsVia(p, "current") /\ LimitsOf(p, {"current", "start"}) /\ AskHost(p)
    <3>1. c = 1
      BY <2>1, <2>2, <2>7 DEF CalledOne
    <3>2. QED
      BY <2>1, <2>2, <2>7, <3>1 DEF LimitsOne
  <2>8. QED
    BY <2>3, <2>4, <2>6, <2>7 DEF LimitsOfClient
<1>2. QED
  BY <1>1, AlwaysIInv, PTL

\* A task whose steps read the parameters of its schema as the schema states them refuses
\* no value that the schema admits, and has read them all when it is done.
THEOREM SchemasHonoured == Spec => []SchemaHonoured
<1>1. IInv => SchemaHonoured
  <2>1. SUFFICES ASSUME IInv, task \notin ReadsOtherwise
                 PROVE  Honours
    BY DEF SchemaHonoured
  <2> DEFINE p == Programs[task]
  <2>2. task \in DOMAIN Programs /\ LastRead(p)
    BY <2>1 DEF IInv, Follows
  <2>3. ReadsSchema(p)
    BY <2>1, <2>2, ExceptionsSuffice
  <2>4. Steps = p.steps /\ Schema = p.schema
    BY DEF Steps, Schema
  <2> HIDE DEF p
  <2>5. outcome = "done" => DOMAIN Schema = ParamsRead(Steps)
    BY <2>3, <2>4 DEF ReadsSchema
  <2>6. ASSUME JustRead
        PROVE  AsDocumented
    <3>1. CASE outcome = "running"
      <4>1. Reader = p.steps[pc - 1] /\ pc - 1 \in StepsOf(p, {"read"})
        BY <2>2, <2>4, <2>6, <3>1 DEF Reader, JustRead, LastRead
      <4>2. Stated(p.schema, Reader)
        BY <2>3, <4>1 DEF ReadsSchema
      <4>3. QED
        BY <2>4, <3>1, <4>2 DEF AsDocumented
    <3>2. CASE outcome = "refused"
      <4>1. /\ Reader = p.steps[pc] /\ pc \in StepsOf(p, {"read"})
            /\ last \in Values \ p.steps[pc].takes
        BY <2>2, <2>4, <2>6, <3>2 DEF Reader, JustRead, LastRead, Here
      <4>2. Stated(p.schema, Reader) /\ Excluded(p.schema[Reader.param], last)
        BY <2>3, <4>1 DEF ReadsSchema
      <4>3. QED
        BY <2>4, <4>2 DEF AsDocumented
    <3>3. QED
      BY <2>6, <3>1, <3>2 DEF JustRead
  <2>7. QED
    BY <2>5, <2>6 DEF Honours
<1>2. QED
  BY <1>1, AlwaysIInv, PTL

-----------------------------------------------------------------------------
(* The provider under a task is the cell that AutoConfig implements.       *)

\* What tasks see of their provider's configuration is a behaviour of ConfigCell: nothing an
\* execution does changes the configuration or the client, and every update is one of the
\* cell's.
THEOREM TasksShareCell == Spec => CellSpec
<1>1. Init => CellInit
  <2>1. SUFFICES ASSUME Init
                 PROVE  options \in [selective : BOOLEAN, hasClose : BOOLEAN, concurrent : BOOLEAN]
    BY DEF Init, CellInit
  <2>2. ASSUME NEW P \in DOMAIN OptionSets
        PROVE  OptionSets[P].selective \in BOOLEAN /\ OptionSets[P].hasClose \in BOOLEAN
    <3> DEFINE Good(a) == a.selective \in BOOLEAN /\ a.hasClose \in BOOLEAN
    <3>1. /\ Good(kafkaApply) /\ Good(postgresApply) /\ Good(kubernetesApply)
          /\ Good(prometheusApply) /\ Good(azureApply) /\ Good(graylogApply)
      BY DEF kafkaApply, postgresApply, kubernetesApply, prometheusApply, azureApply,
             graylogApply
    <3>2. ASSUME NEW a, NEW c, Good(a)
          PROVE  Good(Options(a, c))
      BY <3>2, Zenon DEF Options
    <3> HIDE DEF Good
    <3>3. Good(OptionSets[P])
      BY <3>1, <3>2 DEF OptionSets
    <3>4. QED
      BY <3>3 DEF Good
  <2>3. CASE HasClient
    BY <2>1, <2>2, <2>3 DEF Init, HasClient
  <2>4. CASE ~HasClient
    BY <2>1, <2>4 DEF Init, HostOptions
  <2>5. QED
    BY <2>3, <2>4
<1>2. [Next]_vars => [CellNext]_cellVars
  <2>1. CASE Execute
    BY <2>1 DEF Execute, Read, VerifyParams, HoldClient, ReadLimits, CallClient, SkipCall,
       EndEarly, Each, FindItem, KeepItems, KeepItemsBelow, SortItems, ItemsAround, PickItem,
       CutItems, AddLastItem, Return, cell
  <2>2. CASE \E raw \in Raws : UpdateConfig(raw)
    BY <2>2 DEF UpdateConfig, CellNext
  <2>3. CASE \E k \in retired : Expire(k)
    BY <2>3 DEF Expire, CellNext
  <2>4. CASE UNCHANGED vars
    BY <2>4 DEF vars
  <2>5. QED
    BY <2>1, <2>2, <2>3, <2>4 DEF Next
<1>3. QED
  BY <1>1, <1>2, PTL DEF Spec, CellSpec
=============================================================================

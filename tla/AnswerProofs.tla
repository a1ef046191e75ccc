---------------------------- MODULE AnswerProofs ----------------------------
(***************************************************************************)
(* Proofs about the answers of ProviderTasks: from the order in which a    *)
(* task filters, sorts and cuts, which TLC checks task by task, to what    *)
(* its answer contains, whatever the system holds and however its calls    *)
(* and parameters turn out.                                                *)
(***************************************************************************)
EXTENDS ProviderTasksProofs, ItemProofs

-----------------------------------------------------------------------------
(* What a step does to the answer, for an execution of program p.          *)

GoesOn(p, ops) == /\ outcome = "running" /\ outcome' = outcome
                  /\ pc \in StepsOf(p, ops) /\ pc' = pc + 1
Jumps(p)       == /\ outcome = "running" /\ outcome' = outcome
                  /\ pc \in Ending(p) /\ pc' = Len(p.steps) + 1
Halts(p)       == pc' = pc /\ (outcome' = "done" => pc = Len(p.steps) + 1)

answering == <<store, items, lost, sieved, says>>
asking    == <<given, limit, bound>>

\* Of the calls that answer, those are passed by that a parameter makes needless.
Idles(p) ==
  /\ \/ /\ GoesOn(p, {"verify", "hold", "call", "mayEnd", "find"})
        /\ pc \in Answering(p) => p.steps[pc].unless # {}
     \/ Jumps(p) /\ pc \notin Answering(p)
     \/ Halts(p)
  /\ UNCHANGED <<answering, asking>>

Sets(p) == /\ GoesOn(p, {"read", "limits"})
           /\ given' # given => pc \in StepsOf(p, {"read"})
           /\ limit' # limit => limit' \in LimitValues /\ pc \in Limiting(p)
           /\ bound' # bound => bound' \in BoundValues \cup {NoLimit} /\ pc \in Bounding(p)
           /\ UNCHANGED answering

Answers(p) ==
  /\ GoesOn(p, {"call"}) \/ Jumps(p)
  /\ pc \in Answering(p)
  /\ store' \in Stores
  /\ LET a == p.steps[pc].answer IN
       \/ a = "ordered"   /\ items' = store'
       \/ a = "unordered" /\ items' \in SetToSeqs(ToSet(store'))
       \/ a = "limited"   /\ items' = Take(store', Least)
       \/ a = "tail"      /\ items' = LastOf(store', IF given = {} THEN Least ELSE bound)
  /\ lost' = {}
  /\ UNCHANGED <<asking, sieved, says>>

\* A call that answers fails, and the execution goes on.
Misses(p) ==
  /\ GoesOn(p, {"call"})
  /\ pc \in Answering(p) /\ p.steps[pc].onError \in {"pass", "else", "report"}
  /\ store' \in Stores /\ items' = <<>>
  /\ lost' = IF p.steps[pc].onError = "report" THEN ToSet(store') ELSE {}
  /\ UNCHANGED <<asking, sieved, says>>

Leaves(p) ==
  /\ GoesOn(p, {"each"})
  /\ \E bad \in SUBSET ToSet(items) :
       /\ bad # {} => pc \in Dropping(p)
       /\ items' = Only(items, ToSet(items) \ bad) /\ lost' = lost \cup bad
  /\ UNCHANGED <<asking, store, sieved, says>>

Keeps(p) ==
  /\ GoesOn(p, {"keep"})
  /\ \/ items' = items /\ sieved' = sieved
     \/ items' = Only(items, WantedOf(items)) /\ sieved' = TRUE
  /\ UNCHANGED <<asking, store, lost, says>>

Hides(p) ==
  /\ GoesOn(p, {"below"})
  /\ items' = items \/ \E n \in Nat : items' = Take(items, n)
  /\ sieved' \in BOOLEAN
  /\ UNCHANGED <<asking, store, lost, says>>

Sorts(p) == /\ GoesOn(p, {"sort"}) /\ items' = Sorted(ToSet(items))
            /\ UNCHANGED <<asking, store, lost, sieved, says>>

Surrounds(p) ==
  /\ GoesOn(p, {"around"})
  /\ items' = IF p.steps[pc].by \subseteq given THEN extractLogContext(items, Least) ELSE items
  /\ UNCHANGED <<asking, store, lost, sieved, says>>

Picks(p) == /\ GoesOn(p, {"pick"}) /\ items' = Take(items, 1)
            /\ UNCHANGED <<asking, store, lost, sieved, says>>

CutsHere(p) ==
  /\ GoesOn(p, {"cut"})
  /\ IF p.steps[pc].if \subseteq given
     THEN items' = Take(items, Least) /\ says' = (p.steps[pc].says /\ Len(items) > Least)
     ELSE UNCHANGED <<items, says>>
  /\ UNCHANGED <<asking, store, lost, sieved>>

Adds(p) ==
  /\ GoesOn(p, {"addLast"})
  /\ items' # items => Len(items) = limit /\ items' = Append(items, items[limit])
  /\ UNCHANGED <<asking, store, lost, sieved, says>>

Reduces(p) == \/ Leaves(p) \/ Keeps(p) \/ Hides(p) \/ Sorts(p) \/ Surrounds(p) \/ Picks(p)
              \/ CutsHere(p)
Effects(p) == Idles(p) \/ Sets(p) \/ Answers(p) \/ Misses(p) \/ Reduces(p) \/ Adds(p)

\* The execution is somewhere in its program, and a limit other than NoLimit was read.  An
\* answer reaches no NoLimit, and there is none before a call that answers.
Sized(p) ==
  /\ pc \in 1..(Len(p.steps) + 1) /\ (outcome = "done" => pc = Len(p.steps) + 1)
  /\ limit \in LimitValues \cup {NoLimit} /\ (Limiting(p) = {} => limit = NoLimit)
  /\ bound \in BoundValues \cup {NoLimit} /\ (Bounding(p) = {} => bound = NoLimit)
  /\ store \in Seq(Nat) /\ Len(store) < NoLimit
  /\ items \in Seq(Nat)
  /\ limit = NoLimit \/ StepsOf(p, {"addLast"}) = {} => Len(items) < NoLimit
  /\ (\A i \in Answering(p) : ~(i < pc)) => store = <<>> /\ items = <<>>
  /\ sieved \in BOOLEAN /\ says \in BOOLEAN

SInv == /\ task \in DOMAIN Programs
        /\ \A t \in DOMAIN Programs : task = t => Sized(Programs[t])

\* Every step of the system does one of these things.
LEMMA StepEffects ==
  ASSUME NEW t \in DOMAIN Programs, task = t, Sized(Programs[t]), [Next]_vars
  PROVE  Effects(Programs[t])
<1> DEFINE p == Programs[t]
<1>1. /\ pc \in Nat /\ pc > 0 /\ Len(p.steps) \in Nat /\ Steps = p.steps
      /\ outcome = "done" => pc = Len(p.steps) + 1
  BY TaskRunAssumption DEF Sized, Steps, WellFormed
<1>2. ASSUME NEW op, At(op)
      PROVE  /\ outcome = "running" /\ pc \in 1..Len(p.steps) /\ Here = p.steps[pc]
             /\ Here.op = op /\ pc \in StepsOf(p, {op})
             /\ \A ops : op \in ops => pc \in StepsOf(p, ops)
  BY <1>1, <1>2, AtStep
<1> HIDE DEF p
<1>3. CASE \E v \in Values : Read(v)
  <2>1. PICK v \in Values : Read(v)
    BY <1>3
  <2>2. At("read") /\ UNCHANGED <<bound, answering>>
    BY <2>1 DEF Read, clientVars, answerVars, answering
  <2>3. CASE v \notin Here.takes
    <3>1. Halts(p) /\ UNCHANGED <<given, limit, pc>> /\ outcome' = "refused"
      BY <1>1, <2>1, <2>3 DEF Read, Takes, Stop, Halts
    <3>2. QED
      BY <2>2, <3>1 DEF Idles, asking, Effects, p
  <2>4. CASE v \in Here.takes
    <3>1. pc' = pc + 1 /\ outcome' = outcome
      BY <2>1, <2>4 DEF Read, Takes, GoOn
    <3>2. limit' # limit => limit' \in LimitValues /\ Here.cap # Unsaid
      BY <2>1, <2>4 DEF Read, Takes
    <3>3. GoesOn(p, {"read", "limits"}) /\ pc \in StepsOf(p, {"read"})
      BY <1>2, <2>2, <3>1 DEF GoesOn
    <3>4. limit' # limit => pc \in Limiting(p)
      BY <1>2, <2>2, <3>2, <3>3 DEF Limiting
    <3>5. Sets(p)
      BY <2>2, <3>2, <3>3, <3>4 DEF Sets
    <3>6. QED
      BY <3>5 DEF Effects, p
  <2>5. QED
    BY <2>3, <2>4
<1>4. CASE VerifyParams \/ HoldClient \/ SkipCall \/ EndEarly \/ FindItem
  <2>1. UNCHANGED <<answering, asking>>
    BY <1>4 DEF VerifyParams, HoldClient, SkipCall, EndEarly, FindItem, answerVars, paramVars,
       clientVars, answering, asking
  <2>2. CASE pc' = pc + 1 /\ outcome' = outcome
    <3>1. GoesOn(p, {"verify", "hold", "call", "mayEnd", "find"})
      BY <1>2, <1>4, <2>2 DEF VerifyParams, HoldClient, SkipCall, EndEarly, FindItem, GoesOn
    <3>2. CASE SkipCall
      <4>1. p.steps[pc].unless # {}
        BY <1>2, <3>2 DEF SkipCall
      <4>2. QED
        BY <2>1, <3>1, <4>1 DEF Idles, Effects, p
    <3>3. CASE VerifyParams \/ HoldClient \/ EndEarly \/ FindItem
      <4>1. Here = p.steps[pc] /\ Here.op \in {"verify", "hold", "mayEnd", "find"}
        <5>1. At("verify") \/ At("hold") \/ At("mayEnd") \/ At("find")
          BY <3>3 DEF VerifyParams, HoldClient, EndEarly, FindItem
        <5>2. QED
          BY <1>2, <5>1
      <4>2. pc \notin Answering(p)
        BY <4>1 DEF Answering, StepsOf
      <4>3. QED
        BY <2>1, <3>1, <4>2 DEF Idles, Effects, p
    <3>4. QED
      BY <1>4, <3>2, <3>3
  <2>3. CASE pc' = pc /\ outcome' \in {"refused", "failed"}
    BY <2>1, <2>3 DEF Halts, Idles, Effects, p
  <2>4. CASE EndEarly /\ pc' = Len(Steps) + 1 /\ outcome' = outcome
    <3>1. Jumps(p)
      BY <1>1, <1>2, <2>4 DEF EndEarly, Jumps, Ending
    <3>2. pc \notin Answering(p)
      <4>1. At("mayEnd")
        BY <2>4 DEF EndEarly
      <4>2. Here = p.steps[pc] /\ Here.op = "mayEnd"
        BY <1>2, <4>1
      <4>3. QED
        BY <4>2 DEF Answering, StepsOf
    <3>3. QED
      BY <2>1, <3>1, <3>2 DEF Idles, Effects, p
  <2>5. QED
    BY <1>4, <2>2, <2>3, <2>4 DEF VerifyParams, HoldClient, SkipCall, EndEarly, FindItem,
       GoOn, Stop
<1>5. CASE ReadLimits
  <2>1. /\ At("limits") /\ pc' = pc + 1 /\ outcome' = outcome
        /\ UNCHANGED <<given, limit, answering>>
        /\ bound' # bound => Here.bounds /\ bound' \in BoundValues \cup {NoLimit}
    BY <1>5 DEF ReadLimits, GoOn, paramVars, answerVars, answering
  <2>2. GoesOn(p, {"read", "limits"}) /\ (bound' # bound => pc \in Bounding(p))
    BY <1>2, <2>1 DEF GoesOn, Bounding
  <2>3. QED
    BY <2>1, <2>2 DEF Sets, Effects, p
<1>6. CASE CallClient
  <2>1. At("call") /\ UNCHANGED <<asking, sieved, says>>
    BY <1>6 DEF CallClient, paramVars, asking
  <2>2. /\ pc \in 1..Len(p.steps) /\ Here = p.steps[pc] /\ outcome = "running"
        /\ pc \in StepsOf(p, {"call"})
        /\ Here.answer \in {"none", "ordered", "unordered", "limited", "tail"}
        /\ Here.onError \in {"fail", "pass", "else", "report"}
    <3>1. /\ pc \in 1..Len(p.steps) /\ Here = p.steps[pc] /\ outcome = "running"
          /\ Here.op = "call" /\ pc \in StepsOf(p, {"call"})
      BY <1>2, <2>1
    <3>2. QED
      BY <3>1, TaskRunAssumption DEF WellFormed, p
  <2>3. pc \in Answering(p) <=> Here.answer # "none"
    BY <2>2 DEF Answering
  \* It halts, or does not answer.
  <2>4. CASE /\ UNCHANGED <<store, items, lost>>
             /\ Stop("panicked") \/ Stop("failed")
    <3>1. UNCHANGED <<answering, asking>>
      BY <2>1, <2>4 DEF answering
    <3>2. Halts(p)
      BY <2>4 DEF Stop, Halts
    <3>3. QED
      BY <3>1, <3>2 DEF Idles, Effects, p
  <2>5. CASE /\ Here.answer = "none" /\ UNCHANGED <<store, items, lost>>
             /\ GoOn \/ (Here.onError = "else" /\ pc' = Len(Steps) + 1 /\ UNCHANGED outcome)
    <3>1. UNCHANGED <<answering, asking>> /\ pc \notin Answering(p)
      BY <2>1, <2>3, <2>5 DEF answering
    <3>2. GoesOn(p, {"verify", "hold", "call", "mayEnd", "find"}) \/ Jumps(p)
      BY <1>1, <1>2, <2>1, <2>2, <2>5 DEF GoOn, GoesOn, Jumps, Ending
    <3>3. QED
      BY <3>1, <3>2 DEF Idles, Effects, p
  <2>6. CASE /\ IF Here.onError = "else" THEN pc' = Len(Steps) + 1 /\ UNCHANGED outcome
                ELSE GoOn
             /\ Here.answer # "none" /\ \E s \in Stores : Answer(s)
    <3>1. Jumps(p) \/ GoesOn(p, {"call"})
      BY <1>1, <2>2, <2>6 DEF GoOn, GoesOn, Jumps, Ending
    <3>2. PICK s \in Stores : Answer(s)
      BY <2>6
    <3>3. store' \in Stores /\ store' = s /\ lost' = {}
      BY <3>2 DEF Answer
    <3>4. \/ Here.answer = "ordered"   /\ items' = store'
          \/ Here.answer = "unordered" /\ items' \in SetToSeqs(ToSet(store'))
          \/ Here.answer = "limited"   /\ items' = Take(store', Least)
          \/ Here.answer = "tail" /\ items' = LastOf(store', IF given = {} THEN Least ELSE bound)
      BY <2>2, <2>6, <3>2, <3>3 DEF Answer
    <3>5. Answers(p)
      BY <2>1, <2>2, <2>3, <2>6, <3>1, <3>3, <3>4 DEF Answers
    <3>6. QED
      BY <3>5 DEF Effects, p
  <2>7. CASE /\ Here.onError # "fail" /\ GoOn
             /\ Here.answer # "none" /\ \E s \in Stores : NoAnswer(s)
    <3>1. PICK s \in Stores : NoAnswer(s)
      BY <2>7
    <3>2. /\ store' \in Stores /\ items' = <<>>
          /\ lost' = IF Here.onError = "report" THEN ToSet(store') ELSE {}
      BY <3>1 DEF NoAnswer
    <3>3. GoesOn(p, {"call"})
      BY <2>2, <2>7 DEF GoOn, GoesOn
    <3>4. pc \in Answering(p) /\ Here.onError \in {"pass", "else", "report"}
      BY <2>2, <2>3, <2>7
    <3>5. Misses(p)
      BY <2>1, <2>2, <3>2, <3>3, <3>4 DEF Misses
    <3>6. QED
      BY <3>5 DEF Effects, p
  <2>8. QED
    BY <1>6, <2>4, <2>5, <2>6, <2>7 DEF CallClient
<1>7. CASE Each
  <2>1. At("each") /\ UNCHANGED <<asking, store, sieved, says>>
    BY <1>7 DEF Each, paramVars, clientVars, asking
  <2>2. PICK bad \in {{}} \cup {{i} : i \in ToSet(items)} :
           IF bad # {} /\ Here.onError = "fail" THEN Stop("failed") /\ UNCHANGED <<items, lost>>
           ELSE /\ GoOn
                /\ items' = Only(items, ToSet(items) \ bad)
                /\ lost' = lost \cup bad
    BY <1>7 DEF Each
  <2>3. bad \in SUBSET ToSet(items)
    OBVIOUS
  <2>4. CASE bad # {} /\ Here.onError = "fail"
    BY <2>1, <2>2, <2>4 DEF Stop, Halts, Idles, Effects, answering, p
  <2>5. CASE ~(bad # {} /\ Here.onError = "fail")
    <3>1. GoesOn(p, {"each"})
      BY <1>2, <2>1, <2>2, <2>5 DEF GoOn, GoesOn
    <3>2. bad # {} => pc \in Dropping(p)
      BY <1>2, <2>1, <2>5 DEF Dropping
    <3>3. Leaves(p)
      BY <2>1, <2>2, <2>3, <2>5, <3>1, <3>2 DEF Leaves
    <3>4. QED
      BY <3>3 DEF Reduces, Effects, p
  <2>6. QED
    BY <2>4, <2>5
<1>8. CASE KeepItems
  <2>1. /\ GoesOn(p, {"keep"}) /\ UNCHANGED <<asking, store, lost, says>>
    BY <1>2, <1>8 DEF KeepItems, GoOn, GoesOn, paramVars, clientVars, asking
  <2>2. \/ items' = items /\ sieved' = sieved
        \/ items' = Only(items, WantedOf(items)) /\ sieved' = TRUE
    BY <1>8 DEF KeepItems, Sized
  <2>3. QED
    BY <2>1, <2>2 DEF Keeps, Reduces, Effects, p
<1>9. CASE KeepItemsBelow
  <2>1. /\ GoesOn(p, {"below"}) /\ UNCHANGED <<asking, store, lost, says>>
    BY <1>2, <1>9 DEF KeepItemsBelow, GoOn, GoesOn, paramVars, clientVars, asking
  <2>2. sieved' \in BOOLEAN
    BY <1>9 DEF KeepItemsBelow
  <2> DEFINE shown == {n \in 0..Len(items) : \A i \in 1..n : Wanted(items[i])}
  <2>3. items' = IF Filtering THEN Take(items, Max(shown)) ELSE items
    BY <1>9 DEF KeepItemsBelow
  <2>4. Max(shown) \in Nat
    <3>1. Len(items) \in Nat
      BY DEF Sized
    <3>2. 0 \in shown /\ shown \in SUBSET (0..Len(items))
      BY <3>1
    <3> HIDE DEF shown
    <3>3. QED
      BY <3>1, <3>2, GreatestIs
  <2> HIDE DEF shown
  <2>5. items' = items \/ \E n \in Nat : items' = Take(items, n)
    BY <2>3, <2>4
  <2>6. QED
    BY <2>1, <2>2, <2>5 DEF Hides, Reduces, Effects, p
<1>10. CASE SortItems
  <2>1. Sorts(p)
    BY <1>2, <1>10 DEF SortItems, GoOn, GoesOn, paramVars, clientVars, asking, Sorts
  <2>2. QED
    BY <2>1 DEF Reduces, Effects, p
<1>11. CASE ItemsAround
  <2>1. Surrounds(p)
    BY <1>2, <1>11 DEF ItemsAround, GoOn, GoesOn, paramVars, clientVars, asking, Surrounds
  <2>2. QED
    BY <2>1 DEF Reduces, Effects, p
<1>12. CASE PickItem
  <2>1. Picks(p)
    BY <1>2, <1>12 DEF PickItem, GoOn, GoesOn, paramVars, clientVars, asking, Picks
  <2>2. QED
    BY <2>1 DEF Reduces, Effects, p
<1>13. CASE CutItems
  <2>1. CutsHere(p)
    BY <1>2, <1>13 DEF CutItems, GoOn, GoesOn, paramVars, clientVars, asking, CutsHere
  <2>2. QED
    BY <2>1 DEF Reduces, Effects, p
<1>14. CASE AddLastItem
  <2>1. GoesOn(p, {"addLast"}) /\ UNCHANGED <<asking, store, lost, sieved, says>>
    BY <1>2, <1>14 DEF AddLastItem, GoOn, GoesOn, paramVars, clientVars, asking
  <2>2. items' # items => Len(items) = limit /\ items' = Append(items, items[limit])
    BY <1>14 DEF AddLastItem
  <2>3. QED
    BY <2>1, <2>2 DEF Adds, Effects, p
<1>15. CASE \/ Return \/ (\E raw \in Raws : UpdateConfig(raw)) \/ (\E k \in retired : Expire(k))
            \/ UNCHANGED vars
  <2>1. UNCHANGED <<answering, asking>>
    BY <1>15 DEF Return, UpdateConfig, Expire, vars, runVars, paramVars, clientVars,
       answerVars, asking, answering
  <2>2. Halts(p)
    <3>1. CASE Return
      BY <1>1, <3>1 DEF Return, Stop, Halts
    <3>2. CASE UNCHANGED <<pc, outcome>>
      BY <1>1, <3>2 DEF Halts
    <3>3. QED
      BY <1>15, <3>1, <3>2 DEF UpdateConfig, Expire, vars, runVars
  <2>3. QED
    BY <2>1, <2>2 DEF Idles, Effects, p
<1>16. QED
  BY <1>3, <1>4, <1>5, <1>6, <1>7, <1>8, <1>9, <1>10, <1>11, <1>12, <1>13, <1>14, <1>15
     DEF Next, Execute

\* An execution only moves forward, by one step or to the end of its program.
LEMMA Moves ==
  ASSUME NEW p, Len(p.steps) \in Nat, Sized(p), Effects(p)
  PROVE  /\ pc \in Nat /\ pc' \in 1..(Len(p.steps) + 1)
         /\ pc' = pc \/ pc' = pc + 1 \/ pc \in Ending(p)
         /\ pc <= pc' /\ (outcome' = "done" => pc' = Len(p.steps) + 1)
         /\ ~Halts(p) => pc < pc' /\ outcome' = outcome /\ outcome = "running"
<1>1. pc \in 1..(Len(p.steps) + 1)
  BY DEF Sized
<1>2. Halts(p) \/ (\E ops : GoesOn(p, ops)) \/ Jumps(p)
  BY DEF Effects, Idles, Sets, Answers, Misses, Reduces, Leaves, Keeps, Hides, Sorts, Surrounds,
     Picks, CutsHere, Adds
<1>3. CASE Halts(p)
  BY <1>1, <1>3 DEF Halts
<1>4. CASE \E ops : GoesOn(p, ops)
  <2>1. pc \in 1..Len(p.steps) /\ pc' = pc + 1 /\ outcome' = outcome /\ outcome = "running"
    BY <1>4 DEF GoesOn, StepsOf
  <2>2. QED
    BY <2>1
<1>5. CASE Jumps(p)
  <2>1. /\ pc \in 1..Len(p.steps) /\ pc \in Ending(p)
        /\ pc' = Len(p.steps) + 1 /\ outcome' = outcome /\ outcome = "running"
    BY <1>5 DEF Jumps, Ending, StepsOf
  <2>2. QED
    BY <2>1
<1>6. QED
  BY <1>2, <1>3, <1>4, <1>5

\* The limit and the bound are numbers, and so is the lower of them.
LEMMA Amounts ==
  ASSUME NEW p, Sized(p)
  PROVE  /\ limit \in Nat /\ bound \in Nat /\ Least \in Nat
         /\ Least <= limit /\ Least <= bound /\ limit > 0
         /\ Unlimited(p) => /\ Least = NoLimit /\ bound = NoLimit
                            /\ Len(items) < NoLimit /\ Len(store) < NoLimit
  BY TaskRunAssumption DEF Sized, Least, Unlimited

\* What a call answers with: the items of the system, or as many of them as it was to return.
LEMMA AnswerIs ==
  ASSUME NEW p, Sized(p), Answers(p)
  PROVE  /\ store' \in Seq(Nat) /\ Len(store') < NoLimit
         /\ items' \in Seq(Nat) /\ Len(items') <= Len(store')
         /\ ToSet(items') \subseteq ToSet(store')
         /\ pc \notin ServerCuts(p) => ToSet(items') = ToSet(store')
         /\ pc \in ServerCuts(p) => /\ Len(items') <= bound
                                    /\ items' = store' \/ Len(items') >= Least
<1> DEFINE a == p.steps[pc].answer
<1>1. store' \in Seq(Nat) /\ Len(store') < NoLimit /\ Len(store') \in Nat
  BY TaskRunAssumption DEF Answers
<1>2. bound \in Nat /\ Least \in Nat /\ Least <= bound
  BY Amounts
<1>3. pc \in ServerCuts(p) <=> a \in {"limited", "tail"}
  BY DEF Answers, ServerCuts
<1>4. CASE a = "ordered" /\ items' = store'
  BY <1>1, <1>3, <1>4
<1>5. CASE a = "unordered" /\ items' \in SetToSeqs(ToSet(store'))
  <2>1. /\ IsFiniteSet(ToSet(store')) /\ ToSet(store') \in SUBSET Nat
        /\ Cardinality(ToSet(store')) <= Len(store')
    BY <1>1, ToSetFinite
  <2>2. /\ items' \in Seq(Nat) /\ Len(items') = Cardinality(ToSet(store'))
        /\ ToSet(items') = ToSet(store')
    BY <1>5, <2>1, AnyOrder
  <2>3. QED
    BY <1>1, <1>3, <1>5, <2>1, <2>2
<1>6. CASE a = "limited" /\ items' = Take(store', Least)
  <2>1. /\ items' \in Seq(Nat) /\ ToSet(items') \subseteq ToSet(store')
        /\ Len(items') = IF Least < Len(store') THEN Least ELSE Len(store')
        /\ Len(store') <= Least => items' = store'
    BY <1>1, <1>2, <1>6, TakeIs
  <2>2. QED
    BY <1>1, <1>2, <1>3, <1>6, <2>1
<1>7. CASE a = "tail" /\ items' = LastOf(store', IF given = {} THEN Least ELSE bound)
  <2> DEFINE n == IF given = {} THEN Least ELSE bound
  <2>1. n \in Nat /\ n <= bound /\ Least <= n
    BY <1>2
  <2> HIDE DEF n
  <2>2. /\ items' \in Seq(Nat) /\ ToSet(items') \subseteq ToSet(store')
        /\ Len(items') = IF n < Len(store') THEN n ELSE Len(store')
        /\ Len(store') <= n => items' = store'
    BY <1>1, <1>7, <2>1, LastOfIs DEF n
  <2>3. QED
    BY <1>1, <1>2, <1>3, <1>7, <2>1, <2>2
<1>8. QED
  BY <1>4, <1>5, <1>6, <1>7 DEF Answers

\* Steps that work on the items make them no more.
LEMMA Reduced ==
  ASSUME NEW p, Sized(p), Reduces(p)
  PROVE  /\ items' \in Seq(Nat) /\ Len(items') <= Len(items)
         /\ ToSet(items') \subseteq ToSet(items)
         /\ items = <<>> => items' = <<>>
         /\ UNCHANGED <<asking, store>> /\ pc' = pc + 1
         /\ pc \in StepsOf(p, {"each", "keep", "below", "sort", "around", "pick", "cut"})
<1>1. items \in Seq(Nat) /\ Len(items) \in Nat /\ Least \in Nat
  BY Amounts DEF Sized
<1>2. /\ items' \in Seq(Nat) /\ Len(items') <= Len(items)
      /\ ToSet(items') \subseteq ToSet(items)
  <2>1. CASE \E S : items' = Only(items, S)
    BY <1>1, <2>1, OnlyIs
  <2>2. CASE \E n \in Nat : items' = Take(items, n)
    <3>1. PICK n \in Nat : items' = Take(items, n)
      BY <2>2
    <3>2. /\ items' \in Seq(Nat) /\ ToSet(items') \subseteq ToSet(items)
          /\ Len(items') = IF n < Len(items) THEN n ELSE Len(items)
      BY <1>1, <3>1, TakeIs
    <3>3. QED
      BY <1>1, <3>2
  <2>3. CASE items' = Sorted(ToSet(items))
    BY <1>1, <2>3, ToSetFinite, SortedItems
  <2>4. CASE items' = items
    BY <1>1, <2>4
  <2>5. CASE items' = extractLogContext(items, Least)
    <3>1. PICK I \in SUBSET DOMAIN items : items' = Take(AtPlaces(items, I), Least)
      BY <2>5 DEF extractLogContext
    <3>2. /\ AtPlaces(items, I) \in Seq(Nat) /\ Len(AtPlaces(items, I)) \in Nat
          /\ Len(AtPlaces(items, I)) <= Len(items)
          /\ ToSet(AtPlaces(items, I)) \subseteq ToSet(items)
      <4>1. /\ AtPlaces(items, I) \in Seq(Nat) /\ Len(AtPlaces(items, I)) = Cardinality(I)
            /\ Cardinality(I) \in Nat /\ Cardinality(I) <= Len(items)
            /\ ToSet(AtPlaces(items, I)) = {items[i] : i \in I}
        BY <1>1, PlacesAre
      <4>2. {items[i] : i \in I} \subseteq ToSet(items)
        BY DEF ToSet
      <4>3. QED
        BY <4>1, <4>2
    <3>3. /\ items' \in Seq(Nat) /\ ToSet(items') \subseteq ToSet(AtPlaces(items, I))
          /\ Len(items') = IF Least < Len(AtPlaces(items, I)) THEN Least
                           ELSE Len(AtPlaces(items, I))
      BY <1>1, <3>1, <3>2, TakeIs
    <3>4. QED
      BY <1>1, <3>2, <3>3
  <2>6. QED
    BY <1>1, <2>1, <2>2, <2>3, <2>4, <2>5
       DEF Reduces, Leaves, Keeps, Hides, Sorts, Surrounds, Picks, CutsHere
<1>3. /\ UNCHANGED <<asking, store>> /\ pc' = pc + 1
      /\ pc \in StepsOf(p, {"each", "keep", "below", "sort", "around", "pick", "cut"})
  BY DEF Reduces, Leaves, Keeps, Hides, Sorts, Surrounds, Picks, CutsHere, GoesOn, StepsOf
<1>4. ASSUME items = <<>>
      PROVE  items' = <<>>
  <2>1. Len(items) = 0
    BY <1>4
  <2>2. Len(items') = 0
    BY <1>2, <2>1, LenProperties
  <2>3. QED
    BY <1>2, <2>2, EmptySeq
<1>5. QED
  BY <1>2, <1>3, <1>4

\* An item that is added is one of the answer, which was as long as the limit.
LEMMA Added ==
  ASSUME NEW p, Sized(p), Adds(p)
  PROVE  /\ items' \in Seq(Nat) /\ ToSet(items') = ToSet(items)
         /\ Len(items') >= Len(items)
         /\ limit = NoLimit => items' = items
         /\ items = <<>> => items' = <<>>
         /\ UNCHANGED <<asking, store, lost, sieved, says>> /\ pc' = pc + 1
         /\ pc \in StepsOf(p, {"addLast"})
<1>1. items \in Seq(Nat) /\ Len(items) \in Nat /\ limit \in Nat /\ limit > 0
      /\ DOMAIN items = 1..Len(items)
  BY Amounts, LenProperties DEF Sized
<1>2. CASE items' = items
  BY <1>1, <1>2 DEF Adds, GoesOn
<1>3. CASE items' # items
  <2>1. Len(items) = limit /\ items' = Append(items, items[limit])
    BY <1>3 DEF Adds
  <2>2. limit \in DOMAIN items /\ items[limit] \in Nat /\ items # <<>>
    BY <1>1, <2>1, ElementOfSeq, EmptySeq
  <2>3. /\ items' \in Seq(Nat) /\ Len(items') = Len(items) + 1
        /\ \A i \in 1..Len(items) + 1 :
             items'[i] = IF i <= Len(items) THEN items[i] ELSE items[limit]
    BY <1>1, <2>1, <2>2, AppendProperties
  <2>4. DOMAIN items' = 1..(Len(items) + 1)
    BY <2>3, LenProperties
  <2>5. ToSet(items') = ToSet(items)
    <3>1. ASSUME NEW i \in DOMAIN items'
          PROVE  \E j \in DOMAIN items : items'[i] = items[j]
      <4>1. i \in 1..Len(items) + 1
        BY <2>4
      <4>2. items'[i] = IF i <= Len(items) THEN items[i] ELSE items[limit]
        BY <2>3, <4>1
      <4>3. i <= Len(items) => i \in DOMAIN items
        BY <1>1, <4>1
      <4>4. QED
        BY <2>2, <4>2, <4>3
    <3>2. \A j \in DOMAIN items : j \in DOMAIN items' /\ items'[j] = items[j]
      BY <1>1, <2>3, <2>4
    <3>3. QED
      BY <3>1, <3>2 DEF ToSet
  <2>6. limit # NoLimit
    BY <1>1, <2>1 DEF Sized
  <2>7. UNCHANGED <<asking, store, lost, sieved, says>> /\ pc' = pc + 1
        /\ pc \in StepsOf(p, {"addLast"})
    BY DEF Adds, GoesOn
  <2>8. Len(items') >= Len(items)
    BY <1>1, <2>3
  <2>9. QED
    BY <2>2, <2>3, <2>5, <2>6, <2>7, <2>8
<1>4. QED
  BY <1>2, <1>3

\* Whatever a step does, the execution stays in its program and its answer below NoLimit.
LEMMA SizedStep ==
  ASSUME NEW p, Len(p.steps) \in Nat, Sized(p), Effects(p)
  PROVE  Sized(p)'
<1>1. /\ pc' \in 1..(Len(p.steps) + 1) /\ (outcome' = "done" => pc' = Len(p.steps) + 1)
      /\ pc \in Nat /\ pc' \in Nat /\ pc <= pc'
  BY Moves
<1>2. /\ limit' \in LimitValues \cup {NoLimit} /\ (Limiting(p) = {} => limit' = NoLimit)
      /\ bound' \in BoundValues \cup {NoLimit} /\ (Bounding(p) = {} => bound' = NoLimit)
      /\ limit' # limit => limit' # NoLimit
  <2>1. CASE Sets(p)
    BY <2>1, TaskRunAssumption DEF Sets, Sized
  <2>2. CASE UNCHANGED <<limit, bound>>
    BY <2>2 DEF Sized
  <2>3. QED
    BY <2>1, <2>2, Reduced, Added DEF Effects, Idles, Answers, Misses, asking
<1>3. /\ store' \in Seq(Nat) /\ Len(store') < NoLimit
      /\ items' \in Seq(Nat)
      /\ limit' = NoLimit \/ StepsOf(p, {"addLast"}) = {} => Len(items') < NoLimit
  <2>0. NoLimit \in Nat /\ Len(items) \in Nat
    BY TaskRunAssumption, LenProperties DEF Sized
  <2>1. CASE UNCHANGED <<store, items>>
    BY <1>2, <2>1 DEF Sized
  <2>2. CASE Answers(p)
    <3>1. /\ store' \in Seq(Nat) /\ Len(store') < NoLimit
          /\ items' \in Seq(Nat) /\ Len(items') <= Len(store')
      BY <2>2, AnswerIs
    <3>2. Len(store') \in Nat /\ Len(items') \in Nat
      BY <3>1, LenProperties
    <3>3. QED
      BY <2>0, <3>1, <3>2
  <2>3. CASE Reduces(p)
    <3>1. /\ store' = store /\ items' \in Seq(Nat) /\ Len(items') <= Len(items)
      BY <2>3, Reduced
    <3>2. Len(items') \in Nat
      BY <3>1, LenProperties
    <3>3. /\ store \in Seq(Nat) /\ Len(store) < NoLimit
          /\ limit = NoLimit \/ StepsOf(p, {"addLast"}) = {} => Len(items) < NoLimit
          /\ limit' = NoLimit => limit = NoLimit
      BY <1>2 DEF Sized
    <3>4. QED
      BY <2>0, <3>1, <3>2, <3>3
  <2>4. CASE Adds(p)
    <3>1. /\ store' = store /\ items' \in Seq(Nat) /\ limit' = limit
          /\ limit = NoLimit => items' = items
          /\ pc \in StepsOf(p, {"addLast"})
      BY <2>4, Added DEF asking
    <3>2. QED
      BY <3>1 DEF Sized
  <2>5. CASE Misses(p)
    <3>1. store' \in Stores /\ items' = <<>>
      BY <2>5 DEF Misses
    <3>2. <<>> \in Seq(Nat) /\ Len(<<>>) = 0 /\ 0 < NoLimit
      BY TaskRunAssumption, EmptySeq
    <3>3. QED
      BY <3>1, <3>2, TaskRunAssumption
  <2>6. QED
    BY <2>1, <2>2, <2>3, <2>4, <2>5 DEF Effects, Idles, Sets, answering
<1>4. ASSUME \A i \in Answering(p) : ~(i < pc')
      PROVE  store' = <<>> /\ items' = <<>>
  <2>1. store = <<>> /\ items = <<>>
    <3>1. \A i \in Answering(p) : i \in Nat
      BY DEF Answering, StepsOf
    <3>2. \A i \in Answering(p) : ~(i < pc)
      BY <1>1, <1>4, <3>1
    <3>3. QED
      BY <3>2 DEF Sized
  <2>2. ~Answers(p) /\ ~Misses(p)
    <3>1. SUFFICES ASSUME Answers(p) \/ Misses(p)
                   PROVE  FALSE
      OBVIOUS
    <3>2. pc \in Answering(p) /\ pc < pc'
      <4>1. pc \in Answering(p) /\ (pc' = pc + 1 \/ pc' = Len(p.steps) + 1)
        BY <3>1 DEF Answers, Misses, GoesOn, Jumps
      <4>2. pc \in 1..Len(p.steps)
        BY <4>1 DEF Answering, StepsOf
      <4>3. QED
        BY <4>1, <4>2
    <3>3. QED
      BY <1>4, <3>2
  <2>3. QED
    BY <2>1, <2>2, Reduced, Added DEF Effects, Idles, Sets, answering
<1>5. sieved' \in BOOLEAN /\ says' \in BOOLEAN
  <2>1. CASE UNCHANGED <<sieved, says>>
    BY <2>1 DEF Sized
  <2>2. CASE Reduces(p)
    BY <2>2 DEF Sized, Reduces, Leaves, Keeps, Hides, Sorts, Surrounds, Picks, CutsHere
  <2>3. QED
    BY <2>1, <2>2 DEF Effects, Idles, Sets, Answers, Misses, Adds, answering
<1>6. QED
  BY <1>1, <1>2, <1>3, <1>4, <1>5 DEF Sized

\* So it is in every state of every execution.
LEMMA AlwaysSInv == Spec => []SInv
<1>1. Init => SInv
  <2>1. SUFFICES ASSUME Init, NEW t \in DOMAIN Programs
                 PROVE  Sized(Programs[t])
    BY DEF SInv, Init
  <2>2. Len(Programs[t].steps) \in Nat
    BY TaskRunAssumption DEF WellFormed
  <2>3. /\ pc = 1 /\ outcome = "running" /\ limit = NoLimit /\ bound = NoLimit
        /\ store = <<>> /\ items = <<>> /\ sieved = FALSE /\ says = FALSE
    BY <2>1 DEF Init
  <2>4. Len(<<>>) = 0 /\ <<>> \in Seq(Nat) /\ 0 < NoLimit
    BY TaskRunAssumption, EmptySeq
  <2>5. pc \in 1..(Len(Programs[t].steps) + 1)
    BY <2>2, <2>3
  <2>6. /\ store \in Seq(Nat) /\ Len(store) < NoLimit
        /\ items \in Seq(Nat) /\ Len(items) < NoLimit
    BY <2>3, <2>4
  <2>7. QED
    BY <2>3, <2>5, <2>6 DEF Sized
<1>2. SInv /\ [Next]_vars => SInv'
  <2>1. SUFFICES ASSUME SInv, [Next]_vars
                 PROVE  SInv'
    OBVIOUS
  <2>2. task' = task
    BY <2>1, SameTask
  <2>3. ASSUME NEW t \in DOMAIN Programs, task = t
        PROVE  Sized(Programs[t])'
    BY <2>1, <2>3, StepEffects, SizedStep, TaskRunAssumption DEF SInv, WellFormed
  <2>4. QED
    BY <2>1, <2>2, <2>3 DEF SInv
<1>3. QED
  BY <1>1, <1>2, PTL DEF Spec

-----------------------------------------------------------------------------
(* An answer is complete until it is cut.                                  *)

\* Leaving items out for an error, filtering and sorting lose no item that was asked for.
LEMMA StaysComplete ==
  ASSUME NEW p, Sized(p), Complete, Leaves(p) \/ Keeps(p) \/ Sorts(p)
  PROVE  Complete'
<1>1. items \in Seq(Nat)
  BY DEF Sized
<1>2. CASE Leaves(p)
  <2>1. PICK bad \in SUBSET ToSet(items) :
           items' = Only(items, ToSet(items) \ bad) /\ lost' = lost \cup bad
    BY <1>2 DEF Leaves
  <2>2. ToSet(items') = ToSet(items) \cap (ToSet(items) \ bad)
    BY <1>1, <2>1, OnlyIs
  <2>3. UNCHANGED <<store, sieved>>
    BY <1>2 DEF Leaves
  <2>4. QED
    BY <2>1, <2>2, <2>3 DEF Complete, AskedFor
<1>3. CASE Keeps(p)
  <2>1. UNCHANGED <<store, lost>>
    BY <1>3 DEF Keeps
  <2>2. CASE items' = items /\ sieved' = sieved
    BY <2>1, <2>2 DEF Complete, AskedFor
  <2>3. CASE items' = Only(items, WantedOf(items)) /\ sieved' = TRUE
    <3>1. ToSet(items') = ToSet(items) \cap WantedOf(items)
      BY <1>1, <2>3, OnlyIs
    <3>2. ASSUME NEW i \in AskedFor', i \notin lost'
          PROVE  i \in ToSet(items')
      <4>1. i \in ToSet(store) /\ Wanted(i) /\ i \notin lost
        BY <2>1, <2>3, <3>2 DEF AskedFor
      <4>2. i \in ToSet(items)
        BY <4>1 DEF Complete, AskedFor
      <4>3. QED
        BY <3>1, <4>1, <4>2 DEF WantedOf
    <3>3. QED
      BY <3>2 DEF Complete
  <2>4. QED
    BY <1>3, <2>2, <2>3 DEF Keeps
<1>4. CASE Sorts(p)
  <2>1. ToSet(items') = ToSet(items)
    BY <1>1, <1>4, ToSetFinite, SortedItems DEF Sorts
  <2>2. UNCHANGED <<store, lost, sieved>>
    BY <1>4 DEF Sorts
  <2>3. QED
    BY <2>1, <2>2 DEF Complete, AskedFor
<1>5. QED
  BY <1>2, <1>3, <1>4

\* Cutting either leaves all items or leaves as many as are wanted.
LEMMA CutIs ==
  ASSUME NEW p, Sized(p), CutsHere(p)
  PROVE  /\ items' \in Seq(Nat)
         /\ items' = items \/ Len(items') = Least
         /\ p.steps[pc].if \subseteq given =>
              /\ Len(items') <= Least /\ (items' = items <=> ~(Len(items) > Least))
              /\ items' = Take(items, Least)
              /\ says' = (p.steps[pc].says /\ Len(items) > Least)
         /\ ~(p.steps[pc].if \subseteq given) => items' = items /\ says' = says
<1>1. items \in Seq(Nat) /\ Least \in Nat /\ Len(items) \in Nat
  BY Amounts, LenProperties DEF Sized
<1>2. CASE p.steps[pc].if \subseteq given
  <2>1. items' = Take(items, Least) /\ says' = (p.steps[pc].says /\ Len(items) > Least)
    BY <1>2 DEF CutsHere
  <2>2. /\ items' \in Seq(Nat)
        /\ Len(items') = IF Least < Len(items) THEN Least ELSE Len(items)
        /\ Len(items) <= Least => items' = items
    BY <1>1, <2>1, TakeIs
  <2>3. QED
    BY <1>1, <1>2, <2>1, <2>2
<1>3. CASE ~(p.steps[pc].if \subseteq given)
  BY <1>1, <1>3 DEF CutsHere
<1>4. QED
  BY <1>2, <1>3

\* What a call has passed over is still to be settled.
Missing(p) == \E j \in Settling(p) : Settles(p, j, pc)

\* The answer is complete, or as long as was wanted after it was cut, or still missing.
Full(p) == \/ Missing(p) \/ Complete
           \/ /\ Len(items) >= Least
              /\ \E c \in StepsOf(p, {"cut"}) \cup ServerCuts(p) : c < pc

\* What is still to be settled is, by a call that the execution cannot pass by.
LEMMA MissingStep ==
  ASSUME NEW p, Len(p.steps) \in Nat, Sized(p), Effects(p), Missing(p),
         ~Answers(p), ~Misses(p)
  PROVE  Missing(p)'
<1>1. PICK j \in Settling(p) : Settles(p, j, pc)
  BY DEF Missing
<1>2. /\ j \in Answering(p) /\ p.steps[j].unless = {} /\ p.steps[j].op = "call"
      /\ j \in Nat /\ pc <= j
      /\ \A k \in Ending(p) \ Answering(p) : k \in Nat /\ (k < pc \/ j < k)
  BY <1>1 DEF Settling, Settles, Answering, Ending, StepsOf
<1>3. pc \in Nat /\ (Halts(p) \/ (\E ops : GoesOn(p, ops)) \/ Jumps(p))
  BY Moves DEF Effects, Idles, Sets, Reduces, Leaves, Keeps, Hides, Sorts, Surrounds, Picks,
     CutsHere, Adds
<1>4. SUFFICES pc' \in Nat /\ pc' <= j /\ pc <= pc'
  <2>1. \A k \in Ending(p) \ Answering(p) : k < pc' \/ j < k
    BY <1>2, <1>3, <1>4
  <2>2. Settles(p, j, pc)'
    BY <1>1, <1>4, <2>1 DEF Settles
  <2>3. QED
    BY <1>1, <2>2 DEF Missing
<1>5. CASE Halts(p)
  BY <1>2, <1>3, <1>5 DEF Halts
<1>6. CASE \E ops : GoesOn(p, ops)
  <2>1. pc' = pc + 1
    BY <1>6 DEF GoesOn
  <2>2. pc # j
    BY <1>2, <1>3, <2>1 DEF Effects, Idles, Sets, Reduces, Leaves, Keeps, Hides, Sorts, Surrounds,
       Picks, CutsHere, Adds, GoesOn, Jumps, Halts, StepsOf
  <2>3. QED
    BY <1>2, <1>3, <2>1, <2>2
<1>7. CASE Jumps(p) /\ ~(\E ops : GoesOn(p, ops)) /\ ~Halts(p)
  <2>1. pc \in Ending(p) \ Answering(p)
    BY <1>7 DEF Effects, Idles, Sets, Reduces, Leaves, Keeps, Hides, Sorts, Surrounds, Picks,
       CutsHere, Adds, Jumps
  <2>2. QED
    BY <1>2, <1>3, <2>1
<1>8. QED
  BY <1>3, <1>5, <1>6, <1>7

\* What comes before the cuts of such a program drops nothing that is wanted, a cut leaves as
\* many items as were wanted, and what a call passes over is settled by a later one.
LEMMA FullStep ==
  ASSUME NEW p, Len(p.steps) \in Nat, Sized(p), Effects(p), CutsLast(p), Full(p)
  PROVE  Full(p)'
<1> DEFINE cuts == StepsOf(p, {"cut"}) \cup ServerCuts(p)
<1>1. /\ pc \in Nat /\ pc' \in Nat /\ pc <= pc' /\ (~Halts(p) => pc < pc')
      /\ cuts \subseteq Nat
  BY Moves DEF StepsOf, ServerCuts, Answering
<1>2. (\E c \in cuts : c < pc) => \E c \in cuts : c < pc'
  BY <1>1
<1>3. Len(items) \in Nat /\ Least \in Nat /\ items \in Seq(Nat)
  BY Amounts, LenProperties DEF Sized
\* Whatever changes what is wanted, or drops items, comes before the cuts.
<1>4. ASSUME ~Missing(p), pc \in StepsOf(p, {"read", "limits", "sort"}) \cup Dropping(p)
      PROVE  Complete
  <2>1. CASE Unlimited(p)
    <3>1. ~(Len(items) >= Least)
      BY <1>3, <2>1, Amounts
    <3>2. QED
      BY <1>4, <3>1 DEF Full
  <2>2. CASE ~Unlimited(p)
    <3>1. \A c \in cuts : pc < c
      BY <1>4, <2>2 DEF CutsLast, Precede
    <3>2. ~\E c \in cuts : c < pc
      BY <1>1, <3>1
    <3>3. QED
      BY <1>4, <3>2 DEF Full
  <2>3. QED
    BY <2>1, <2>2
<1>5. CASE Missing(p) /\ ~Answers(p) /\ ~Misses(p)
  BY <1>5, MissingStep DEF Full
<1>6. CASE Misses(p)
  <2>1. /\ pc \in Answering(p) /\ pc' = pc + 1 /\ UNCHANGED sieved
        /\ p.steps[pc].onError \in {"pass", "else", "report"}
        /\ lost' = IF p.steps[pc].onError = "report" THEN ToSet(store') ELSE {}
    BY <1>6 DEF Misses, GoesOn
  <2>2. CASE p.steps[pc].onError = "report"
    BY <2>1, <2>2 DEF Full, Complete, AskedFor
  <2>3. CASE p.steps[pc].onError # "report"
    <3>1. pc \in Passing(p)
      BY <2>1, <2>3 DEF Passing
    <3>2. PICK j \in Settling(p) : Settles(p, j, pc)
      BY <3>1 DEF CutsLast
    <3>3. /\ j \in Nat /\ pc <= j /\ pc # j
          /\ \A k \in Ending(p) \ Answering(p) : k \in Nat /\ (k < pc \/ j < k)
      BY <2>1, <2>3, <3>1, <3>2 DEF Settles, Settling, Passing, Answering, Ending, StepsOf
    <3>4. pc' <= j /\ \A k \in Ending(p) \ Answering(p) : k < pc' \/ j < k
      BY <1>1, <2>1, <3>3
    <3>5. Settles(p, j, pc)'
      BY <3>2, <3>4 DEF Settles
    <3>6. QED
      BY <3>2, <3>5 DEF Full, Missing
  <2>4. QED
    BY <2>2, <2>3
<1>7. CASE Idles(p) /\ ~Missing(p)
  <2>1. UNCHANGED <<store, items, lost, sieved, limit, bound>>
    BY <1>7 DEF Idles, answering, asking
  <2>2. QED
    BY <1>2, <1>7, <2>1 DEF Full, Complete, AskedFor, Least
<1>8. CASE Sets(p) /\ ~Missing(p)
  <2>1. Complete
    BY <1>4, <1>8 DEF Sets, GoesOn, StepsOf
  <2>2. QED
    BY <1>8, <2>1 DEF Sets, answering, Full, Complete, AskedFor
<1>9. CASE Answers(p)
  <2>1. UNCHANGED <<sieved, limit, bound>>
    BY <1>9 DEF Answers, asking
  <2>2. CASE ToSet(items') = ToSet(store')
    BY <2>1, <2>2 DEF Full, Complete, AskedFor
  <2>3. CASE pc \in ServerCuts(p) /\ Len(items') >= Least
    <3>1. pc < pc'
      <4>1. pc \in 1..Len(p.steps)
        BY <2>3 DEF ServerCuts, Answering, StepsOf
      <4>2. QED
        BY <1>9, <4>1 DEF Answers, GoesOn, Jumps
    <3>2. QED
      BY <2>1, <2>3, <3>1 DEF Full, Least
  <2>4. QED
    BY <1>9, <2>2, <2>3, AnswerIs
<1>10. CASE Adds(p) /\ ~Missing(p)
  <2>1. /\ ToSet(items') = ToSet(items) /\ Len(items') >= Len(items) /\ items' \in Seq(Nat)
        /\ UNCHANGED <<store, lost, sieved, limit, bound>>
    BY <1>10, Added DEF asking
  <2>2. Len(items') \in Nat
    BY <2>1, LenProperties
  <2>3. Least' = Least
    BY <2>1 DEF Least
  <2>4. Len(items) >= Least => Len(items') >= Least
    BY <1>3, <2>1, <2>2
  <2>5. QED
    BY <1>2, <1>10, <2>1, <2>3, <2>4 DEF Full, Complete, AskedFor
<1>11. CASE Reduces(p) /\ ~Missing(p)
  <2>1. UNCHANGED <<store, limit, bound>>
    BY <1>11, Reduced DEF asking
  <2>2. ASSUME UNCHANGED <<items, lost, sieved>>
        PROVE  Full(p)'
    BY <1>2, <1>11, <2>1, <2>2 DEF Full, Complete, AskedFor, Least
  <2>3. CASE Leaves(p)
    <3>1. CASE pc \in Dropping(p)
      BY <1>4, <1>11, <2>3, <3>1, StaysComplete DEF Full
    <3>2. CASE pc \notin Dropping(p)
      <4>1. items' = Only(items, ToSet(items) \ {}) /\ lost' = lost \cup {} /\ sieved' = sieved
        BY <2>3, <3>2 DEF Leaves
      <4>2. ToSet(items) \ {} = ToSet(items) /\ lost' = lost
        BY <4>1
      <4>3. items' = Only(items, ToSet(items))
        BY <4>1, <4>2
      <4>4. ToSet(items') = ToSet(items) /\ Len(items') = Len(items)
        <5>1. /\ ToSet(Only(items, ToSet(items))) = ToSet(items) \cap ToSet(items)
              /\ Len(Only(items, ToSet(items))) = Len(items)
          BY <1>3, OnlyIs
        <5>2. ToSet(items) \cap ToSet(items) = ToSet(items)
          OBVIOUS
        <5>3. QED
          BY <4>3, <5>1, <5>2
      <4>5. Least' = Least /\ (Complete => Complete')
        BY <2>1, <4>1, <4>2, <4>4 DEF Complete, AskedFor, Least
      <4>6. QED
        BY <1>2, <1>11, <4>4, <4>5 DEF Full
    <3>3. QED
      BY <3>1, <3>2
  <2>4. CASE Keeps(p)
    <3>1. pc \in Dropping(p)
      BY <2>4 DEF Keeps, GoesOn, Dropping
    <3>2. QED
      BY <1>4, <1>11, <2>4, <3>1, StaysComplete DEF Full
  <2>5. CASE Sorts(p)
    <3>1. pc \in StepsOf(p, {"read", "limits", "sort"})
      BY <2>5 DEF Sorts, GoesOn, StepsOf
    <3>2. QED
      BY <1>4, <1>11, <2>5, <3>1, StaysComplete DEF Full
  <2>6. CASE CutsHere(p)
    <3>1. CASE items' = items
      BY <2>2, <2>6, <3>1 DEF CutsHere
    <3>2. CASE Len(items') = Least
      <4>1. pc \in cuts /\ pc < pc'
        BY <1>1, <2>6 DEF CutsHere, GoesOn
      <4>2. QED
        BY <1>3, <2>1, <3>2, <4>1 DEF Full, Least
    <3>3. QED
      BY <2>6, <3>1, <3>2, CutIs
  <2>7. ~Hides(p) /\ ~Surrounds(p) /\ ~Picks(p)
    BY DEF CutsLast, DropsInOrder, Hides, Surrounds, Picks, GoesOn, StepsOf
  <2>8. QED
    BY <1>11, <2>3, <2>4, <2>5, <2>6, <2>7 DEF Reduces
<1>12. QED
  BY <1>7, <1>8, <1>9, <1>10, <1>11, <1>5, <1>6 DEF Effects

FullInv == \A t \in DOMAIN Programs \ Incomplete : task = t => Full(Programs[t])

\* A task that cuts its answer last, if at all, and passes over no error that no later call
\* makes good, returns every item that was asked for, unless the answer is as long as it may be
\* or tells of an error.
THEOREM AnswersComplete == Spec => []CompleteAnswer
<1>1. Init => FullInv
  BY DEF Init, FullInv, Full, Complete, AskedFor, ToSet
<1>2. SInv /\ [Next]_vars /\ FullInv => FullInv'
  <2>1. SUFFICES ASSUME SInv, [Next]_vars, FullInv,
                        NEW t \in DOMAIN Programs \ Incomplete, task' = t
                 PROVE  Full(Programs[t])'
    BY DEF FullInv
  <2>2. task = t /\ Len(Programs[t].steps) \in Nat
    BY <2>1, SameTask, TaskRunAssumption DEF WellFormed
  <2>3. Sized(Programs[t]) /\ Full(Programs[t])
    BY <2>1, <2>2 DEF SInv, FullInv
  <2>4. CutsLast(Programs[t])
    BY <2>1, ExceptionsSuffice
  <2>5. QED
    BY <2>1, <2>2, <2>3, <2>4, StepEffects, FullStep
<1>3. SInv /\ FullInv => CompleteAnswer
  <2>1. SUFFICES ASSUME SInv, FullInv, task \notin Incomplete, outcome = "done",
                        Len(items) < Least
                 PROVE  Complete
    BY DEF CompleteAnswer, ShortComplete
  <2> DEFINE p == Programs[task]
  <2>2. Full(p) /\ Sized(p) /\ Len(p.steps) \in Nat
    BY <2>1, TaskRunAssumption DEF SInv, FullInv, WellFormed
  <2> HIDE DEF p
  <2>3. Len(items) \in Nat /\ Least \in Nat
    BY <2>2, Amounts, LenProperties DEF Sized
  <2>4. ~Missing(p)
    BY <2>1, <2>2 DEF Missing, Settling, Settles, Answering, StepsOf, Sized
  <2>5. QED
    BY <2>1, <2>2, <2>3, <2>4 DEF Full
<1>4. QED
  BY <1>1, <1>2, <1>3, AlwaysSInv, PTL DEF Spec

-----------------------------------------------------------------------------
(* An answer that was cut says so.                                         *)

Tells(p) == \E i \in StepsOf(p, {"cut"}) : p.steps[i].says = TRUE

Told(p) == Tells(p) => /\ Complete \/ says
                       /\ says => \E c \in StepsOf(p, {"cut"}) : c < pc

\* A cut that shortens the answer says so, and no later step takes that back or drops more.
LEMMA ToldStep ==
  ASSUME NEW p, Len(p.steps) \in Nat, Sized(p), Effects(p), TellsCuts(p), Told(p)
  PROVE  Told(p)'
<1> SUFFICES ASSUME Tells(p)
             PROVE  /\ (Complete \/ says)'
                    /\ says' => \E c \in StepsOf(p, {"cut"}) : c < pc'
  BY DEF Told, Tells
<1>1. /\ Complete \/ says
      /\ says => \E c \in StepsOf(p, {"cut"}) : c < pc
  BY DEF Told
<1>2. /\ DropsInOrder(p) /\ ServerCuts(p) = {} /\ Passing(p) = {}
      /\ \A i, j \in StepsOf(p, {"cut"}) : i = j
  BY DEF TellsCuts, Tells
<1>3. says => \E c \in StepsOf(p, {"cut"}) : c < pc'
  <2>1. pc \in Nat /\ pc' \in Nat /\ pc <= pc'
    BY Moves
  <2>2. \A c \in StepsOf(p, {"cut"}) : c \in Nat
    BY DEF StepsOf
  <2>3. QED
    BY <1>1, <2>1, <2>2
<1>4. CASE UNCHANGED answering
  BY <1>1, <1>3, <1>4 DEF answering, Complete, AskedFor
<1>5. CASE Answers(p)
  <2>1. ToSet(items') = ToSet(store') /\ says' = says
    BY <1>2, <1>5, AnswerIs DEF Answers
  <2>2. Complete'
    BY <2>1 DEF Complete, AskedFor
  <2>3. QED
    BY <1>3, <2>1, <2>2
<1>6. CASE Adds(p)
  <2>1. ToSet(items') = ToSet(items) /\ UNCHANGED <<store, lost, sieved, says>>
    BY <1>6, Added
  <2>2. QED
    BY <1>1, <1>3, <2>1 DEF Complete, AskedFor
<1>7. CASE Leaves(p) \/ Keeps(p) \/ Sorts(p)
  <2>1. says' = says
    BY <1>7 DEF Leaves, Keeps, Sorts
  <2>2. Complete => Complete'
    BY <1>7, StaysComplete
  <2>3. QED
    BY <1>1, <1>3, <2>1, <2>2
<1>8. CASE CutsHere(p)
  <2>1. /\ pc \in StepsOf(p, {"cut"}) /\ pc < pc' /\ UNCHANGED <<store, lost, sieved>>
    <3>1. pc \in StepsOf(p, {"cut"}) /\ pc' = pc + 1 /\ UNCHANGED <<store, lost, sieved>>
      BY <1>8 DEF CutsHere, GoesOn
    <3>2. QED
      BY <3>1 DEF StepsOf
  \* It is the first cut, so that nothing was lost before it.
  <2>2. Complete /\ ~says
    <3>1. \A c \in StepsOf(p, {"cut"}) : ~(c < pc)
      <4>1. \A c \in StepsOf(p, {"cut"}) : c = pc
        BY <1>2, <2>1
      <4>2. pc \in Nat
        BY <2>1 DEF StepsOf
      <4>3. QED
        BY <4>1, <4>2
    <3>2. QED
      BY <1>1, <3>1
  <2>3. p.steps[pc].says = TRUE
    BY <1>2, <2>1 DEF Tells
  <2>4. items' = items \/ says'
    BY <1>8, <2>3, CutIs
  <2>5. CASE items' = items
    BY <2>1, <2>2, <2>5 DEF Complete, AskedFor
  <2>6. CASE says'
    BY <2>1, <2>6
  <2>7. QED
    BY <2>1, <2>4, <2>5, <2>6
<1>9. ~Hides(p) /\ ~Surrounds(p) /\ ~Picks(p)
  BY <1>2 DEF DropsInOrder, Hides, Surrounds, Picks, GoesOn, StepsOf
<1>10. CASE Misses(p)
  <2>1. p.steps[pc].onError = "report" /\ UNCHANGED <<sieved, says>>
    BY <1>2, <1>10 DEF Misses, Passing
  <2>2. Complete'
    BY <1>10, <2>1 DEF Misses, Complete, AskedFor
  <2>3. QED
    BY <1>3, <2>1, <2>2
<1>11. QED
  BY <1>4, <1>5, <1>6, <1>7, <1>8, <1>9, <1>10 DEF Effects, Idles, Sets, Reduces

ToldInv == \A t \in DOMAIN Programs \ CutUntold : task = t => Told(Programs[t])

\* A task that cuts its answer itself, once, and says so where it has fewer items than there
\* were, never passes an answer that lacks items off as a whole one.
THEOREM TruncationsTold == Spec => []TruncationTold
<1>1. Init => ToldInv
  BY DEF Init, ToldInv, Told, Complete, AskedFor, ToSet
<1>2. SInv /\ [Next]_vars /\ ToldInv => ToldInv'
  <2>1. SUFFICES ASSUME SInv, [Next]_vars, ToldInv,
                        NEW t \in DOMAIN Programs \ CutUntold, task' = t
                 PROVE  Told(Programs[t])'
    BY DEF ToldInv
  <2>2. task = t /\ Len(Programs[t].steps) \in Nat
    BY <2>1, SameTask, TaskRunAssumption DEF WellFormed
  <2>3. Sized(Programs[t]) /\ Told(Programs[t])
    BY <2>1, <2>2 DEF SInv, ToldInv
  <2>4. TellsCuts(Programs[t])
    BY <2>1, ExceptionsSuffice
  <2>5. QED
    BY <2>1, <2>2, <2>3, <2>4, StepEffects, ToldStep
<1>3. SInv /\ ToldInv => TruncationTold
  <2>1. SUFFICES ASSUME SInv, ToldInv, task \notin CutUntold, Cuts(TRUE), ~says
                 PROVE  Complete
    BY DEF TruncationTold, UncutComplete
  <2>2. Told(Programs[task]) /\ task \in DOMAIN Programs
    BY <2>1 DEF SInv, ToldInv
  <2>3. Tells(Programs[task])
    BY <2>1, <2>2, TaskRunAssumption DEF Cuts, Tells, StepsOf, Steps, ToSet, WellFormed
  <2>4. QED
    BY <2>1, <2>2, <2>3 DEF Told
<1>4. QED
  BY <1>1, <1>2, <1>3, AlwaysSInv, PTL DEF Spec

-----------------------------------------------------------------------------
(* An answer is no longer than it may be.                                  *)

\* Where an execution may end before anything was answered, there is no item yet.
LEMMA NothingYet ==
  ASSUME NEW p, Sized(p), Effects(p), pc \in Ending(p), Precede(Ending(p), Answering(p))
  PROVE  store = <<>> /\ items = <<>> /\ store' = <<>> /\ items' = <<>>
<1>1. /\ pc \in Nat /\ \A i \in Answering(p) : i \in Nat /\ pc < i
  BY DEF Precede, Sized, Answering, StepsOf
<1>2. store = <<>> /\ items = <<>>
  <2>1. \A i \in Answering(p) : ~(i < pc)
    BY <1>1
  <2>2. QED
    BY <2>1 DEF Sized
<1>3. pc \notin Answering(p)
  BY <1>1
<1>4. QED
  BY <1>2, <1>3, Reduced, Added DEF Effects, Idles, Sets, Answers, Misses, answering

\* Step i of the program makes the answer no longer than the bound, and nothing after it
\* brings new items or another bound.
Shortens(p, i) == /\ p.steps[i].op = "cut" => p.steps[i].if = {}
                  /\ Precede(Answering(p) \cup Bounding(p), {i})

ShortLimit(p) == \A c \in StepsOf(p, {"cut"}) :
                   c < pc /\ p.steps[c].if \subseteq given => Len(items) <= limit

ShortServed(p) == Answering(p) = ServerCuts(p) /\ Precede(Bounding(p), Answering(p)) =>
                    Len(items) <= bound

ShortBound(p) == Precede(Ending(p), Answering(p)) =>
                   \A i \in StepsOf(p, {"cut", "pick"}) :
                     Shortens(p, i) /\ i < pc => Len(items) <= bound

Short(p) == ShortLimit(p) /\ ShortServed(p) /\ ShortBound(p)

\* A limit or bound comes before the answer it is for, and no step after the cut adds items.
LEMMA ShortStep ==
  ASSUME NEW p, Len(p.steps) \in Nat, Sized(p), Effects(p), StaysShort(p), Short(p)
  PROVE  Short(p)'
<1>1. Sized(p)'
  BY SizedStep
<1>2. /\ items \in Seq(Nat) /\ Len(items) \in Nat /\ limit \in Nat /\ bound \in Nat /\ bound >= 1
      /\ items' \in Seq(Nat) /\ Len(items') \in Nat /\ limit' \in Nat /\ bound' \in Nat
      /\ Least \in Nat /\ Least <= limit /\ Least <= bound
  <2>1. /\ NoLimit \in Nat /\ NoLimit > 0
        /\ LimitValues \subseteq Nat \ {0} /\ BoundValues \subseteq Nat \ {0}
    BY TaskRunAssumption
  <2>2. items \in Seq(Nat) /\ items' \in Seq(Nat) /\ bound \in BoundValues \cup {NoLimit}
        /\ bound' \in BoundValues \cup {NoLimit} /\ limit' \in LimitValues \cup {NoLimit}
    BY <1>1 DEF Sized
  <2>3. Len(items) \in Nat /\ Len(items') \in Nat
    BY <2>2, LenProperties
  <2>4. QED
    BY <2>1, <2>2, <2>3, Amounts
<1>3. Len(<<>>) = 0
  BY EmptySeq
<1>4. /\ pc \in Nat /\ pc' \in Nat
      /\ pc' = pc \/ pc' = pc + 1 \/ pc \in Ending(p)
  BY Moves
<1>5. ~Adds(p)
  BY Added DEF StaysShort, Adds
<1>6. Reduces(p) => Len(items') <= Len(items) /\ UNCHANGED <<given, limit, bound>>
  BY Reduced DEF asking
\* A step that is at hand and shortens the answer is one that cuts or picks.
<1>7. ASSUME pc \in StepsOf(p, {"cut", "pick"}), pc' = pc + 1
      PROVE  /\ CutsHere(p) \/ Picks(p)
             /\ pc \in StepsOf(p, {"cut"}) => CutsHere(p)
  BY <1>5, <1>7 DEF Effects, Idles, Sets, Answers, Misses, Reduces, Leaves, Keeps, Hides, Sorts,
     Surrounds, Picks, GoesOn, Jumps, Ending, Halts, StepsOf
<1>8. CutsHere(p) /\ p.steps[pc].if \subseteq given => Len(items') <= Least
  BY CutIs
<1>9. Picks(p) => Len(items') <= 1
  BY <1>2, TakeIs DEF Picks
<1>10. ShortLimit(p)'
  <2>1. SUFFICES ASSUME NEW c \in StepsOf(p, {"cut"}), c < pc', p.steps[c].if \subseteq given'
                 PROVE  Len(items') <= limit'
    BY DEF ShortLimit
  <2>2. c \in Nat
    BY DEF StepsOf
  <2>3. CASE pc \in Ending(p)
    <3>1. items' = <<>>
      BY <2>3, NothingYet DEF StaysShort
    <3>2. QED
      BY <1>2, <1>3, <3>1
  <2>4. CASE c = pc /\ pc' = pc + 1
    <3>1. CutsHere(p) /\ UNCHANGED <<given, limit>>
      BY <1>7, <2>4 DEF CutsHere, asking, StepsOf
    <3>2. QED
      BY <1>2, <1>8, <2>1, <2>4, <3>1
  <2>5. CASE c < pc
    <3>1. \A i \in StepsOf(p, {"read"}) \cup Answering(p) : i < c /\ i \in Nat
      BY DEF StaysShort, Precede, StepsOf, Answering
    <3>2. pc \notin StepsOf(p, {"read"}) /\ pc \notin Answering(p)
      BY <1>4, <2>2, <2>5, <3>1
    <3>3. UNCHANGED <<given, limit>> /\ (items' = items \/ Reduces(p))
      BY <1>5, <1>6, <3>2 DEF Effects, Idles, Sets, Answers, Misses, Limiting, asking, answering
    <3>4. Len(items) <= limit
      BY <2>1, <2>5, <3>3 DEF Short, ShortLimit
    <3>5. QED
      BY <1>2, <1>6, <3>3, <3>4
  <2>6. QED
    BY <1>4, <2>1, <2>2, <2>3, <2>4, <2>5
<1>11. ShortServed(p)'
  <2>1. SUFFICES ASSUME Answering(p) = ServerCuts(p), Precede(Bounding(p), Answering(p))
                 PROVE  Len(items') <= bound'
    BY DEF ShortServed
  <2>2. Len(items) <= bound
    BY <2>1 DEF Short, ShortServed
  <2>3. CASE Answers(p)
    BY <2>1, <2>3, AnswerIs DEF Answers, asking
  <2>4. CASE Reduces(p)
    BY <1>2, <1>6, <2>2, <2>4
  <2>5. CASE Idles(p)
    BY <2>2, <2>5 DEF Idles, answering, asking
  <2>6. CASE Sets(p)
    <3>1. items' = items /\ (bound' # bound => pc \in Bounding(p))
      BY <2>6 DEF Sets, answering
    <3>2. ASSUME pc \in Bounding(p)
          PROVE  items = <<>>
      <4>1. \A i \in Answering(p) : i \in Nat /\ pc < i
        BY <2>1, <3>2 DEF Precede, Answering, StepsOf
      <4>2. \A i \in Answering(p) : ~(i < pc)
        BY <1>4, <4>1
      <4>3. QED
        BY <4>2 DEF Sized
    <3>3. QED
      BY <1>2, <1>3, <2>2, <3>1, <3>2
  <2>7. CASE Misses(p)
    BY <1>2, <1>3, <2>7 DEF Misses
  <2>8. QED
    BY <1>5, <2>3, <2>4, <2>5, <2>6, <2>7 DEF Effects
<1>12. ShortBound(p)'
  <2>1. SUFFICES ASSUME Precede(Ending(p), Answering(p)), NEW i \in StepsOf(p, {"cut", "pick"}),
                        Shortens(p, i), i < pc'
                 PROVE  Len(items') <= bound'
    BY DEF ShortBound
  <2>2. i \in Nat
    BY DEF StepsOf
  <2>3. CASE pc \in Ending(p)
    <3>1. items' = <<>>
      BY <2>1, <2>3, NothingYet
    <3>2. QED
      BY <1>2, <1>3, <3>1
  <2>4. CASE i = pc /\ pc' = pc + 1
    <3>1. CASE CutsHere(p)
      <4>1. p.steps[pc].op = "cut" /\ bound' = bound
        BY <3>1 DEF CutsHere, GoesOn, StepsOf, asking
      <4>2. p.steps[pc].if \subseteq given
        BY <2>1, <2>4, <4>1 DEF Shortens
      <4>3. QED
        BY <1>2, <1>8, <3>1, <4>1, <4>2
    <3>2. CASE Picks(p)
      BY <1>2, <1>9, <3>2 DEF Picks, asking
    <3>3. QED
      BY <1>7, <2>4, <3>1, <3>2
  <2>5. CASE i < pc
    <3>1. \A j \in Answering(p) \cup Bounding(p) : j < i /\ j \in Nat
      BY <2>1 DEF Shortens, Precede, StepsOf, Answering, Bounding
    <3>2. pc \notin Bounding(p) /\ pc \notin Answering(p)
      BY <1>4, <2>2, <2>5, <3>1
    <3>3. bound' = bound /\ (items' = items \/ Reduces(p))
      BY <1>5, <1>6, <3>2 DEF Effects, Idles, Sets, Answers, Misses, asking, answering
    <3>4. Len(items) <= bound
      BY <2>1, <2>5 DEF Short, ShortBound
    <3>5. QED
      BY <1>2, <1>6, <3>3, <3>4
  <2>6. QED
    BY <1>4, <2>1, <2>2, <2>3, <2>4, <2>5
<1>13. QED
  BY <1>10, <1>11, <1>12 DEF Short

ShortInv == \A t \in DOMAIN Programs \ Unguarded : task = t => Short(Programs[t])

\* A task whose bound is known before the call that keeps to it, or that cuts or picks after
\* all calls, returns no more than the guardrails of the provider allow; and no more than was
\* asked for if it cuts after it has read its parameters.
THEOREM GuardrailsHold == Spec => []GuardrailsKept
<1>1. Init => ShortInv
  <2>1. Len(<<>>) = 0 /\ NoLimit \in Nat
    BY EmptySeq, TaskRunAssumption
  <2>2. Init => items = <<>> /\ bound = NoLimit /\ limit = NoLimit
    BY DEF Init
  <2>3. QED
    BY <2>1, <2>2 DEF ShortInv, Short, ShortLimit, ShortServed, ShortBound
<1>2. SInv /\ [Next]_vars /\ ShortInv => ShortInv'
  <2>1. SUFFICES ASSUME SInv, [Next]_vars, ShortInv,
                        NEW t \in DOMAIN Programs \ Unguarded, task' = t
                 PROVE  Short(Programs[t])'
    BY DEF ShortInv
  <2>2. task = t /\ Len(Programs[t].steps) \in Nat
    BY <2>1, SameTask, TaskRunAssumption DEF WellFormed
  <2>3. Sized(Programs[t]) /\ Short(Programs[t])
    BY <2>1, <2>2 DEF SInv, ShortInv
  <2>4. StaysShort(Programs[t])
    BY <2>1, ExceptionsSuffice
  <2>5. QED
    BY <2>1, <2>2, <2>3, <2>4, StepEffects, ShortStep
<1>3. SInv /\ ShortInv => GuardrailsKept
  <2>1. SUFFICES ASSUME SInv, ShortInv, task \notin Unguarded, outcome = "done"
                 PROVE  /\ Len(items) <= bound
                        /\ (\E s \in ToSet(Steps) : s.op = "cut" /\ s.if \subseteq given)
                             => Len(items) <= limit
    BY DEF GuardrailsKept, Bounded
  <2> DEFINE p == Programs[task]
  <2>2. /\ Sized(p) /\ Short(p) /\ StaysShort(p)
        /\ Len(p.steps) \in Nat /\ DOMAIN p.steps = 1..Len(p.steps) /\ Steps = p.steps
    BY <2>1, TaskRunAssumption, ExceptionsSuffice DEF SInv, ShortInv, Steps, WellFormed
  <2> HIDE DEF p
  <2>3. /\ pc = Len(p.steps) + 1 /\ items \in Seq(Nat) /\ Len(items) \in Nat
        /\ bound \in Nat /\ NoLimit \in Nat
    BY <2>1, <2>2, Amounts, LenProperties, TaskRunAssumption DEF Sized
  <2>4. \A ops : \A i \in StepsOf(p, ops) : i < pc
    BY <2>2, <2>3 DEF StepsOf
  <2>5. Len(items) <= bound
    <3>1. CASE Bounding(p) = {}
      <4>1. bound = NoLimit /\ Len(items) < NoLimit
        BY <2>2, <3>1 DEF Sized, StaysShort
      <4>2. QED
        BY <2>3, <4>1
    <3>2. CASE Answering(p) = {}
      <4>1. items = <<>>
        BY <2>2, <3>2 DEF Sized
      <4>2. QED
        BY <2>3, <4>1, EmptySeq
    <3>3. CASE Answering(p) = ServerCuts(p) /\ Precede(Bounding(p), Answering(p))
      BY <2>2, <3>3 DEF Short, ShortServed
    <3>4. CASE /\ Precede(Ending(p), Answering(p))
               /\ \E i \in StepsOf(p, {"cut", "pick"}) :
                    /\ p.steps[i].op = "cut" => p.steps[i].if = {}
                    /\ Precede(Answering(p) \cup Bounding(p), {i})
      BY <2>2, <2>4, <3>4 DEF Short, ShortBound, Shortens
    <3>5. QED
      BY <2>2, <3>1, <3>2, <3>3, <3>4 DEF StaysShort
  <2>6. ASSUME NEW s \in ToSet(Steps), s.op = "cut", s.if \subseteq given
        PROVE  Len(items) <= limit
    <3>1. PICK c \in 1..Len(p.steps) : s = p.steps[c]
      BY <2>2 DEF ToSet
    <3>2. c \in StepsOf(p, {"cut"})
      BY <2>6, <3>1 DEF StepsOf
    <3>3. QED
      BY <2>2, <2>4, <2>6, <3>1, <3>2 DEF Short, ShortLimit
  <2>7. QED
    BY <2>5, <2>6
<1>4. QED
  BY <1>1, <1>2, <1>3, AlwaysSInv, PTL DEF Spec

-----------------------------------------------------------------------------
(* An answer that came in any order is put in one.                         *)

Wants == AskedFor \ lost

AnyOrdered(p) == \E i \in Answering(p) : p.steps[i].answer = "unordered"
CutBefore(p)  == \E c \in StepsOf(p, {"cut"}) : c < pc
SortBefore(p) == \E j \in StepsOf(p, {"sort"}) : j < pc

\* Nothing is sieved before it was answered.
Unsieved(p) == sieved \/ lost # {} => \E i \in Answering(p) : i < pc

\* Until it is cut, the answer is what is wanted, in order once it was sorted.
Entire(p)  == Unlimited(p) \/ ~CutBefore(p) => ToSet(items) = Wants
InLine(p) == (Unlimited(p) \/ ~CutBefore(p)) /\ SortBefore(p) => Increasing(items)

\* After that it is the first of what is wanted.
Foremost(p) == ~Unlimited(p) /\ CutBefore(p) => items = Take(Sorted(Wants), Least)

Regular(p) == AnyOrdered(p) => Unsieved(p) /\ Entire(p) /\ InLine(p) /\ Foremost(p)

\* The items asked for are some of those the system holds.
LEMMA WantsFinite == ASSUME NEW p, Sized(p)
                     PROVE  /\ Wants \in SUBSET Nat /\ IsFiniteSet(Wants)
                            /\ Cardinality(Wants) <= Len(store) /\ Cardinality(Wants) \in Nat
<1>1. /\ IsFiniteSet(ToSet(store)) /\ ToSet(store) \in SUBSET Nat
      /\ Cardinality(ToSet(store)) \in Nat /\ Cardinality(ToSet(store)) <= Len(store)
  BY ToSetFinite DEF Sized
<1>2. Wants \subseteq ToSet(store)
  BY DEF Wants, AskedFor
<1>3. IsFiniteSet(Wants) /\ Cardinality(Wants) <= Cardinality(ToSet(store))
  BY <1>1, <1>2, FS_Subset
<1>4. Cardinality(Wants) \in Nat /\ Len(store) \in Nat
  BY <1>3, FS_CardinalityType, LenProperties DEF Sized
<1>5. QED
  BY <1>1, <1>2, <1>3, <1>4

\* Items left out, filtered or sorted are still what is wanted.
LEMMA StaysWhole ==
  ASSUME NEW p, Sized(p), ToSet(items) = Wants, Leaves(p) \/ Keeps(p) \/ Sorts(p)
  PROVE  ToSet(items') = Wants'
<1>1. items \in Seq(Nat)
  BY DEF Sized
<1>2. CASE Leaves(p)
  <2>1. PICK bad \in SUBSET ToSet(items) :
           items' = Only(items, ToSet(items) \ bad) /\ lost' = lost \cup bad
    BY <1>2 DEF Leaves
  <2>2. ToSet(items') = ToSet(items) \cap (ToSet(items) \ bad)
    BY <1>1, <2>1, OnlyIs
  <2>3. UNCHANGED <<store, sieved>>
    BY <1>2 DEF Leaves
  <2>4. QED
    BY <2>1, <2>2, <2>3 DEF Wants, AskedFor
<1>3. CASE Keeps(p)
  <2>1. UNCHANGED <<store, lost>>
    BY <1>3 DEF Keeps
  <2>2. CASE items' = items /\ sieved' = sieved
    BY <2>1, <2>2 DEF Wants, AskedFor
  <2>3. CASE items' = Only(items, WantedOf(items)) /\ sieved' = TRUE
    <3>1. ToSet(items') = ToSet(items) \cap WantedOf(items)
      BY <1>1, <2>3, OnlyIs
    <3>2. Wants' = {i \in Wants : Wanted(i)}
      BY <2>1, <2>3 DEF Wants, AskedFor
    <3>3. QED
      BY <3>1, <3>2 DEF WantedOf
  <2>4. QED
    BY <1>3, <2>2, <2>3 DEF Keeps
<1>4. CASE Sorts(p)
  <2>1. ToSet(items') = ToSet(items)
    BY <1>1, <1>4, ToSetFinite, SortedItems DEF Sorts
  <2>2. UNCHANGED <<store, lost, sieved>>
    BY <1>4 DEF Sorts
  <2>3. QED
    BY <2>1, <2>2 DEF Wants, AskedFor
<1>5. QED
  BY <1>2, <1>3, <1>4

\* Steps up to the cut keep the set of items, the sort gives it its order, and the first cut
\* leaves what no further cut changes.
LEMMA RegularStep ==
  ASSUME NEW p, Len(p.steps) \in Nat, Sized(p), Effects(p), SortsBeforeCuts(p), Regular(p)
  PROVE  Regular(p)'
<1> SUFFICES ASSUME AnyOrdered(p)
             PROVE  Unsieved(p)' /\ Entire(p)' /\ InLine(p)' /\ Foremost(p)'
  BY DEF Regular, AnyOrdered
<1>1. Unsieved(p) /\ Entire(p) /\ InLine(p) /\ Foremost(p)
  BY DEF Regular
<1>2. /\ DropsInOrder(p) /\ StepsOf(p, {"addLast"}) = {}
      /\ \A i, j \in Answering(p) : i = j /\ p.steps[i].onError = "fail"
      /\ Precede(Answering(p), StepsOf(p, {"each", "keep", "sort", "cut"}))
      /\ Precede(Ending(p), Answering(p))
      /\ ~Unlimited(p) =>
           /\ Precede(StepsOf(p, {"read", "limits", "each", "keep", "sort"}), StepsOf(p, {"cut"}))
           /\ \A i \in StepsOf(p, {"cut"}) :
                p.steps[i].if = {} /\ \E j \in StepsOf(p, {"sort"}) : j < i
  BY DEF SortsBeforeCuts, AnyOrdered
<1>3. /\ pc \in Nat /\ pc' \in Nat /\ pc <= pc'
      /\ pc' = pc \/ pc' = pc + 1 \/ pc \in Ending(p)
  BY Moves
<1>4. /\ \A ops : StepsOf(p, ops) \subseteq Nat
      /\ Answering(p) \subseteq Nat /\ ServerCuts(p) = {}
  BY <1>2 DEF StepsOf, Answering, ServerCuts, AnyOrdered
<1>5. Sized(p)'
  BY SizedStep
<1>6. ~Adds(p) /\ ~Hides(p) /\ ~Surrounds(p) /\ ~Picks(p) /\ ~Misses(p)
  BY <1>2 DEF DropsInOrder, Adds, Misses, Hides, Surrounds, Picks, GoesOn, StepsOf
<1>7. CutBefore(p) => CutBefore(p)'
  BY <1>3, <1>4 DEF CutBefore
\* Where the execution may end early, there is nothing yet.
<1>8. ASSUME pc \in Ending(p)
      PROVE  /\ items' = <<>> /\ Wants' = {} /\ ToSet(items') = {}
             /\ Increasing(items') /\ items' = Take(Sorted(Wants'), Least')
  <2>1. items' = <<>> /\ store' = <<>>
    BY <1>2, <1>8, NothingYet
  <2>2. Least' \in Nat
    BY <1>5, TaskRunAssumption DEF Sized, Least
  <2>3. ToSet(<<>>) = {} /\ Len(<<>>) = 0
    BY EmptySeq DEF ToSet
  <2>4. Wants' = {}
    BY <2>1, <2>3 DEF Wants, AskedFor
  <2>5. QED
    BY <2>1, <2>2, <2>3, <2>4, FrontOfNone DEF Increasing
<1>9. Unsieved(p)'
  <2>1. CASE UNCHANGED <<sieved, lost>>
    BY <1>1, <1>3, <1>4, <2>1 DEF Unsieved
  <2>2. CASE Leaves(p) \/ Keeps(p)
    <3>1. pc \in StepsOf(p, {"each", "keep", "sort", "cut"}) /\ pc' = pc + 1
      BY <2>2 DEF Leaves, Keeps, GoesOn, StepsOf
    <3>2. PICK i \in Answering(p) : TRUE
      BY DEF AnyOrdered
    <3>3. i < pc /\ i < pc'
      BY <1>2, <1>3, <1>4, <3>1, <3>2 DEF Precede
    <3>4. QED
      BY <3>2, <3>3 DEF Unsieved
  <2>3. CASE Answers(p)
    BY <1>1, <1>3, <1>4, <2>3 DEF Unsieved, Answers
  <2>4. QED
    BY <1>6, <2>1, <2>2, <2>3 DEF Effects, Idles, Sets, Reduces, Sorts, CutsHere, answering
<1>10. Entire(p)'
  <2>1. SUFFICES ASSUME Unlimited(p) \/ ~CutBefore(p)'
                 PROVE  ToSet(items') = Wants'
    BY DEF Entire
  <2>2. ToSet(items) = Wants
    BY <1>1, <1>7, <2>1 DEF Entire
  <2>3. CASE UNCHANGED answering
    BY <2>2, <2>3 DEF answering, Wants, AskedFor
  <2>4. CASE Answers(p)
    <3>1. pc \in Answering(p) /\ lost' = {} /\ sieved' = sieved
      BY <2>4 DEF Answers
    <3>2. \A i \in Answering(p) : ~(i < pc)
      <4>1. \A i \in Answering(p) : i = pc
        BY <1>2, <3>1
      <4>2. QED
        BY <1>3, <4>1
    <3>3. sieved = FALSE
      BY <1>1, <3>2 DEF Unsieved, Sized
    <3>4. ToSet(items') = ToSet(store')
      BY <1>4, <2>4, AnswerIs
    <3>5. QED
      BY <3>1, <3>3, <3>4 DEF Wants, AskedFor
  <2>5. CASE Leaves(p) \/ Keeps(p) \/ Sorts(p)
    BY <2>2, <2>5, StaysWhole
  <2>6. CASE CutsHere(p)
    <3>1. pc \in StepsOf(p, {"cut"}) /\ pc < pc' /\ UNCHANGED <<store, lost, sieved>>
      BY <1>3, <2>6 DEF CutsHere, GoesOn
    <3>2. Unlimited(p)
      BY <2>1, <3>1 DEF CutBefore
    <3>3. Least = NoLimit /\ Len(items) < NoLimit /\ Len(items) \in Nat /\ NoLimit \in Nat
      BY <3>2, Amounts, TaskRunAssumption, LenProperties DEF Sized
    <3>4. items' = items
      BY <2>6, <3>3, CutIs
    <3>5. QED
      BY <2>2, <3>1, <3>4 DEF Wants, AskedFor
  <2>7. QED
    BY <1>6, <2>3, <2>4, <2>5, <2>6 DEF Effects, Idles, Sets, Reduces
<1>11. InLine(p)'
  <2>1. SUFFICES ASSUME Unlimited(p) \/ ~CutBefore(p)', NEW j \in StepsOf(p, {"sort"}), j < pc'
                 PROVE  Increasing(items')
    BY DEF InLine, SortBefore
  <2>2. CASE pc \in Ending(p)
    BY <1>8, <2>1, <2>2
  <2>3. CASE Sorts(p)
    <3>1. items' = Sorted(ToSet(items)) /\ items \in Seq(Nat)
      BY <2>3 DEF Sorts, Sized
    <3>2. QED
      BY <3>1, ToSetFinite, StaysIncreasing
  <2>4. CASE j = pc /\ pc' = pc + 1
    <3>1. Sorts(p)
      BY <1>6, <2>4 DEF Effects, Idles, Sets, Answers, Reduces, Leaves, Keeps, CutsHere,
         GoesOn, Jumps, Ending, Halts, StepsOf
    <3>2. QED
      BY <2>3, <3>1
  <2>5. CASE j < pc /\ ~Sorts(p)
    <3>1. Increasing(items)
      BY <1>1, <1>7, <2>1, <2>5 DEF InLine, SortBefore
    <3>2. ~Answers(p)
      <4>1. \A i \in Answering(p) : i < j
        BY <1>2, <2>1 DEF Precede, StepsOf
      <4>2. pc \notin Answering(p)
        BY <1>3, <1>4, <2>5, <4>1
      <4>3. QED
        BY <4>2 DEF Answers
    <3>3. CutsHere(p) => items' = items
      <4>1. SUFFICES ASSUME CutsHere(p)
                     PROVE  items' = items
        OBVIOUS
      <4>2. pc \in StepsOf(p, {"cut"}) /\ pc < pc'
        BY <1>3, <4>1 DEF CutsHere, GoesOn
      <4>3. Unlimited(p)
        BY <2>1, <4>2 DEF CutBefore
      <4>4. Least = NoLimit /\ Len(items) < NoLimit /\ Len(items) \in Nat /\ NoLimit \in Nat
        BY <4>3, Amounts, TaskRunAssumption, LenProperties DEF Sized
      <4>5. QED
        BY <4>1, <4>4, CutIs
    <3>4. CASE Leaves(p) \/ Keeps(p)
      <4>1. items \in Seq(Nat) /\ (items' = items \/ \E S : items' = Only(items, S))
        BY <3>4 DEF Leaves, Keeps, Sized
      <4>2. QED
        BY <3>1, <4>1, StaysIncreasing
    <3>5. CASE items' = items
      BY <3>1, <3>5
    <3>6. QED
      BY <1>6, <2>5, <3>2, <3>3, <3>4, <3>5 DEF Effects, Idles, Sets, Reduces, answering
  <2>6. QED
    BY <1>3, <1>4, <2>1, <2>2, <2>3, <2>4, <2>5
<1>12. Foremost(p)'
  <2>1. SUFFICES ASSUME ~Unlimited(p), NEW c \in StepsOf(p, {"cut"}), c < pc'
                 PROVE  items' = Take(Sorted(Wants'), Least')
    BY DEF Foremost, CutBefore
  <2>2. CASE pc \in Ending(p)
    BY <1>8, <2>1, <2>2
  <2>3. CASE CutsHere(p)
    <3>1. /\ pc \in StepsOf(p, {"cut"}) /\ UNCHANGED <<store, lost, sieved, limit, bound>>
      BY <2>3 DEF CutsHere, GoesOn, asking
    <3>2. p.steps[pc].if = {} /\ SortBefore(p)
      BY <1>2, <2>1, <3>1 DEF SortBefore
    <3>3. items' = Take(items, Least)
      BY <2>3, <3>2, CutIs
    <3>4. Wants' = Wants /\ Least' = Least /\ Least \in Nat /\ items \in Seq(Nat)
      BY <3>1, Amounts DEF Wants, AskedFor, Least, Sized
    <3>5. CASE CutBefore(p)
      <4>1. items = Take(Sorted(Wants), Least)
        BY <1>1, <2>1, <3>5 DEF Foremost
      <4>2. Sorted(Wants) \in Seq(Nat)
        BY WantsFinite, SortedItems
      <4>3. Len(items) = IF Least < Len(Sorted(Wants)) THEN Least ELSE Len(Sorted(Wants))
        BY <3>4, <4>1, <4>2, TakeIs
      <4>4. Len(items) <= Least
        BY <3>4, <4>2, <4>3, LenProperties
      <4>5. items' = items
        BY <3>3, <3>4, <4>4, TakeIs
      <4>6. QED
        BY <3>4, <4>1, <4>5
    <3>6. CASE ~CutBefore(p)
      <4>1. ToSet(items) = Wants /\ Increasing(items)
        BY <1>1, <2>1, <3>2, <3>6 DEF Entire, InLine
      <4>2. items = Sorted(Wants)
        BY <3>4, <4>1, SortedAlready
      <4>3. QED
        BY <3>3, <3>4, <4>2
    <3>7. QED
      BY <3>5, <3>6
  <2>4. CASE c = pc /\ pc' = pc + 1
    <3>1. CutsHere(p)
      BY <1>6, <2>4 DEF Effects, Idles, Sets, Answers, Reduces, Leaves, Keeps, Sorts,
         GoesOn, Jumps, Ending, Halts, StepsOf
    <3>2. QED
      BY <2>3, <3>1
  <2>5. CASE c < pc /\ ~CutsHere(p)
    <3>1. items = Take(Sorted(Wants), Least)
      BY <1>1, <2>1, <2>5 DEF Foremost, CutBefore
    <3>2. pc \notin StepsOf(p, {"read", "limits", "each", "keep", "sort"})
      <4>1. ~(pc < c)
        BY <1>3, <1>4, <2>1, <2>5
      <4>2. QED
        BY <1>2, <2>1, <4>1 DEF Precede
    <3>3. pc \notin Answering(p)
      <4>1. ~(pc < c)
        BY <1>3, <1>4, <2>1, <2>5
      <4>2. c \in StepsOf(p, {"each", "keep", "sort", "cut"})
        BY <2>1 DEF StepsOf
      <4>3. QED
        BY <1>2, <4>1, <4>2 DEF Precede
    <3>4. Idles(p)
      BY <1>6, <2>5, <3>2, <3>3 DEF Effects, Sets, Answers, Reduces, Leaves, Keeps, Sorts,
         GoesOn, StepsOf
    <3>5. QED
      BY <3>1, <3>4 DEF Idles, answering, asking, Wants, AskedFor, Least
  <2>6. QED
    BY <1>3, <1>4, <2>1, <2>2, <2>3, <2>4, <2>5
<1>13. QED
  BY <1>9, <1>10, <1>11, <1>12

RegularInv == \A t \in DOMAIN Programs \ Unsorted : task = t => Regular(Programs[t])

\* A task that sorts what came in any order, and before it cuts it, answers with the first of
\* what was asked for and in their order, so that the order in which Go iterates a map changes
\* nothing.
THEOREM AnswersRepeatable == Spec => []RepeatableAnswer
<1>1. Init => RegularInv
  <2>1. SUFFICES ASSUME Init, NEW p, AnyOrdered(p), Len(p.steps) \in Nat
                 PROVE  Regular(p)
    BY TaskRunAssumption DEF RegularInv, Regular, WellFormed
  <2>2. /\ pc = 1 /\ items = <<>> /\ store = <<>> /\ lost = {} /\ sieved = FALSE
    BY <2>1 DEF Init
  <2>3. ~CutBefore(p) /\ ~SortBefore(p)
    BY <2>2 DEF CutBefore, SortBefore, StepsOf
  <2>4. ToSet(items) = Wants
    BY <2>2 DEF Wants, AskedFor, ToSet
  <2>5. QED
    BY <2>2, <2>3, <2>4 DEF Regular, Unsieved, Entire, InLine, Foremost
<1>2. SInv /\ [Next]_vars /\ RegularInv => RegularInv'
  <2>1. SUFFICES ASSUME SInv, [Next]_vars, RegularInv,
                        NEW t \in DOMAIN Programs \ Unsorted, task' = t
                 PROVE  Regular(Programs[t])'
    BY DEF RegularInv
  <2>2. task = t /\ Len(Programs[t].steps) \in Nat
    BY <2>1, SameTask, TaskRunAssumption DEF WellFormed
  <2>3. Sized(Programs[t]) /\ Regular(Programs[t])
    BY <2>1, <2>2 DEF SInv, RegularInv
  <2>4. SortsBeforeCuts(Programs[t])
    BY <2>1, ExceptionsSuffice
  <2>5. QED
    BY <2>1, <2>2, <2>3, <2>4, StepEffects, RegularStep
<1>3. SInv /\ RegularInv => RepeatableAnswer
  <2>1. SUFFICES ASSUME SInv, RegularInv, task \notin Unsorted, outcome = "done",
                        \E s \in ToSet(Steps) : s.op = "call" /\ s.answer = "unordered"
                 PROVE  items = Take(Sorted(Wants), Least)
    BY DEF RepeatableAnswer, Repeatable, Wants
  <2> DEFINE p == Programs[task]
  <2>2. /\ Sized(p) /\ Regular(p) /\ SortsBeforeCuts(p)
        /\ Len(p.steps) \in Nat /\ DOMAIN p.steps = 1..Len(p.steps) /\ Steps = p.steps
    BY <2>1, TaskRunAssumption, ExceptionsSuffice DEF SInv, RegularInv, Steps, WellFormed
  <2> HIDE DEF p
  <2>3. AnyOrdered(p)
    <3>1. PICK i \in 1..Len(p.steps) : p.steps[i].op = "call" /\ p.steps[i].answer = "unordered"
      BY <2>1, <2>2 DEF ToSet
    <3>2. i \in Answering(p)
      BY <3>1 DEF Answering, StepsOf
    <3>3. QED
      BY <3>1, <3>2 DEF AnyOrdered
  <2>4. /\ Wants \in SUBSET Nat /\ IsFiniteSet(Wants) /\ Cardinality(Wants) \in Nat
        /\ Cardinality(Wants) <= Len(store)
    BY <2>2, WantsFinite
  <2>5. CASE Unlimited(p)
    <3>1. items = Sorted(Wants)
      <4>1. PICK j \in StepsOf(p, {"sort"}) : TRUE
        BY <2>2, <2>3 DEF SortsBeforeCuts, AnyOrdered
      <4>2. j \in 1..Len(p.steps) /\ pc = Len(p.steps) + 1
        BY <2>1, <2>2 DEF StepsOf, Sized
      <4>3. SortBefore(p)
        BY <2>2, <4>2 DEF SortBefore
      <4>4. ToSet(items) = Wants /\ Increasing(items) /\ items \in Seq(Nat)
        BY <2>2, <2>3, <2>5, <4>3 DEF Regular, Entire, InLine, Sized
      <4>5. QED
        BY <4>4, SortedAlready
    <3>2. Least = NoLimit /\ Len(store) < NoLimit /\ Len(store) \in Nat /\ NoLimit \in Nat
      BY <2>2, <2>5, Amounts, TaskRunAssumption, LenProperties DEF Sized
    <3>3. Sorted(Wants) \in Seq(Nat) /\ Len(Sorted(Wants)) <= Least /\ ToSet(Sorted(Wants)) = Wants
      BY <2>4, <3>2, SortedItems
    <3>4. Take(Sorted(Wants), Least) = Sorted(Wants)
      BY <3>2, <3>3, TakeIs
    <3>5. QED
      BY <3>1, <3>3, <3>4
  <2>6. CASE ~Unlimited(p)
    <3>1. CutBefore(p)
      <4>1. PICK c \in StepsOf(p, {"cut"}) : TRUE
        BY <2>2, <2>3, <2>6 DEF SortsBeforeCuts, AnyOrdered
      <4>2. c \in 1..Len(p.steps) /\ pc = Len(p.steps) + 1
        BY <2>1, <2>2 DEF StepsOf, Sized
      <4>3. QED
        BY <2>2, <4>2 DEF CutBefore
    <3>2. QED
      BY <2>2, <2>3, <2>6, <3>1 DEF Regular, Foremost
  <2>7. QED
    BY <2>5, <2>6
<1>4. QED
  BY <1>1, <1>2, <1>3, AlwaysSInv, PTL DEF Spec

-----------------------------------------------------------------------------
(* A search shows a match.                                                 *)

\* A match among the last lines there are, and one among those shown.
Shows == \A i \in ToSet(LastOf(store, bound)) : Wanted(i) => \E j \in ToSet(items) : Wanted(j)

\* Something to search for was given, and the search lies ahead or behind.
Searches(p) ==
  StepsOf(p, {"around"}) # {} =>
    /\ given # {} /\ (\A a \in StepsOf(p, {"around"}) : ~(a < pc)) => items = LastOf(store, bound)
    /\ \A a \in StepsOf(p, {"around"}) :
         a < pc /\ p.steps[a].by \subseteq given /\ Least > 1 => Shows

\* Nothing touches the lines between the call and the search, or after it, and a window around
\* the first match has room for it.
LEMMA SearchesStep ==
  ASSUME NEW p, Len(p.steps) \in Nat, Sized(p), Effects(p), SearchesLast(p), Searches(p)
  PROVE  Searches(p)'
<1> DEFINE A == StepsOf(p, {"around"})
<1> SUFFICES ASSUME A # {}
             PROVE  /\ given' # {} /\ (\A a \in A : ~(a < pc')) =>
                         items' = LastOf(store', bound')
                    /\ \A a \in A :
                         a < pc' /\ p.steps[a].by \subseteq given' /\ Least' > 1 => Shows'
  BY DEF Searches
<1>1. /\ given # {} /\ (\A a \in A : ~(a < pc)) => items = LastOf(store, bound)
      /\ \A a \in A : a < pc /\ p.steps[a].by \subseteq given /\ Least > 1 => Shows
  BY DEF Searches
<1>2. /\ \A i, j \in Answering(p) :
           i = j /\ p.steps[i].answer = "tail" /\ p.steps[i].onError = "fail"
      /\ \A i, j \in A : i = j /\ p.steps[i].by # {}
      /\ Precede(Answering(p), A)
      /\ Precede(StepsOf(p, {"read", "limits"}), Answering(p))
      /\ StepsOf(p, {"each", "keep", "below", "sort", "pick", "cut", "addLast"}) = {}
      /\ Ending(p) = {}
  BY DEF SearchesLast
<1>3. /\ pc \in Nat /\ pc' \in Nat /\ pc <= pc' /\ (pc' = pc \/ pc' = pc + 1)
      /\ A \subseteq Nat /\ Answering(p) \subseteq Nat
  BY <1>2, Moves DEF StepsOf, Answering
<1>4. Sized(p)'
  BY SizedStep
<1>5. bound \in Nat /\ bound' \in Nat /\ Least \in Nat
  <2>1. NoLimit \in Nat /\ BoundValues \subseteq Nat /\ bound' \in BoundValues \cup {NoLimit}
    BY <1>4, TaskRunAssumption DEF Sized
  <2>2. QED
    BY <2>1, Amounts
<1> HIDE DEF A
<1>6. CASE Idles(p)
  <2>1. UNCHANGED <<store, items, given, limit, bound>>
    BY <1>6 DEF Idles, answering, asking
  <2>2. \A a \in A : a < pc' => a < pc
    <3>1. pc' = pc \/ pc \notin A
      BY <1>2, <1>6 DEF Idles, GoesOn, Jumps, Halts, A, StepsOf
    <3>2. QED
      BY <1>3, <3>1
  <2>3. (\A a \in A : ~(a < pc')) => \A a \in A : ~(a < pc)
    BY <1>3
  <2>4. Shows' = Shows /\ Least' = Least
    BY <2>1 DEF Shows, Least
  <2>5. given' # {} /\ (\A a \in A : ~(a < pc')) => items' = LastOf(store', bound')
    BY <1>1, <2>1, <2>3
  <2>6. QED
    BY <1>1, <2>1, <2>2, <2>4, <2>5
<1>7. CASE Sets(p)
  <2>1. pc \in StepsOf(p, {"read", "limits"}) /\ UNCHANGED <<store, items>>
    BY <1>7 DEF Sets, GoesOn, answering
  <2>2. \A i \in Answering(p) : ~(i < pc)
    BY <1>2, <1>3, <2>1 DEF Precede
  <2>3. store = <<>> /\ items = <<>>
    BY <2>2 DEF Sized
  <2>4. <<>> \in Seq(Nat) /\ Len(<<>>) = 0 /\ Len(<<>>) <= bound'
    BY <1>5, EmptySeq
  <2>5. LastOf(<<>>, bound') = <<>>
    BY <1>5, <2>4, LastOfIs
  <2>6. ToSet(<<>>) = {}
    BY DEF ToSet
  <2>7. QED
    BY <2>1, <2>3, <2>5, <2>6 DEF Shows
<1>8. CASE Answers(p)
  <2>1. pc \in Answering(p) /\ UNCHANGED <<given, limit, bound>>
    BY <1>8 DEF Answers, asking
  <2>2. \A a \in A : ~(a < pc')
    BY <1>2, <1>3, <2>1 DEF Precede
  <2>3. p.steps[pc].answer = "tail"
    BY <1>2, <2>1
  <2>4. given # {} => items' = LastOf(store', bound)
    BY <1>8, <2>3 DEF Answers
  <2>5. QED
    BY <2>1, <2>2, <2>4
<1>9. CASE Reduces(p)
  <2>1. Surrounds(p)
    BY <1>2, <1>9 DEF Reduces, Leaves, Keeps, Hides, Sorts, Picks, CutsHere, GoesOn, StepsOf
  <2>2. /\ pc \in A /\ pc' = pc + 1 /\ UNCHANGED <<given, limit, bound, store>>
        /\ items' = IF p.steps[pc].by \subseteq given THEN extractLogContext(items, Least)
                    ELSE items
    BY <2>1 DEF Surrounds, GoesOn, asking, A
  <2>3. \A a \in A : a = pc /\ p.steps[a].by # {}
    BY <1>2, <2>2
  <2>4. SUFFICES ASSUME p.steps[pc].by \subseteq given, Least > 1
                 PROVE  Shows'
    <3>1. pc < pc' /\ Least' = Least
      BY <1>3, <2>2 DEF Least
    <3>2. QED
      BY <2>2, <2>3, <3>1
  <2>5. given # {} /\ \A a \in A : ~(a < pc)
    BY <1>3, <2>2, <2>3, <2>4
  <2>6. items = LastOf(store, bound) /\ items' = extractLogContext(items, Least)
    BY <1>1, <2>2, <2>4, <2>5
  <2>7. items \in Seq(Nat)
    BY DEF Sized
  <2>8. \A i \in ToSet(items) : Wanted(i) => \E j \in ToSet(items') : Wanted(j)
    BY <1>5, <2>4, <2>6, <2>7, ContextShowsMatch
  <2>9. QED
    BY <2>2, <2>6, <2>8 DEF Shows
<1>10. ~Adds(p) /\ ~Misses(p)
  BY <1>2 DEF Adds, Misses, GoesOn, StepsOf
<1>11. QED
  BY <1>6, <1>7, <1>8, <1>9, <1>10 DEF Effects

SearchesInv == \A t \in DOMAIN Programs : task = t => Searches(Programs[t])

\* A search through the last lines there are, whose result is not touched, shows a match if
\* there is one among them and more than one line may be shown.
THEOREM MatchesShown == Spec => []MatchShown
<1>1. Init => SearchesInv
  <2>1. Init => given = {} /\ pc = 1
    BY DEF Init
  <2>2. QED
    BY <2>1 DEF SearchesInv, Searches, StepsOf
<1>2. SInv /\ [Next]_vars /\ SearchesInv => SearchesInv'
  <2>1. SUFFICES ASSUME SInv, [Next]_vars, SearchesInv, NEW t \in DOMAIN Programs, task' = t
                 PROVE  Searches(Programs[t])'
    BY DEF SearchesInv
  <2>2. task = t /\ Len(Programs[t].steps) \in Nat
    BY <2>1, SameTask, TaskRunAssumption DEF WellFormed
  <2>3. Sized(Programs[t]) /\ Searches(Programs[t])
    BY <2>1, <2>2 DEF SInv, SearchesInv
  <2>4. SearchesLast(Programs[t])
    BY <2>1, ExceptionsSuffice
  <2>5. QED
    BY <2>1, <2>2, <2>3, <2>4, StepEffects, SearchesStep
<1>3. SInv /\ SearchesInv => MatchShown
  <2>1. SUFFICES ASSUME SInv, SearchesInv, outcome = "done", Least > 1,
                        NEW s \in ToSet(Steps), s.op = "around", s.by \subseteq given
                 PROVE  Shows
    BY DEF MatchShown, SearchShown, Searched, Shows
  <2> DEFINE p == Programs[task]
  <2>2. /\ Sized(p) /\ Searches(p)
        /\ Len(p.steps) \in Nat /\ DOMAIN p.steps = 1..Len(p.steps) /\ Steps = p.steps
    BY <2>1, TaskRunAssumption DEF SInv, SearchesInv, Steps, WellFormed
  <2> HIDE DEF p
  <2>3. PICK a \in 1..Len(p.steps) : s = p.steps[a]
    BY <2>2 DEF ToSet
  <2>4. a \in StepsOf(p, {"around"}) /\ a < pc
    BY <2>1, <2>2, <2>3 DEF StepsOf, Sized
  <2>5. QED
    BY <2>1, <2>2, <2>3, <2>4 DEF Searches
<1>4. QED
  BY <1>1, <1>2, <1>3, AlwaysSInv, PTL DEF Spec

-----------------------------------------------------------------------------
(* Types.                                                                  *)

\* Clients held, called and asked for their limits are clients that were made.
Known == /\ Len(made) <= MaxClients /\ unbuilt \subseteq DOMAIN made
         /\ held \in 0..MaxClients /\ asked \subseteq 1..MaxClients
         /\ limitsOf \in Configs \cup {<<>>}

\* A step that uses the client that is held comes after one that fetched it.
LEMMA HeldIsMade ==
  ASSUME NEW t \in DOMAIN Programs, task = t, Follows(Programs[t]), NEW op, At(op),
         UsesHeld(Here)
  PROVE  held \in 1..Len(made)
<1> DEFINE p == Programs[t]
<1>1. pc \in Nat /\ pc > 0
  BY DEF Follows, Behind
<1>2. /\ outcome = "running" /\ pc <= Len(p.steps) /\ Len(p.steps) \in Nat
      /\ Here = p.steps[pc]
  BY <1>1, AtStep
<1>3. PICK j \in 1..Len(p.steps) : j < pc /\ p.steps[j].op = "hold"
  BY <1>1, <1>2, TaskRunAssumption DEF WellFormed
<1>4. j \in StepsOf(p, {"hold"})
  BY <1>3 DEF StepsOf
<1>5. QED
  BY <1>2, <1>3, <1>4 DEF Follows, Fetched

\* Clients are only added, and those asked or held are among the ones there are.
LEMMA KnownStep ==
  ASSUME NEW t \in DOMAIN Programs, task = t, Made, Follows(Programs[t]), Known, [Next]_vars
  PROVE  Known'
<1>1. /\ made \in Seq(Configs) /\ client \in 1..Len(made) /\ Len(made) \in Nat
      /\ DOMAIN made = 1..Len(made) /\ MaxClients \in Nat /\ Len(made) <= MaxClients
      /\ 1 \in 1..Len(made) /\ client \in 1..MaxClients
  BY LenProperties, TaskRunAssumption DEF Made, Known
<1>2. \A i \in 1..Len(made) : made[i] \in Configs /\ i \in 1..MaxClients /\ i \in 0..MaxClients
  BY <1>1, ElementOfSeq
<1>3. CASE UNCHANGED <<made, unbuilt, held, asked, limitsOf>>
  BY <1>3 DEF Known
<1>4. CASE HoldClient
  BY <1>2, <1>1, <1>4 DEF HoldClient, cell, Known
<1>5. CASE ReadLimits
  <2>1. At("limits") /\ UNCHANGED <<made, unbuilt, held, asked>>
    BY <1>5 DEF ReadLimits, cell
  <2>2. Here.op = "limits" /\ Here.of \in {"held", "current", "start"}
    <3>1. pc \in Nat /\ pc > 0
      BY DEF Follows, Behind
    <3>2. /\ Len(Programs[t].steps) \in Nat /\ pc <= Len(Programs[t].steps)
          /\ Here = Programs[t].steps[pc] /\ Here.op = "limits"
      BY <2>1, <3>1, AtStep
    <3>3. QED
      BY <3>1, <3>2, TaskRunAssumption DEF WellFormed
  <2>3. CASE Here.of = "held"
    <3>1. held \in 1..Len(made)
      BY <2>1, <2>2, <2>3, HeldIsMade DEF UsesHeld
    <3>2. limitsOf' = made[held]
      BY <1>5, <2>3 DEF ReadLimits, LimitsAt
    <3>3. QED
      BY <1>2, <2>1, <3>1, <3>2 DEF Known
  <2>4. CASE Here.of = "current"
    <3>1. limitsOf' = made[client]
      BY <1>5, <2>4 DEF ReadLimits, LimitsAt
    <3>2. QED
      BY <1>1, <1>2, <2>1, <3>1 DEF Known
  <2>5. CASE Here.of = "start"
    <3>1. limitsOf' = made[1]
      BY <1>5, <2>5 DEF ReadLimits, LimitsAt
    <3>2. QED
      BY <1>1, <1>2, <2>1, <3>1 DEF Known
  <2>6. QED
    BY <2>2, <2>3, <2>4, <2>5
<1>6. CASE CallClient
  <2>1. At("call") /\ UNCHANGED <<made, unbuilt, held, limitsOf>> /\ asked' = asked \cup {CallTo}
    BY <1>6 DEF CallClient, cell
  <2>2. Here.via = "held" => held \in 1..Len(made)
    <3>1. Here.op = "call"
      BY <2>1 DEF At
    <3>2. QED
      BY <2>1, <3>1, HeldIsMade DEF UsesHeld
  <2>3. CallTo \in 1..MaxClients
    BY <1>1, <1>2, <2>2 DEF CallTo
  <2>4. QED
    BY <2>1, <2>3 DEF Known
<1>7. ASSUME NEW raw \in Raws, UpdateConfig(raw)
      PROVE  Known'
  <2>1. UNCHANGED <<held, asked, limitsOf>>
    BY <1>7 DEF UpdateConfig, runVars
  <2>2. CASE client' = client
    BY <1>7, <2>1, <2>2 DEF UpdateConfig, Known
  <2>3. CASE client' # client
    <3>1. /\ client' = Len(made) + 1 /\ client' <= MaxClients
          /\ made' = Append(made, config') /\ unbuilt' \subseteq unbuilt \cup {client'}
      BY <1>7, <2>3 DEF UpdateConfig
    <3>2. config' \in Configs
      BY <1>7 DEF UpdateConfig, Update, Made, Merge, Raws, Configs
    <3>3. made' \in Seq(Configs) /\ Len(made') = Len(made) + 1
      BY <1>1, <3>1, <3>2, AppendProperties
    <3>4. DOMAIN made' = 1..Len(made')
      BY <3>3, LenProperties
    <3>5. unbuilt' \subseteq DOMAIN made'
      BY <1>1, <3>1, <3>3, <3>4 DEF Known
    <3>6. Len(made') <= MaxClients
      BY <3>1, <3>3
    <3>7. QED
      BY <2>1, <3>5, <3>6 DEF Known
  <2>4. QED
    BY <2>2, <2>3
<1>8. ASSUME NEW k, Expire(k)
      PROVE  Known'
  BY <1>3, <1>8 DEF Expire, runVars
<1>9. CASE UNCHANGED vars
  BY <1>3, <1>9 DEF vars, runVars
<1>10. CASE (\E v \in Values : Read(v)) \/ QuietSteps
  <2>1. UNCHANGED <<made, unbuilt, held, asked, limitsOf>>
    BY <1>10 DEF QuietSteps, Read, VerifyParams, SkipCall, EndEarly, Each, FindItem, KeepItems,
       KeepItemsBelow, SortItems, ItemsAround, PickItem, CutItems, AddLastItem, Return, cell,
       clientVars
  <2>2. QED
    BY <1>3, <2>1
<1>11. QED
  BY <1>4, <1>5, <1>6, <1>7, <1>8, <1>9, <1>10 DEF Next, Execute, QuietSteps

\* The items of an answer, and those left out of it, are items that the system holds.
LEMMA HoldsStep ==
  ASSUME NEW p, Sized(p), Effects(p), store \in Stores \cup {<<>>},
         ToSet(items) \cup lost \subseteq ToSet(store)
  PROVE  store' \in Stores \cup {<<>>} /\ ToSet(items') \cup lost' \subseteq ToSet(store')
<1>1. CASE Idles(p) \/ Sets(p)
  BY <1>1 DEF Idles, Sets, answering
<1>2. CASE Answers(p)
  <2>1. lost' = {} /\ store' \in Stores
    BY <1>2 DEF Answers
  <2>2. ToSet(items') \subseteq ToSet(store')
    BY <1>2, AnswerIs
  <2>3. QED
    BY <2>1, <2>2
<1>3. CASE Misses(p)
  <2>1. store' \in Stores /\ items' = <<>> /\ lost' \subseteq ToSet(store')
    BY <1>3 DEF Misses
  <2>2. ToSet(<<>>) = {}
    BY DEF ToSet
  <2>3. QED
    BY <2>1, <2>2
<1>4. CASE Leaves(p)
  <2>1. PICK bad \in SUBSET ToSet(items) : lost' = lost \cup bad
    BY <1>4 DEF Leaves
  <2>2. ToSet(items') \subseteq ToSet(items) /\ store' = store
    BY <1>4, Reduced DEF Reduces
  <2>3. QED
    BY <2>1, <2>2
<1>5. CASE Reduces(p) /\ ~Leaves(p)
  <2>1. ToSet(items') \subseteq ToSet(items) /\ store' = store
    BY <1>5, Reduced
  <2>2. lost' = lost
    BY <1>5 DEF Reduces, Keeps, Hides, Sorts, Surrounds, Picks, CutsHere
  <2>3. QED
    BY <2>1, <2>2
<1>6. CASE Adds(p)
  <2>1. ToSet(items') = ToSet(items) /\ store' = store /\ lost' = lost
    BY <1>6, Added
  <2>2. QED
    BY <2>1
<1>7. QED
  BY <1>1, <1>2, <1>3, <1>4, <1>5, <1>6 DEF Effects

TInv == /\ Known
        /\ outcome \in {"running", "refused", "failed", "panicked", "done"}
        /\ last \in Values \cup {"nothing"}
        /\ given \subseteq Filters \cup {"always"}
        /\ store \in Stores \cup {<<>>} /\ ToSet(items) \cup lost \subseteq ToSet(store)

\* Every variable of an execution has its type in every state.
THEOREM TasksTypeOK == Spec => []TypeOK
<1>1. Init => TInv
  <2>1. SUFFICES ASSUME Init
                 PROVE  TInv
    OBVIOUS
  <2>2. /\ made = <<config>> /\ unbuilt \in {{}, {1}} /\ held = 0 /\ asked = {} /\ limitsOf = <<>>
        /\ outcome = "running" /\ last = "nothing" /\ given = {} /\ store = <<>> /\ items = <<>>
        /\ lost = {}
    BY <2>1 DEF Init
  <2>3. Known
    BY <2>2, TaskRunAssumption DEF Known
  <2>4. ToSet(<<>>) = {}
    BY DEF ToSet
  <2>5. QED
    BY <2>2, <2>3, <2>4 DEF TInv
<1>2. IInv /\ SInv /\ TInv /\ [Next]_vars => TInv'
  <2>1. SUFFICES ASSUME IInv, SInv, TInv, [Next]_vars
                 PROVE  TInv'
    OBVIOUS
  <2>2. task' = task /\ task \in DOMAIN Programs
    BY <2>1, SameTask DEF SInv
  <2> DEFINE t == task
  <2>3. Made /\ Follows(Programs[t]) /\ Sized(Programs[t])
    BY <2>1, <2>2 DEF IInv, SInv
  <2>4. Known'
    BY <2>1, <2>2, <2>3, KnownStep DEF TInv
  <2>5. Effects(Programs[t])
    BY <2>1, <2>2, <2>3, StepEffects
  <2>6. store' \in Stores \cup {<<>>} /\ ToSet(items') \cup lost' \subseteq ToSet(store')
    BY <2>1, <2>2, <2>3, <2>5, HoldsStep DEF TInv
  <2>7. outcome' \in {"running", "refused", "failed", "panicked", "done"}
        /\ last' \in Values \cup {"nothing"}
    <3>1. CASE Execute
      BY <2>1, <3>1 DEF TInv, Execute, Read, VerifyParams, HoldClient, ReadLimits, CallClient,
         SkipCall, EndEarly, Each, FindItem, KeepItems, KeepItemsBelow, SortItems, ItemsAround,
         PickItem, CutItems, AddLastItem, Return, GoOn, Stop
    <3>2. CASE UNCHANGED <<outcome, last>>
      BY <2>1, <3>2 DEF TInv
    <3>3. QED
      BY <2>1, <3>1, <3>2 DEF Next, UpdateConfig, Expire, vars, runVars
  <2>8. (given \subseteq Filters \cup {"always"})'
    <3>1. Filters' = Filters
      BY <2>2 DEF Filters, Steps
    <3>2. given' \subseteq given \cup Filters
      <4>1. CASE \E v \in Values : Read(v)
        BY <4>1 DEF Read
      <4>2. CASE given' = given
        BY <4>2
      <4>3. QED
        BY <2>1, <4>1, <4>2 DEF Next, Execute, VerifyParams, HoldClient, ReadLimits, CallClient,
           SkipCall, EndEarly, Each, FindItem, KeepItems, KeepItemsBelow, SortItems, ItemsAround,
           PickItem, CutItems, AddLastItem, Return, UpdateConfig, Expire, vars, runVars, paramVars
    <3>3. QED
      BY <2>1, <3>1, <3>2 DEF TInv
  <2>9. QED
    BY <2>2, <2>4, <2>6, <2>7, <2>8 DEF TInv
<1>3. IInv /\ SInv /\ TInv => TypeOK
  <2>1. SUFFICES ASSUME IInv, SInv, TInv
                 PROVE  TypeOK
    OBVIOUS
  <2>2. task \in DOMAIN Programs /\ Sized(Programs[task]) /\ Steps = Programs[task].steps
    BY <2>1 DEF SInv, Steps
  <2>3. client \in DOMAIN made
    BY <2>1, LenProperties DEF IInv, Made
  <2>4. QED
    BY <2>1, <2>2, <2>3 DEF TypeOK, TInv, Known, Sized
<1>4. QED
  BY <1>1, <1>2, <1>3, AlwaysIInv, AlwaysSInv, PTL DEF Spec
=============================================================================

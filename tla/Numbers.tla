------------------------------ MODULE Numbers -------------------------------
(***************************************************************************)
(* The arithmetic of the agent that can go wrong at a boundary, in words   *)
(* of Width bits: the delay before a reconnection, the guardrail on a time *)
(* range, and the numbers and durations of a pushed configuration.  A      *)
(* behaviour is one call, with any arguments.                              *)
(***************************************************************************)
EXTENDS Integers

CONSTANTS
  Width,        \* of int64 and time.Duration
  Second,       \* time.Second, in nanoseconds
  MaxAttempts   \* bound: reconnections tried in a row

ASSUME NumbersAssumption ==
  /\ Width \in Nat /\ Width > 2
  /\ Second \in Nat /\ Second > 1 /\ Second % 2 = 0
  /\ MaxAttempts \in Nat

VARIABLES call, result
vars == <<call, result>>

MaxWord == 2^(Width - 1) - 1
MinWord == -(2^(Width - 1))
Words == MinWord..MaxWord
Wrap(n) == ((n - MinWord) % 2^Width) + MinWord

Least(a, b) == IF a < b THEN a ELSE b

NoCall == [fn |-> "none"]
Refused == [ok |-> FALSE, val |-> 0]
Value(n) == [ok |-> TRUE, val |-> n]

Init == call = NoCall /\ result = Refused

-----------------------------------------------------------------------------
(* Client.nextBackoff, with the bounds that NewClient leaves it.           *)

UncappedDoubling(delay, max) == Wrap(2 * delay)
Doubling(delay, max) == IF delay >= max \div 2 THEN max ELSE Wrap(2 * delay)

FullJitter(delay) == 0..delay
\* rand.Int63n of half the delay.
Jitter(delay) == IF delay \div 2 <= 0 THEN {0} ELSE 0..(delay \div 2 - 1)

nextBackoff(base, max, attempt) ==
  LET doubled[i \in 0..attempt] ==
        IF i = 0 THEN base ELSE Doubling(doubled[i - 1], max)
      positive == IF doubled[attempt] <= 0 THEN base ELSE doubled[attempt]
      delay    == Least(positive, max)
  IN {Wrap(delay + j) : j \in Jitter(delay)}

Backoff(base, max, attempt) ==
  LET atLeastBase == IF max < base THEN base ELSE max IN
  /\ call' = [fn |-> "nextBackoff", base |-> base, max |-> atLeastBase, attempt |-> attempt]
  /\ \E d \in nextBackoff(base, atLeastBase, attempt) : result' = Value(d)

-----------------------------------------------------------------------------
(* logGuardrails.ValidateTimerange, after parseTimerange.                  *)

DefaultRange == 2

\* time.Time.Sub: a difference too large for a Duration is the largest, or the smallest.
Sub(to, from) == IF to - from > MaxWord THEN MaxWord
                 ELSE IF to - from < MinWord THEN MinWord ELSE to - from

Forward(span) == span
Absolute(span) == IF span < 0 THEN Wrap(-span) ELSE span

RelativeSpan(range) == Wrap((IF range <= 0 THEN DefaultRange ELSE range) * Second)
Verdict(span, max) == IF span > max THEN Refused ELSE Value(span)

ValidateRelative(range, max) ==
  /\ call' = [fn |-> "relative", max |-> max,
              span |-> (IF range <= 0 THEN DefaultRange ELSE range) * Second]
  /\ result' = Verdict(RelativeSpan(range), max)

ValidateAbsolute(from, to, max) ==
  /\ call' = [fn |-> "absolute", max |-> max, span |-> to - from]
  /\ result' = Verdict(Absolute(Sub(to, from)), max)

-----------------------------------------------------------------------------
(* autoconfig.AsIntOK and AsDurationOK.  A number that may have a fraction *)
(* is given in halves: a float, a float of seconds as the nanoseconds it   *)
(* comes to (the rounding of a float64 aside), and the text of a duration. *)

\* float64(math.MaxInt64) is one more than MaxInt64; what Go makes of that number as an
\* int64 depends on the processor.
FloatMax == MaxWord + 1
FromFloat(n) == IF n \in Words THEN {n} ELSE {MinWord, MaxWord}

UncheckedInt(halves) == {Value(n) : n \in FromFloat(halves \div 2)}

int64FromFloat(halves) ==
  IF halves % 2 # 0 \/ halves < 2 * MinWord \/ halves > 2 * FloatMax THEN {Refused}
  ELSE {Value(n) : n \in FromFloat(halves \div 2)}

\* An int64, or a uint64 that may be too large for one.
asInt64OK(n) == IF n \in Words THEN Value(n) ELSE Refused

\* What becomes of a fraction of a nanosecond, of a float or of a text.
TowardZero(halves) == IF halves < 0 THEN -((-halves) \div 2) ELSE halves \div 2

durationFromFloatSeconds(halves) ==
  IF halves < 0 \/ halves > 2 * FloatMax THEN {Refused}
  ELSE {Value(n) : n \in FromFloat(halves \div 2)}

\* time.ParseDuration, which takes a sign.
ParseDuration(halves) ==
  IF TowardZero(halves) \in Words THEN Value(TowardZero(halves)) ELSE Refused

UncheckedSeconds(n) == IF asInt64OK(n).ok THEN Value(Wrap(n * Second)) ELSE Refused
Seconds(n) == IF ~asInt64OK(n).ok \/ n < 0 \/ n > MaxWord \div Second THEN Refused
              ELSE Value(Wrap(n * Second))

AsIntOK(kind, n) ==
  /\ call' = [fn |-> "AsIntOK", kind |-> kind, halves |-> IF kind = "float" THEN n ELSE 2 * n]
  /\ IF kind = "float" THEN result' \in int64FromFloat(n) ELSE result' = asInt64OK(n)

\* A number of seconds, a time.Duration, or its text.
AsDurationOK(kind, n) ==
  /\ call' = [fn |-> "AsDurationOK", kind |-> kind,
              halves |-> CASE kind = "int"      -> 2 * n * Second
                           [] kind = "duration" -> 2 * n
                           [] OTHER             -> n]
  /\ CASE kind = "int"      -> result' = Seconds(n)
       [] kind = "float"    -> result' \in durationFromFloatSeconds(n)
       [] kind = "text"     -> result' = ParseDuration(n)
       [] kind = "duration" -> result' = Value(n)

-----------------------------------------------------------------------------
\* A guardrail below the longest Duration.
Guardrails == 1..MaxWord - 1
Large == 2 * MinWord..2 * FloatMax + 2

Next ==
  /\ call = NoCall
  /\ \/ \E base, max \in 1..MaxWord, attempt \in 0..MaxAttempts : Backoff(base, max, attempt)
     \/ \E range \in Words, max \in Guardrails : ValidateRelative(range, max)
     \/ \E from, to \in 0..FloatMax + 1, max \in Guardrails : ValidateAbsolute(from, to, max)
     \/ \E n \in Large, kind \in {"int", "float"} : AsIntOK(kind, n)
     \/ \E n \in Large, kind \in {"int", "float", "text"} : AsDurationOK(kind, n)
     \/ \E n \in Words : AsDurationOK("duration", n)

Spec == Init /\ [][Next]_vars

-----------------------------------------------------------------------------
(* Properties. *)

Target == Least(call.base * 2^call.attempt, call.max)

\* With a maximum that leaves room for the jitter, a delay is above zero and at most
\* half as long again as the maximum, after any number of attempts (nextBackoff).
BackoffBounded ==
  call.fn = "nextBackoff" /\ call.max + call.max \div 2 <= MaxWord =>
    0 < result.val /\ result.val <= call.max + call.max \div 2

\* ... and not below the base doubled for each failure, or the maximum: a delay may be less
\* than twice the one before, for its jitter, but never less than that floor (nextBackoff).
BackoffGrows ==
  call.fn = "nextBackoff" /\ call.max + call.max \div 2 <= MaxWord => result.val >= Target

\* Does the span fit a Duration?
Fits(span) == IF call.fn = "relative" THEN span <= MaxWord ELSE span > MinWord

\* A time range passes the guardrail if, and only if, it is no longer than the maximum,
\* whichever way round it was given; longer ranges than a Duration can hold aside
\* (ValidateTimerange).
RangeGuarded ==
  call.fn \in {"relative", "absolute"} /\ Fits(call.span) =>
    (result.ok <=> call.span <= call.max /\ -call.span <= call.max)

\* A number taken from a configuration is the one that was sent, floats of 2^63 aside
\* (AsIntOK).
NumberKept ==
  call.fn = "AsIntOK" /\ result.ok /\ call.halves # 2 * FloatMax => 2 * result.val = call.halves

\* A duration taken from a configuration is the one that was sent, to the nanosecond, and not
\* negative if it was sent as a number; a text or a time.Duration may be negative and is taken
\* so.  Floats of 2^63 nanoseconds are left aside (AsDurationOK).
DurationKept ==
  call.fn = "AsDurationOK" /\ result.ok /\ call.halves # 2 * FloatMax =>
    /\ result.val = TowardZero(call.halves)
    /\ call.kind \in {"int", "float"} => result.val >= 0
=============================================================================

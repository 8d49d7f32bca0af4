--------------------------- MODULE GenerationProofs ---------------------------
(***************************************************************************)
(* How a statement comes about: the calls of the models (Failover) and the *)
(* stages around them (Pipeline).                                          *)
(***************************************************************************)
EXTENDS Failover, Pipeline, TLAPS

-----------------------------------------------------------------------------
(***************************************************************************)
(* Failover for any number of callers and models, any thresholds and times: *)
(* types, the breaker's count, the error to raise, no planned call to a    *)
(* circuit that looked open, and the forced trial of the model whose       *)
(* circuit reopens soonest, with failures that are recorded under clock    *)
(* readings of any age.                                                    *)
(***************************************************************************)

\* The parts of a step of call c that the proofs use.
LEMMA RecordFailureType ==
  ASSUME NEW b \in Breaker, NEW t \in Nat
  PROVE  /\ RecordFailure(b, t) \in Breaker
         /\ RecordFailure(b, t).openedAt <= t
         /\ RecordFailure(b, t).openedAt \in {NotOpen, t}
<1> Threshold \in Nat
  BY FailoverAssumption
<1> QED
  BY DEF RecordFailure, Breaker, NotOpen

LEMMA NewBreakerType == NewBreaker \in Breaker /\ NewBreaker.openedAt = NotOpen
BY DEF NewBreaker, Breaker, NotOpen

LEMMA NoCallType == NoCall \in Call
<1> NModels \in Nat \ {0} /\ MaxTime \in Nat
  BY FailoverAssumption
<1> QED
  BY DEF NoCall, Call, Models

LEMMA RetryInType ==
  ASSUME NEW b \in Breaker, NEW t \in Nat
  PROVE  RetryIn(b, t) \in Nat
<1> Reset \in Nat
  BY FailoverAssumption
<1> QED
  BY DEF RetryIn, BreakerState, Breaker, NotOpen

LEMMA FailoverInitTypes == FailoverInit => FailoverTypeOK
<1> SUFFICES ASSUME FailoverInit PROVE FailoverTypeOK
  OBVIOUS
<1> USE FailoverAssumption
<1>1. breaker \in [Models -> Breaker] /\ \A m \in Models : breaker[m].openedAt <= now
  BY NewBreakerType DEF FailoverInit, NotOpen
<1>2. call \in [Callers -> Call] /\ \A c \in Callers : call[c].at <= now /\ call[c].seen <= now
  BY NoCallType DEF FailoverInit, NoCall
<1> QED
  BY <1>1, <1>2 DEF FailoverInit, FailoverTypeOK

\* What a step does to the calls: one call moves, to a call that began no later.
LEMMA CallStep ==
  ASSUME FailoverTypeOK, NEW c \in Callers, NEW s \in Call, s.at <= now, s.seen <= now,
         call' = [call EXCEPT ![c] = s]
  PROVE  call' \in [Callers -> Call] /\ \A d \in Callers : call'[d].at <= now /\ call'[d].seen <= now
BY DEF FailoverTypeOK

LEMMA BreakerStep ==
  ASSUME FailoverTypeOK, NEW m \in Models, NEW b \in Breaker, b.openedAt <= now,
         breaker' = [breaker EXCEPT ![m] = b]
  PROVE  breaker' \in [Models -> Breaker] /\ \A k \in Models : breaker'[k].openedAt <= now
BY DEF FailoverTypeOK

\* Changing a few fields of a call.
LEMMA CallFields ==
  ASSUME NEW s \in Call
  PROVE  /\ s.pc \in {"idle", "look", "soonest", "try", "record"} /\ s.at \in 0..MaxTime
         /\ s.seen \in 0..MaxTime
         /\ s.next \in Models /\ s.plan \in Seq(Models) /\ s.best \in Models
         /\ s.left \in Nat /\ s.forced \in BOOLEAN /\ s.failed \in BOOLEAN
BY DEF Call

LEMMA AfterLookType ==
  ASSUME NEW s \in Call, NEW plan \in Seq(Models)
  PROVE  /\ AfterLook(s, plan) \in Call
         /\ AfterLook(s, plan).plan = plan
         /\ AfterLook(s, plan).at = s.at
         /\ AfterLook(s, plan).seen = s.seen
         /\ AfterLook(s, plan).failed = s.failed
         /\ AfterLook(s, plan).forced = s.forced
         /\ plan = <<>> => AfterLook(s, plan).pc \in {s.pc, "soonest"}
<1>1. NModels \in Nat \ {0}
  BY FailoverAssumption
<1>2. CASE s.next < NModels
  <2>1. s.next + 1 \in Models
    BY <1>1, <1>2 DEF Call, Models
  <2> QED
    BY <1>2, <2>1 DEF AfterLook, Call
<1>3. CASE ~(s.next < NModels)
  <2>1. 1 \in Models
    BY <1>1 DEF Models
  <2>2. CASE plan = <<>>
    BY <1>3, <2>1, <2>2 DEF AfterLook, Call
  <2>3. CASE plan # <<>>
    BY <1>3, <2>1, <2>3 DEF AfterLook, Call
  <2> QED
    BY <2>2, <2>3
<1> QED
  BY <1>2, <1>3

\* Where a look leads.
LEMMA LookStep ==
  ASSUME FailoverTypeOK, NEW c \in Callers, Look(c)
  PROVE  \E plan \in Seq(Models) :
           /\ \/ plan = call[c].plan
              \/ /\ plan = Append(call[c].plan, call[c].next)
                 /\ Available(breaker[call[c].next], call[c].at)
           /\ call' = [call EXCEPT ![c] = AfterLook(call[c], plan)]
           /\ AfterLook(call[c], plan) \in Call
<1> DEFINE s == call[c]
           plan == IF Available(breaker[s.next], s.at) THEN Append(s.plan, s.next) ELSE s.plan
<1>1. s \in Call
  BY DEF FailoverTypeOK
<1>2. plan \in Seq(Models)
  BY <1>1 DEF Call
<1>4. AfterLook(s, plan) \in Call
  BY <1>1, <1>2, AfterLookType
<1>5. call' = [call EXCEPT ![c] = AfterLook(s, plan)]
  BY DEF Look
<1> QED
  BY <1>2, <1>4, <1>5

\* Where a comparison leads.
LEMMA SoonestStep ==
  ASSUME FailoverTypeOK, NEW c \in Callers, Soonest(c)
  PROVE  \E s \in Call :
           /\ call' = [call EXCEPT ![c] = s]
           /\ s.at = call[c].at /\ s.seen = call[c].seen /\ s.failed = call[c].failed
           /\ \/ s.pc = "soonest" /\ s.plan = call[c].plan /\ s.forced = call[c].forced
              \/ s.pc = "try" /\ s.plan # <<>> /\ s.forced
<1> DEFINE s == call[c]
           left == RetryIn(breaker[s.next], s.at)
           nearest == IF s.next = 1 \/ left < s.left
                      THEN [s EXCEPT !.best = s.next, !.left = left] ELSE s
           t == IF s.next < NModels THEN [nearest EXCEPT !.next = @ + 1]
                ELSE [nearest EXCEPT !.pc = "try", !.plan = <<nearest.best>>, !.forced = TRUE]
<1>1. s \in Call /\ s.pc = "soonest" /\ breaker[s.next] \in Breaker
  BY DEF FailoverTypeOK, Soonest, Call
<1>2. left \in Nat
  <2>1. s.at \in Nat
    BY <1>1, FailoverAssumption DEF Call
  <2> QED
    BY <1>1, <2>1, RetryInType
<1>3. nearest \in Call /\ nearest.at = s.at /\ nearest.seen = s.seen /\ nearest.failed = s.failed
      /\ nearest.pc = "soonest" /\ nearest.plan = s.plan /\ nearest.forced = s.forced
      /\ nearest.next = s.next
  <2> HIDE DEF left
  <2> QED
    BY <1>1, <1>2 DEF Call
<1>4. NModels \in Nat \ {0}
  BY FailoverAssumption
<1>5. /\ t \in Call /\ t.at = s.at /\ t.seen = s.seen /\ t.failed = s.failed
      /\ \/ t.pc = "soonest" /\ t.plan = s.plan /\ t.forced = s.forced
         \/ t.pc = "try" /\ t.plan # <<>> /\ t.forced
  <2> HIDE DEF nearest
  <2>1. CASE s.next < NModels
    <3>1. s.next + 1 \in Models
      BY <1>1, <1>4, <2>1 DEF Call, Models
    <3> QED
      BY <1>3, <2>1, <3>1 DEF Call
  <2>2. CASE ~(s.next < NModels)
    <3>1. <<nearest.best>> \in Seq(Models) /\ <<nearest.best>> # <<>>
      BY <1>3 DEF Call
    <3> QED
      BY <1>3, <2>2, <3>1 DEF Call
  <2> QED
    BY <2>1, <2>2
<1>6. call' = [call EXCEPT ![c] = t]
  BY DEF Soonest
<1> HIDE DEF t
<1> QED
  BY <1>5, <1>6

\* A call whose trial has failed, the failure recorded.
LEMMA RecordedType ==
  ASSUME NEW s \in Call, s.plan # <<>>
  PROVE  /\ Recorded(s) \in Call /\ Recorded(s).plan = Tail(s.plan)
         /\ Recorded(s).at = s.at /\ Recorded(s).seen = 0 /\ Recorded(s).pc = "try"
         /\ Recorded(s).forced = s.forced /\ Recorded(s).failed
<1>1. Tail(s.plan) \in Seq(Models)
  BY DEF Call
<1>2. 0 \in 0..MaxTime
  BY FailoverAssumption
<1>3. Recorded(s) = [s EXCEPT !.pc = "try", !.plan = Tail(s.plan), !.seen = 0, !.failed = TRUE]
  BY DEF Recorded
<1>4. Recorded(s) \in Call
  BY <1>1, <1>2, <1>3 DEF Call
<1> QED
  BY <1>3, <1>4 DEF Call

\* Where the other steps of a call lead.
LEMMA TryStep ==
  ASSUME FailoverTypeOK, NEW c \in Callers, Success(c) \/ Failure(c)
  PROVE  \E m \in Models : \E s \in Call :
           /\ call' = [call EXCEPT ![c] = s]
           /\ s = NoCall \/ (s = Recorded(call[c]) /\ call[c].pc = "record" /\ call[c].plan # <<>>)
           /\ \E b \in Breaker : /\ breaker' = [breaker EXCEPT ![m] = b]
                                 /\ \/ b = NewBreaker /\ hurt' = hurt
                                    \/ /\ b = RecordFailure(breaker[m], call[c].seen)
                                       /\ hurt' = [d \in Callers |-> hurt[d] \cup {m}]
<1> USE FailoverAssumption
<1>1. CASE Success(c)
  BY <1>1, NewBreakerType, NoCallType DEF Success, Return
<1>2. CASE Failure(c)
  <2>1. PICK m \in Models :
          /\ call[c].pc = "record" /\ call[c].plan # <<>>
          /\ breaker' = [breaker EXCEPT ![m] = RecordFailure(breaker[m], call[c].seen)]
          /\ hurt' = [d \in Callers |-> hurt[d] \cup {m}]
          /\ call' = [call EXCEPT ![c] = Recorded(call[c])]
    BY <1>2 DEF Failure
  <2>2. call[c] \in Call /\ call[c].seen \in Nat /\ breaker[m] \in Breaker
    BY DEF FailoverTypeOK, Call
  <2>3. RecordFailure(breaker[m], call[c].seen) \in Breaker
    BY <2>2, RecordFailureType
  <2>4. Recorded(call[c]) \in Call
    BY <2>1, <2>2, RecordedType
  <2> QED
    BY <2>1, <2>3, <2>4
<1> QED
  BY <1>1, <1>2

\* The step from a failed trial to recording it, and the ends of a call.
LEMMA FailsStep ==
  ASSUME FailoverTypeOK, NEW c \in Callers, Fails(c)
  PROVE  \E s \in Call :
           /\ call' = [call EXCEPT ![c] = s]
           /\ s.pc = "record" /\ s.at = call[c].at /\ s.seen = now /\ s.plan = call[c].plan
           /\ s.forced = call[c].forced
           /\ UNCHANGED <<now, breaker, calls, hurt>>
<1> DEFINE s == [call[c] EXCEPT !.pc = "record", !.seen = now]
<1>1. call[c] \in Call /\ now \in 0..MaxTime
  BY DEF FailoverTypeOK
<1>2. /\ s \in Call /\ s.pc = "record" /\ s.at = call[c].at /\ s.seen = now
      /\ s.plan = call[c].plan /\ s.forced = call[c].forced
  BY <1>1 DEF Call
<1>3. call' = [call EXCEPT ![c] = s]
  BY DEF Fails, FailoverTypeOK
<1> QED
  BY <1>2, <1>3 DEF Fails

-----------------------------------------------------------------------------
(* Types.                                                                  *)

LEMMA BeginStep ==
  ASSUME FailoverTypeOK, NEW c \in Callers, Begin(c)
  PROVE  \E s \in Call : /\ call' = [call EXCEPT ![c] = s]
                         /\ s.at = now /\ s.seen = 0 /\ s.pc = "look" /\ s.plan = <<>>
                         /\ calls' \in 0..MaxCalls
<1> DEFINE s == [NoCall EXCEPT !.pc = "look", !.at = now]
<1>1. s \in Call /\ s.at = now /\ s.seen = 0 /\ s.pc = "look" /\ s.plan = <<>>
  BY NoCallType DEF NoCall, Call, FailoverTypeOK
<1>2. calls' \in 0..MaxCalls
  BY FailoverAssumption DEF Begin, FailoverTypeOK
<1>3. call' = [call EXCEPT ![c] = s]
  BY DEF Begin
<1> QED
  BY <1>1, <1>2, <1>3

LEMMA SeenType ==
  ASSUME FailoverTypeOK, NEW c \in Callers, Seen(c)
  PROVE  hurt' \in [Callers -> SUBSET Models]
BY DEF FailoverTypeOK, Seen

LEMMA FailoverNextTypes == ASSUME FailoverTypeOK, [FailoverNext]_failoverVars PROVE FailoverTypeOK'
<1> USE FailoverAssumption
<1>n. now \in Nat
  BY DEF FailoverTypeOK
<1>c. \A c \in Callers : call[c] \in Call /\ call[c].at <= now /\ call[c].seen <= now
  BY DEF FailoverTypeOK
<1>1. ASSUME NEW c \in Callers, Begin(c) PROVE FailoverTypeOK'
  <2>1. PICK s \in Call : /\ call' = [call EXCEPT ![c] = s]
                          /\ s.at = now /\ s.seen = 0 /\ calls' \in 0..MaxCalls
    BY <1>1, BeginStep
  <2>2. s.at <= now /\ s.seen <= now
    BY <1>n, <2>1
  <2> QED
    BY <1>1, <2>1, <2>2, CallStep DEF Begin, FailoverTypeOK
<1>2. ASSUME NEW c \in Callers, Look(c) PROVE FailoverTypeOK'
  <2>1. PICK plan \in Seq(Models) : /\ call' = [call EXCEPT ![c] = AfterLook(call[c], plan)]
                                    /\ AfterLook(call[c], plan) \in Call
    BY <1>2, LookStep
  <2>2. AfterLook(call[c], plan).at <= now /\ AfterLook(call[c], plan).seen <= now
    BY <1>c, <2>1, AfterLookType
  <2>3. hurt' \in [Callers -> SUBSET Models] /\ UNCHANGED <<now, breaker, calls>>
    BY <1>2, SeenType DEF Look
  <2> QED
    BY <2>1, <2>2, <2>3, CallStep DEF FailoverTypeOK
<1>3. ASSUME NEW c \in Callers, Soonest(c) PROVE FailoverTypeOK'
  <2>1. PICK s \in Call : call' = [call EXCEPT ![c] = s] /\ s.at = call[c].at /\ s.seen = call[c].seen
    BY <1>3, SoonestStep
  <2>2. s.at <= now /\ s.seen <= now
    BY <1>c, <2>1
  <2>3. hurt' \in [Callers -> SUBSET Models] /\ UNCHANGED <<now, breaker, calls>>
    BY <1>3, SeenType DEF Soonest
  <2> QED
    BY <2>1, <2>2, <2>3, CallStep DEF FailoverTypeOK
<1>4. ASSUME NEW c \in Callers, Success(c) \/ Failure(c) PROVE FailoverTypeOK'
  <2>1. PICK m \in Models, s \in Call, b \in Breaker :
          /\ call' = [call EXCEPT ![c] = s]
          /\ s = NoCall \/ (s = Recorded(call[c]) /\ call[c].plan # <<>>)
          /\ breaker' = [breaker EXCEPT ![m] = b]
          /\ \/ b = NewBreaker /\ hurt' = hurt
             \/ /\ b = RecordFailure(breaker[m], call[c].seen)
                /\ hurt' = [d \in Callers |-> hurt[d] \cup {m}]
    BY <1>4, TryStep
  <2>2. b.openedAt <= now
    <3>1. CASE b = NewBreaker
      BY <1>n, <3>1 DEF NewBreaker, NotOpen
    <3>2. CASE b = RecordFailure(breaker[m], call[c].seen)
      <4>1. breaker[m] \in Breaker /\ call[c].seen \in Nat
        BY <1>c, CallFields DEF FailoverTypeOK
      <4>2. b.openedAt <= call[c].seen
        BY <3>2, <4>1, RecordFailureType
      <4> QED
        BY <1>c, <1>n, <4>1, <4>2 DEF Breaker, NotOpen
    <3> QED
      BY <2>1, <3>1, <3>2
  <2>3. s.at <= now /\ s.seen <= now
    <3>1. CASE s = NoCall
      BY <1>n, <3>1 DEF NoCall
    <3>2. CASE s = Recorded(call[c]) /\ call[c].plan # <<>>
      BY <1>c, <1>n, <3>2, RecordedType
    <3> QED
      BY <2>1, <3>1, <3>2
  <2>4. UNCHANGED <<now, calls>>
    BY <1>4 DEF Success, Failure
  <2>5. hurt' \in [Callers -> SUBSET Models]
    BY <2>1 DEF FailoverTypeOK
  <2> QED
    BY <2>1, <2>2, <2>3, <2>4, <2>5, CallStep, BreakerStep DEF FailoverTypeOK
<1>5. ASSUME NEW c \in Callers, Refused(c) \/ RaiseLastError(c) PROVE FailoverTypeOK'
  <2>1. NoCall \in Call /\ NoCall.at <= now /\ NoCall.seen <= now
    BY <1>n, NoCallType DEF NoCall
  <2>2. call' = [call EXCEPT ![c] = NoCall] /\ UNCHANGED <<now, breaker, calls, hurt>>
    BY <1>5 DEF Refused, RaiseLastError, Return
  <2> QED
    BY <2>1, <2>2, CallStep DEF FailoverTypeOK
<1>6. ASSUME NEW c \in Callers, Fails(c) PROVE FailoverTypeOK'
  <2>1. PICK s \in Call : /\ call' = [call EXCEPT ![c] = s]
                          /\ s.at = call[c].at /\ s.seen = now
                          /\ UNCHANGED <<now, breaker, calls, hurt>>
    BY <1>6, FailsStep
  <2>2. s.at <= now /\ s.seen <= now
    BY <1>c, <1>n, <2>1
  <2> QED
    BY <2>1, <2>2, CallStep DEF FailoverTypeOK
<1>7. CASE Tick
  <2>1. now' \in 0..MaxTime /\ now < now'
    BY <1>7 DEF Tick, FailoverTypeOK
  <2>2. \A m \in Models : breaker[m].openedAt \in Int
    BY DEF FailoverTypeOK, Breaker, NotOpen
  <2>3. \A c \in Callers : call[c].at \in Int /\ call[c].seen \in Int
    BY DEF FailoverTypeOK, Call
  <2> QED
    BY <1>7, <2>1, <2>2, <2>3 DEF Tick, FailoverTypeOK
<1>8. CASE UNCHANGED failoverVars
  BY <1>8 DEF failoverVars, FailoverTypeOK
<1> QED
  BY <1>1, <1>2, <1>3, <1>4, <1>5, <1>6, <1>7, <1>8 DEF FailoverNext, Proceed

\* Every variable keeps its type; no recorded time is ahead of the clock.
THEOREM FailoverTyping == FailoverSpec => []FailoverTypeOK
BY FailoverInitTypes, FailoverNextTypes, PTL DEF FailoverSpec

-----------------------------------------------------------------------------
(* The breaker counts.                                                     *)

LEMMA NextOpen ==
  ASSUME FailoverTypeOK, OpenAtThreshold, [FailoverNext]_failoverVars PROVE OpenAtThreshold'
<1>1. ASSUME NEW c \in Callers, Success(c) \/ Failure(c) PROVE OpenAtThreshold'
  <2>1. PICK m \in Models, b \in Breaker :
          /\ breaker' = [breaker EXCEPT ![m] = b]
          /\ b \in {NewBreaker, RecordFailure(breaker[m], call[c].seen)}
    BY <1>1, TryStep
  <2>2. b.openedAt # NotOpen <=> b.failures >= Threshold
    <3>1. breaker[m] \in Breaker /\ call[c].seen \in Nat /\ Threshold \in Nat \ {0}
          /\ (breaker[m].openedAt # NotOpen <=> breaker[m].failures >= Threshold)
      BY FailoverAssumption DEF FailoverTypeOK, OpenAtThreshold, Call
    <3>2. CASE b = NewBreaker
      BY <3>1, <3>2 DEF NewBreaker, NotOpen
    <3>3. CASE b = RecordFailure(breaker[m], call[c].seen)
      BY <3>1, <3>3 DEF RecordFailure, Breaker, NotOpen
    <3> QED
      BY <2>1, <3>2, <3>3
  <2>3. \A k \in Models : breaker'[k] = IF k = m THEN b ELSE breaker[k]
    BY <2>1 DEF FailoverTypeOK
  <2> QED
    BY <2>2, <2>3 DEF OpenAtThreshold
<1>2. CASE UNCHANGED breaker
  BY <1>2 DEF OpenAtThreshold
<1> QED
  BY <1>1, <1>2 DEF FailoverNext, Proceed, Begin, Look, Soonest, Refused, Fails, RaiseLastError, Tick, failoverVars

\* A circuit is open or half open exactly from its Threshold-th failure in a
\* row on, however the threads that record failures and successes interleave.
THEOREM CircuitsOpenAtThreshold == FailoverSpec => []OpenAtThreshold
<1>1. FailoverInit => OpenAtThreshold
  BY FailoverAssumption DEF FailoverInit, OpenAtThreshold, NewBreaker, NotOpen
<1>2. FailoverTypeOK /\ OpenAtThreshold /\ [FailoverNext]_failoverVars => OpenAtThreshold'
  BY NextOpen
<1> QED
  BY <1>1, <1>2, FailoverTyping, PTL DEF FailoverSpec

-----------------------------------------------------------------------------
(* The assertion of generate_sql.                                          *)

LEMMA NextError ==
  ASSUME FailoverTypeOK, ErrorToRaise, [FailoverNext]_failoverVars PROVE ErrorToRaise'
<1>s. ASSUME NEW c \in Callers, NEW s, call' = [call EXCEPT ![c] = s],
             s.pc = "try" /\ s.plan = <<>> => s.failed
      PROVE  ErrorToRaise'
  <2>1. \A d \in Callers : call'[d] = IF d = c THEN s ELSE call[d]
    BY <1>s DEF FailoverTypeOK
  <2> QED
    BY <1>s, <2>1 DEF ErrorToRaise
<1>1. ASSUME NEW c \in Callers, Begin(c) PROVE ErrorToRaise'
  BY <1>1, <1>s, BeginStep
<1>2. ASSUME NEW c \in Callers, Look(c) PROVE ErrorToRaise'
  <2>1. PICK plan \in Seq(Models) : call' = [call EXCEPT ![c] = AfterLook(call[c], plan)]
    BY <1>2, LookStep
  <2>2. call[c] \in Call /\ call[c].pc = "look"
    BY <1>2 DEF Look, FailoverTypeOK
  <2>3. AfterLook(call[c], plan).plan = plan
        /\ (plan = <<>> => AfterLook(call[c], plan).pc \in {"look", "soonest"})
    BY <2>2, AfterLookType
  <2> HIDE DEF AfterLook
  <2> QED
    BY <1>s, <2>1, <2>3
<1>3. ASSUME NEW c \in Callers, Soonest(c) PROVE ErrorToRaise'
  BY <1>3, <1>s, SoonestStep
<1>4. ASSUME NEW c \in Callers, Success(c) \/ Failure(c) PROVE ErrorToRaise'
  <2>1. PICK s \in Call :
          /\ call' = [call EXCEPT ![c] = s]
          /\ s = NoCall \/ (s = Recorded(call[c]) /\ call[c].plan # <<>>)
    BY <1>4, TryStep
  <2>2. s.pc = "try" => s.failed
    <3>1. call[c] \in Call
      BY DEF FailoverTypeOK
    <3>2. call[c].plan # <<>> => Recorded(call[c]).failed
      BY <3>1, RecordedType
    <3>3. NoCall.pc # "try"
      BY DEF NoCall
    <3> QED
      BY <2>1, <3>2, <3>3
  <2> QED
    BY <1>s, <2>1, <2>2
<1>5. ASSUME NEW c \in Callers, Refused(c) \/ RaiseLastError(c) PROVE ErrorToRaise'
  BY <1>5, <1>s DEF Refused, RaiseLastError, Return, NoCall
<1>6. ASSUME NEW c \in Callers, Fails(c) PROVE ErrorToRaise'
  BY <1>6, <1>s, FailsStep
<1>7. CASE UNCHANGED call
  BY <1>7 DEF ErrorToRaise
<1> QED
  BY <1>1, <1>2, <1>3, <1>4, <1>5, <1>6, <1>7 DEF FailoverNext, Proceed, Tick, failoverVars

\* The assertion before `raise last_error` never fails: a call that has no model
\* left has failed on one, so every call tries a model.
THEOREM AlwaysErrorToRaise == FailoverSpec => []ErrorToRaise
<1>1. FailoverInit => ErrorToRaise
  BY DEF FailoverInit, ErrorToRaise, NoCall
<1>2. FailoverTypeOK /\ ErrorToRaise /\ [FailoverNext]_failoverVars => ErrorToRaise'
  BY NextError
<1> QED
  BY <1>1, <1>2, FailoverTyping, PTL DEF FailoverSpec

-----------------------------------------------------------------------------
(* Open circuits are skipped.                                              *)

\* Whether a call may plan to try m: its circuit was available, as far as the
\* call can tell by the failures h recorded after it looked.
May(br, m, t, h) == m \in h \/ Available(br[m], t)

\* The plan of a call s is fine for the breakers br and the failures h: while it
\* looks, it plans models it has looked at; it looks for the soonest only with
\* nothing planned.
Plans(s, br, h) ==
  /\ s.pc = "look" => \A i \in DOMAIN s.plan : s.plan[i] < s.next
  /\ s.pc = "soonest" => s.plan = <<>>
  /\ ~s.forced => \A i \in DOMAIN s.plan : May(br, s.plan[i], s.at, h)

LEMMA SkippedByPlans ==
  (\A c \in Callers : Plans(call[c], breaker, hurt[c])) => OpenCircuitsSkipped
BY DEF OpenCircuitsSkipped, Plans, May, Available, BreakerState

LEMMA NextSkipped ==
  ASSUME FailoverTypeOK, [FailoverNext]_failoverVars,
         \A c \in Callers : Plans(call[c], breaker, hurt[c])
  PROVE  \A c \in Callers : Plans(call'[c], breaker', hurt'[c])
<1>p. \A c \in Callers : Plans(call[c], breaker, hurt[c])
  OBVIOUS
<1>c. \A c \in Callers : call[c] \in Call
  BY DEF FailoverTypeOK
<1>0. \A br, h : Plans(NoCall, br, h)
  BY DEF NoCall, Plans
\* One call moves to s, and s plans well.
<1>s. ASSUME NEW c \in Callers, NEW s, call' = [call EXCEPT ![c] = s], UNCHANGED breaker,
             \A d \in Callers : d # c => hurt'[d] = hurt[d], Plans(s, breaker, hurt'[c])
      PROVE  \A d \in Callers : Plans(call'[d], breaker', hurt'[d])
  <2>1. \A d \in Callers : call'[d] = IF d = c THEN s ELSE call[d]
    BY <1>s DEF FailoverTypeOK
  <2> QED
    BY <1>p, <1>s, <2>1
<1>1. ASSUME NEW c \in Callers, Begin(c) PROVE \A d \in Callers : Plans(call'[d], breaker', hurt'[d])
  <2>1. PICK s \in Call : call' = [call EXCEPT ![c] = s] /\ s.plan = <<>> /\ s.pc = "look"
    BY <1>1, BeginStep
  <2>2. Plans(s, breaker, hurt'[c])
    BY <2>1 DEF Plans
  <2> QED
    BY <1>1, <1>s, <2>1, <2>2 DEF Begin
<1>2. ASSUME NEW c \in Callers, Look(c) PROVE \A d \in Callers : Plans(call'[d], breaker', hurt'[d])
  <2> DEFINE s == call[c]
  <2>1. PICK plan \in Seq(Models) :
          /\ \/ plan = s.plan
             \/ plan = Append(s.plan, s.next) /\ Available(breaker[s.next], s.at)
          /\ call' = [call EXCEPT ![c] = AfterLook(s, plan)]
    BY <1>2, LookStep
  <2>2. s \in Call /\ s.plan \in Seq(Models) /\ s.next \in Models /\ s.pc = "look"
    BY <1>2, <1>c, CallFields DEF Look
  <2>3. /\ hurt'[c] = hurt[c] \ {s.next}
        /\ \A d \in Callers : d # c => hurt'[d] = hurt[d]
        /\ UNCHANGED breaker
    BY <1>2 DEF Look, Seen, FailoverTypeOK
  <2>4. ASSUME NEW i \in DOMAIN plan
        PROVE  plan[i] < s.next + 1 /\ (~s.forced => May(breaker, plan[i], s.at, hurt'[c]))
    <3>1. CASE i \in DOMAIN s.plan
      <4>1. plan[i] = s.plan[i]
        BY <2>1, <2>2, <3>1
      <4>2. plan[i] < s.next /\ (~s.forced => May(breaker, plan[i], s.at, hurt[c]))
        BY <1>p, <2>2, <3>1, <4>1 DEF Plans
      <4>3. s.next \in Nat /\ plan[i] \in Nat
        <5>1. plan[i] \in Models
          BY <2>4
        <5>2. NModels \in Nat
          BY FailoverAssumption
        <5> QED
          BY <2>2, <5>1, <5>2 DEF Models
      <4> QED
        BY <2>3, <4>2, <4>3 DEF May
    <3>2. CASE i \notin DOMAIN s.plan
      <4>1. plan[i] = s.next /\ Available(breaker[s.next], s.at)
        BY <2>1, <2>2, <2>4, <3>2
      <4>2. s.next < s.next + 1
        BY <2>2 DEF Models
      <4> QED
        BY <4>1, <4>2 DEF May
    <3> QED
      BY <3>1, <3>2
  <2>5. /\ AfterLook(s, plan).plan = plan /\ AfterLook(s, plan).at = s.at
        /\ AfterLook(s, plan).forced = s.forced
    BY <2>2, AfterLookType
  <2>6. /\ AfterLook(s, plan).pc = "look" => AfterLook(s, plan).next = s.next + 1
        /\ AfterLook(s, plan).pc = "soonest" => plan = <<>>
    <3>1. CASE s.next < NModels
      BY <2>2, <3>1 DEF AfterLook, Call
    <3>2. CASE ~(s.next < NModels)
      BY <2>2, <3>2 DEF AfterLook, Call
    <3> QED
      BY <3>1, <3>2
  <2>7. Plans(AfterLook(s, plan), breaker, hurt'[c])
    BY <2>4, <2>5, <2>6 DEF Plans
  <2> QED
    BY <1>s, <2>1, <2>3, <2>7
<1>3. ASSUME NEW c \in Callers, Soonest(c) PROVE \A d \in Callers : Plans(call'[d], breaker', hurt'[d])
  <2>1. PICK s \in Call :
          /\ call' = [call EXCEPT ![c] = s]
          /\ \/ s.pc = "soonest" /\ s.plan = call[c].plan
             \/ s.pc = "try" /\ s.forced
    BY <1>3, SoonestStep
  <2>2. call[c].plan = <<>>
    BY <1>3, <1>p DEF Soonest, Plans
  <2>3. Plans(s, breaker, hurt'[c])
    BY <2>1, <2>2 DEF Plans
  <2>4. UNCHANGED breaker /\ \A d \in Callers : d # c => hurt'[d] = hurt[d]
    BY <1>3 DEF Soonest, Seen, FailoverTypeOK
  <2> QED
    BY <1>s, <2>1, <2>3, <2>4
<1>4. ASSUME NEW c \in Callers, Success(c) \/ Failure(c)
      PROVE  \A d \in Callers : Plans(call'[d], breaker', hurt'[d])
  <2>1. PICK m \in Models, s \in Call, b \in Breaker :
          /\ call' = [call EXCEPT ![c] = s]
          /\ s = NoCall \/ (s = Recorded(call[c]) /\ call[c].pc = "record" /\ call[c].plan # <<>>)
          /\ breaker' = [breaker EXCEPT ![m] = b]
          /\ \/ b = NewBreaker /\ hurt' = hurt
             \/ hurt' = [d \in Callers |-> hurt[d] \cup {m}]
    BY <1>4, TryStep
  <2>2. \A k \in Models : breaker'[k] = IF k = m THEN b ELSE breaker[k]
    BY <2>1 DEF FailoverTypeOK
  <2>3. ASSUME NEW d \in Callers, NEW k \in Models, NEW t, May(breaker, k, t, hurt[d])
        PROVE  May(breaker', k, t, hurt'[d])
    BY <2>1, <2>2, <2>3 DEF May, Available, BreakerState, NewBreaker
  <2>4. ASSUME NEW d \in Callers PROVE Plans(call[d], breaker', hurt'[d])
    <3>1. \A i \in DOMAIN call[d].plan : call[d].plan[i] \in Models
      BY <1>c, CallFields
    <3> QED
      BY <1>p, <2>3, <3>1 DEF Plans
  <2>5. Plans(s, breaker', hurt'[c])
    <3>1. CASE s = NoCall
      BY <1>0, <3>1
    <3>2. CASE s = Recorded(call[c]) /\ call[c].plan # <<>>
      <4>1. /\ s.forced = call[c].forced /\ s.at = call[c].at /\ s.plan = Tail(call[c].plan)
            /\ s.pc = "try" /\ call[c].plan \in Seq(Models)
        BY <1>c, <3>2, RecordedType, CallFields
      <4>2. \A i \in DOMAIN s.plan : i + 1 \in DOMAIN call[c].plan /\ s.plan[i] = call[c].plan[i + 1]
        BY <3>2, <4>1
      <4> QED
        BY <2>4, <4>1, <4>2 DEF Plans
    <3> QED
      BY <2>1, <3>1, <3>2
  <2>6. \A d \in Callers : call'[d] = IF d = c THEN s ELSE call[d]
    BY <2>1 DEF FailoverTypeOK
  <2> QED
    BY <2>4, <2>5, <2>6
<1>5. ASSUME NEW c \in Callers, Refused(c) \/ RaiseLastError(c)
      PROVE  \A d \in Callers : Plans(call'[d], breaker', hurt'[d])
  BY <1>5, <1>s, <1>0 DEF Refused, RaiseLastError, Return
<1>6. ASSUME NEW c \in Callers, Fails(c) PROVE \A d \in Callers : Plans(call'[d], breaker', hurt'[d])
  <2>1. PICK s \in Call :
          /\ call' = [call EXCEPT ![c] = s]
          /\ s.pc = "record" /\ s.at = call[c].at /\ s.plan = call[c].plan
          /\ s.forced = call[c].forced
          /\ UNCHANGED <<now, breaker, calls, hurt>>
    BY <1>6, FailsStep
  <2>2. Plans(s, breaker, hurt'[c])
    BY <1>p, <2>1 DEF Plans
  <2> QED
    BY <1>s, <2>1, <2>2
<1>7. CASE UNCHANGED <<breaker, call, hurt>>
  BY <1>7, <1>p
<1> QED
  BY <1>1, <1>2, <1>3, <1>4, <1>5, <1>6, <1>7 DEF FailoverNext, Proceed, Tick, failoverVars

\* A call never plans to try a model whose circuit is open by the call's clock,
\* but for one a failure of which was recorded after the call looked, whatever
\* the age of the reading it was recorded with, and for the forced trial.
THEOREM AlwaysSkipped == FailoverSpec => []OpenCircuitsSkipped
<1> DEFINE Inv == \A c \in Callers : Plans(call[c], breaker, hurt[c])
<1>1. FailoverInit => Inv
  BY DEF FailoverInit, NoCall, Plans
<1>2. FailoverTypeOK /\ Inv /\ [FailoverNext]_failoverVars => Inv'
  BY NextSkipped
<1>3. Inv => OpenCircuitsSkipped
  BY SkippedByPlans
<1> HIDE DEF Inv
<1> QED
  BY <1>1, <1>2, <1>3, FailoverTyping, PTL DEF FailoverSpec

-----------------------------------------------------------------------------
(* The soonest is tried.  Each comparison is with breakers other threads   *)
(* change meanwhile: what saves it is that a changed breaker is either     *)
(* closed or known to have failed since.                                   *)

Fresh(br, m, h) == br[m].openedAt = NotOpen \/ m \in h

\* Trying model b is as good as trying model m.
Beats(br, b, m, t, h) ==
  RetryIn(br[b], t) <= RetryIn(br[m], t) \/ b \in h \/ m \in h \/ br[m].openedAt = NotOpen

\* While call s compares: best is among the models compared, left is its time
\* to retry, and no model compared had less.
Compared(s, br, h) ==
  s.pc = "soonest" /\ s.next > 1 =>
    /\ s.best < s.next
    /\ Fresh(br, s.best, h) \/ RetryIn(br[s.best], s.at) = s.left
    /\ \A m \in Models : m < s.next => Fresh(br, m, h) \/ s.left <= RetryIn(br[m], s.at)

ForcedWell(s, br, h) ==
  s.forced => /\ s.pc \notin {"look", "soonest"}
              /\ \A i \in DOMAIN s.plan : \A m \in Models : Beats(br, s.plan[i], m, s.at, h)

LEMMA SoonestByForced ==
  (\A c \in Callers : ForcedWell(call[c], breaker, hurt[c])) => SoonestIsTried
BY DEF SoonestIsTried, ForcedWell, Beats

LEMMA FreshBeats ==
  ASSUME NEW br \in [Models -> Breaker], NEW b \in Models, NEW m \in Models, NEW t \in Nat,
         NEW h, Fresh(br, b, h) \/ Fresh(br, m, h)
  PROVE  Beats(br, b, m, t, h)
<1>1. RetryIn(br[m], t) \in Nat
  BY RetryInType
<1>2. CASE br[b].openedAt = NotOpen
  <2>1. RetryIn(br[b], t) = 0
    BY <1>2 DEF RetryIn, BreakerState
  <2> QED
    BY <1>1, <2>1 DEF Beats
<1> QED
  BY <1>2 DEF Fresh, Beats

LEMMA NextSoonest ==
  ASSUME FailoverTypeOK, [FailoverNext]_failoverVars,
         \A c \in Callers : Compared(call[c], breaker, hurt[c]) /\ ForcedWell(call[c], breaker, hurt[c])
  PROVE  \A c \in Callers :
           Compared(call'[c], breaker', hurt'[c]) /\ ForcedWell(call'[c], breaker', hurt'[c])
<1> DEFINE Well(s, br, h) == Compared(s, br, h) /\ ForcedWell(s, br, h)
           After == \A d \in Callers : Well(call'[d], breaker', hurt'[d])
<1> SUFFICES After
  OBVIOUS
<1>w. \A c \in Callers : Well(call[c], breaker, hurt[c])
  OBVIOUS
<1>c. \A c \in Callers : call[c] \in Call /\ call[c].at \in Nat
  BY FailoverAssumption DEF FailoverTypeOK, Call
<1>n. now \in Nat /\ NModels \in Nat \ {0}
  BY FailoverAssumption DEF FailoverTypeOK
<1>b. breaker \in [Models -> Breaker]
  BY DEF FailoverTypeOK
<1>0. \A br, h : Well(NoCall, br, h)
  BY DEF NoCall, Compared, ForcedWell
\* One call moves to s, and s is well.
<1>s. ASSUME NEW c \in Callers, NEW s, call' = [call EXCEPT ![c] = s], UNCHANGED breaker,
             \A d \in Callers : d # c => hurt'[d] = hurt[d], Well(s, breaker, hurt'[c])
      PROVE  After
  <2> HIDE DEF Well
  <2>1. \A d \in Callers : call'[d] = IF d = c THEN s ELSE call[d]
    BY <1>s DEF FailoverTypeOK
  <2> QED
    BY <1>w, <1>s, <2>1
<1>1. ASSUME NEW c \in Callers, Begin(c) PROVE After
  <2> DEFINE s == [NoCall EXCEPT !.pc = "look", !.at = now]
  <2>1. Well(s, breaker, hurt'[c])
    BY DEF NoCall, Compared, ForcedWell
  <2>2. call' = [call EXCEPT ![c] = s] /\ UNCHANGED <<breaker, hurt>>
    BY <1>1 DEF Begin
  <2> HIDE DEF Well, After, s
  <2> QED
    BY <1>s, <2>1, <2>2
<1>2. ASSUME NEW c \in Callers, Look(c) PROVE After
  <2> DEFINE s == call[c]
  <2>1. PICK plan \in Seq(Models) : call' = [call EXCEPT ![c] = AfterLook(s, plan)]
    BY <1>2, LookStep
  <2>2. s \in Call /\ s.pc = "look" /\ ~s.forced
    BY <1>2, <1>c, <1>w DEF Look, ForcedWell
  <2>3. AfterLook(s, plan).forced = s.forced
    BY <2>2, AfterLookType
  <2>4. AfterLook(s, plan).pc = "soonest" => AfterLook(s, plan).next = 1
    <3>1. CASE s.next < NModels
      <4>1. AfterLook(s, plan).pc = s.pc
        BY <2>2, <3>1 DEF AfterLook, Call
      <4> QED
        BY <2>2, <4>1
    <3>2. CASE ~(s.next < NModels)
      BY <2>2, <3>2 DEF AfterLook, Call
    <3> QED
      BY <3>1, <3>2
  <2>5. Well(AfterLook(s, plan), breaker, hurt'[c])
    BY <2>2, <2>3, <2>4 DEF Compared, ForcedWell
  <2>6. UNCHANGED breaker /\ \A d \in Callers : d # c => hurt'[d] = hurt[d]
    BY <1>2 DEF Look, Seen, FailoverTypeOK
  <2> HIDE DEF Well, After
  <2> QED
    BY <1>s, <2>1, <2>5, <2>6
<1>3. ASSUME NEW c \in Callers, Soonest(c) PROVE After
  <2> DEFINE s == call[c]
             h == hurt'[c]
             left == RetryIn(breaker[s.next], s.at)
             wins == s.next = 1 \/ left < s.left
             best == IF wins THEN s.next ELSE s.best
             least == IF wins THEN left ELSE s.left
             nearest == IF wins THEN [s EXCEPT !.best = s.next, !.left = left] ELSE s
             t == IF s.next < NModels THEN [nearest EXCEPT !.next = @ + 1]
                  ELSE [nearest EXCEPT !.pc = "try", !.plan = <<nearest.best>>, !.forced = TRUE]
  <2>1. /\ s \in Call /\ s.pc = "soonest" /\ s.next \in Models /\ s.best \in Models
        /\ s.left \in Nat /\ s.at \in Nat
    BY <1>3, <1>c DEF Soonest, Call
  <2>2. left \in Nat
    BY <1>b, <2>1, RetryInType
  <2>3. \A m \in Models : RetryIn(breaker[m], s.at) \in Nat
    BY <1>b, <2>1, RetryInType
  <2>8. /\ UNCHANGED breaker /\ \A d \in Callers : d # c => hurt'[d] = hurt[d]
        /\ \A m \in Models : m # s.next => (m \in h <=> m \in hurt[c])
    BY <1>3 DEF Soonest, Seen, FailoverTypeOK
  <2>4. /\ best \in Models /\ least \in Nat /\ best <= s.next
        /\ Fresh(breaker, best, h) \/ RetryIn(breaker[best], s.at) = least
        /\ \A m \in Models : m <= s.next =>
             Fresh(breaker, m, h) \/ least <= RetryIn(breaker[m], s.at)
    <3>1. CASE s.next = 1
      <4>1. best = 1 /\ least = left
        BY <3>1
      <4>2. \A m \in Models : m <= s.next => m = 1
        BY <3>1 DEF Models
      <4> QED
        BY <2>1, <2>2, <3>1, <4>1, <4>2
    <3>2. CASE s.next > 1
      <4>1. Compared(s, breaker, hurt[c])
        BY <1>w
      <4>2. /\ s.best < s.next
            /\ Fresh(breaker, s.best, h) \/ RetryIn(breaker[s.best], s.at) = s.left
            /\ \A m \in Models : m < s.next =>
                 Fresh(breaker, m, h) \/ s.left <= RetryIn(breaker[m], s.at)
        <5>1. \A m \in Models : m < s.next => (Fresh(breaker, m, hurt[c]) => Fresh(breaker, m, h))
          BY <2>1, <2>8 DEF Fresh, Models
        <5> QED
          BY <2>1, <3>2, <4>1, <5>1 DEF Compared
      <4>3. CASE wins
        <5>1. best = s.next /\ least = left /\ left < s.left
          BY <3>2, <4>3
        <5>2. \A m \in Models : m < s.next \/ m = s.next \/ m > s.next
          BY <2>1 DEF Models
        <5> HIDE DEF best, least
        <5> QED
          BY <2>1, <2>2, <2>3, <4>2, <5>1, <5>2 DEF Models
      <4>4. CASE ~wins
        <5>1. best = s.best /\ least = s.left /\ s.left <= left
          BY <2>1, <2>2, <4>4
        <5>2. \A m \in Models : m < s.next \/ m = s.next \/ m > s.next
          BY <2>1 DEF Models
        <5> HIDE DEF best, least
        <5> QED
          BY <2>1, <2>2, <2>3, <4>2, <5>1, <5>2 DEF Models
      <4> QED
        BY <4>3, <4>4
    <3> QED
      BY <2>1, <3>1, <3>2 DEF Models
  <2>5. /\ nearest.best = best /\ nearest.left = least /\ nearest.next = s.next
        /\ nearest.pc = "soonest" /\ nearest.at = s.at /\ nearest \in Call
        /\ nearest.plan = s.plan /\ nearest.forced = s.forced
    <3> HIDE DEF left
    <3> QED
      BY <2>1, <2>2 DEF Call
  <2>6. Well(t, breaker, h)
    <3> HIDE DEF best, least, nearest
    <3>1. CASE s.next < NModels
      <4>1. /\ t.best = best /\ t.left = least /\ t.next = s.next + 1 /\ t.pc = "soonest"
            /\ t.at = s.at /\ t.plan = s.plan /\ t.forced = s.forced
        BY <2>5, <3>1 DEF Call
      <4>2. best < t.next /\ \A m \in Models : m < t.next => m <= s.next
        BY <2>1, <2>4, <4>1 DEF Models
      <4>3. Compared(t, breaker, h)
        BY <2>4, <4>1, <4>2 DEF Compared
      <4>4. ~s.forced
        BY <1>w, <2>1 DEF ForcedWell
      <4>5. ForcedWell(t, breaker, h)
        BY <4>1, <4>4 DEF ForcedWell
      <4> QED
        BY <4>3, <4>5
    <3>2. CASE ~(s.next < NModels)
      <4>1. t.pc = "try" /\ t.plan = <<best>> /\ t.at = s.at
        BY <2>5, <3>2 DEF Call
      <4>2. \A m \in Models : m <= s.next
        BY <1>n, <2>1, <3>2 DEF Models
      <4>3. ASSUME NEW m \in Models PROVE Beats(breaker, best, m, s.at, h)
        <5>1. CASE Fresh(breaker, best, h) \/ Fresh(breaker, m, h)
          BY <1>b, <2>1, <2>4, <5>1, FreshBeats
        <5>2. CASE ~Fresh(breaker, best, h) /\ ~Fresh(breaker, m, h)
          BY <2>4, <4>2, <5>2 DEF Beats
        <5> QED
          BY <5>1, <5>2
      <4>4. ForcedWell(t, breaker, h)
        BY <4>1, <4>3 DEF ForcedWell
      <4>5. Compared(t, breaker, h)
        BY <4>1 DEF Compared
      <4> QED
        BY <4>4, <4>5
    <3> QED
      BY <3>1, <3>2
  <2>7. call' = [call EXCEPT ![c] = t] /\ UNCHANGED breaker
    BY <1>3 DEF Soonest
  <2> HIDE DEF t, Well
  <2> QED
    BY <1>s, <2>6, <2>7, <2>8
<1>4. ASSUME NEW c \in Callers, Success(c) \/ Failure(c) PROVE After
  <2>1. PICK m \in Models, s \in Call, b \in Breaker :
          /\ call' = [call EXCEPT ![c] = s]
          /\ s = NoCall \/ (s = Recorded(call[c]) /\ call[c].pc = "record" /\ call[c].plan # <<>>)
          /\ breaker' = [breaker EXCEPT ![m] = b]
          /\ \/ b = NewBreaker /\ hurt' = hurt
             \/ hurt' = [d \in Callers |-> hurt[d] \cup {m}]
    BY <1>4, TryStep
  <2>2. \A k \in Models : breaker'[k] = IF k = m THEN b ELSE breaker[k]
    BY <2>1 DEF FailoverTypeOK
  <2>b. breaker' \in [Models -> Breaker]
    BY <1>b, <2>1
  <2>3. \A d \in Callers : Fresh(breaker', m, hurt'[d])
    BY <2>1, <2>2 DEF Fresh, NewBreaker
  <2>7. \A d \in Callers : hurt[d] \subseteq hurt'[d]
    BY <2>1
  <2>4. ASSUME NEW d \in Callers PROVE Well(call[d], breaker', hurt'[d])
    <3>1. Well(call[d], breaker, hurt[d])
      BY <1>w
    <3>2. call[d].best \in Models
      BY <1>c, CallFields
    <3>3. Compared(call[d], breaker', hurt'[d])
      <4>1. \A k \in Models : Fresh(breaker, k, hurt[d]) => Fresh(breaker', k, hurt'[d])
        BY <2>2, <2>3, <2>7 DEF Fresh
      <4>2. \A k \in Models : k # m => breaker'[k] = breaker[k]
        BY <2>2
      <4> QED
        BY <2>3, <3>1, <3>2, <4>1, <4>2 DEF Compared
    <3>4. ASSUME call[d].forced, NEW i \in DOMAIN call[d].plan, NEW k \in Models
          PROVE  Beats(breaker', call[d].plan[i], k, call[d].at, hurt'[d])
      <4>1. call[d].plan[i] \in Models
        BY <1>c, <3>4, CallFields
      <4>2. Beats(breaker, call[d].plan[i], k, call[d].at, hurt[d])
        BY <3>1, <3>4 DEF ForcedWell
      <4>3. CASE call[d].plan[i] = m \/ k = m
        BY <1>c, <2>3, <2>b, <4>1, <4>3, FreshBeats
      <4>4. CASE call[d].plan[i] # m /\ k # m
        BY <2>2, <2>7, <4>1, <4>2, <4>4 DEF Beats
      <4> QED
        BY <4>3, <4>4
    <3>5. ForcedWell(call[d], breaker', hurt'[d])
      BY <3>1, <3>4 DEF ForcedWell
    <3> QED
      BY <3>3, <3>5
  <2>5. Well(s, breaker', hurt'[c])
    <3>1. CASE s = NoCall
      BY <1>0, <3>1
    <3>2. CASE s = Recorded(call[c]) /\ call[c].plan # <<>>
      <4>1. /\ s.forced = call[c].forced /\ s.at = call[c].at /\ s.plan = Tail(call[c].plan)
            /\ s.pc = "try" /\ call[c].plan \in Seq(Models)
        BY <1>c, <3>2, RecordedType, CallFields
      <4>2. \A i \in DOMAIN s.plan : i + 1 \in DOMAIN call[c].plan /\ s.plan[i] = call[c].plan[i + 1]
        BY <3>2, <4>1
      <4>3. Compared(s, breaker', hurt'[c])
        BY <4>1 DEF Compared
      <4>4. ForcedWell(call[c], breaker', hurt'[c])
        BY <2>4
      <4>5. ForcedWell(s, breaker', hurt'[c])
        BY <4>1, <4>2, <4>4 DEF ForcedWell
      <4> QED
        BY <4>3, <4>5
    <3> QED
      BY <2>1, <3>1, <3>2
  <2>6. \A d \in Callers : call'[d] = IF d = c THEN s ELSE call[d]
    BY <2>1 DEF FailoverTypeOK
  <2> HIDE DEF Well
  <2> QED
    BY <2>4, <2>5, <2>6
<1>5. ASSUME NEW c \in Callers, Refused(c) \/ RaiseLastError(c) PROVE After
  <2>1. call' = [call EXCEPT ![c] = NoCall] /\ UNCHANGED <<breaker, hurt>>
    BY <1>5 DEF Refused, RaiseLastError, Return
  <2> HIDE DEF Well, After
  <2> QED
    BY <1>0, <1>s, <2>1
<1>6. ASSUME NEW c \in Callers, Fails(c) PROVE After
  <2>1. PICK s \in Call :
          /\ call' = [call EXCEPT ![c] = s]
          /\ s.pc = "record" /\ s.at = call[c].at /\ s.plan = call[c].plan
          /\ s.forced = call[c].forced
          /\ UNCHANGED <<now, breaker, calls, hurt>>
    BY <1>6, FailsStep
  <2>2. Well(s, breaker, hurt'[c])
    BY <1>w, <2>1 DEF Compared, ForcedWell
  <2> HIDE DEF Well, After
  <2> QED
    BY <1>s, <2>1, <2>2
<1>7. CASE UNCHANGED <<breaker, call, hurt>>
  BY <1>7, <1>w
<1> HIDE DEF After
<1> QED
  BY <1>1, <1>2, <1>3, <1>4, <1>5, <1>6, <1>7 DEF FailoverNext, Proceed, Tick, failoverVars

\* A call that found every circuit open tries the one that reopens soonest,
\* whatever other threads do to the breakers while it compares them, but for
\* circuits that close or fail again meanwhile.
THEOREM AlwaysSoonest == FailoverSpec => []SoonestIsTried
<1> DEFINE Inv == \A c \in Callers :
             Compared(call[c], breaker, hurt[c]) /\ ForcedWell(call[c], breaker, hurt[c])
<1>1. FailoverInit => Inv
  BY DEF FailoverInit, NoCall, Compared, ForcedWell
<1>2. FailoverTypeOK /\ Inv /\ [FailoverNext]_failoverVars => Inv'
  BY NextSoonest
<1>3. Inv => SoonestIsTried
  BY SoonestByForced
<1> HIDE DEF Inv
<1> QED
  BY <1>1, <1>2, <1>3, FailoverTyping, PTL DEF FailoverSpec

-----------------------------------------------------------------------------
(***************************************************************************)
(* Pipeline for any number of runs, attempts and versions, any statements  *)
(* and whatever the pruner selects.                                        *)
(*                                                                         *)
(* A run only ever changes its own record, so the invariant is one about   *)
(* single records (GoodRun) and one about what rows and hits owe to the    *)
(* request of the run that wrote them (GoodRow, GoodHit).                  *)
(***************************************************************************)

Early == {"intent", "retrieve", "lookup", "get", "attempt"}

GoodRun(s) ==
  /\ s.pc \in {"lookup", "get", "bump", "attempt", "put"} => s.view # {}
  /\ s.pc \in {"get", "bump", "put"} => s.sig # 0
  /\ s.sig # 0 => ~s.req.revision
  /\ s.pc \in Early => ~s.success
  /\ s.pc = "put" => s.success
  /\ s.success => s.out # NoSql /\ \E view \in s.view : Accepts(s.out, view)
  /\ ~Rejected(s.out)
  /\ \A i \in 1..Len(s.attempts) :
       s.attempts[i] \in {"guardrail", "sandbox"} =>
         i = Len(s.attempts) /\ s.pc = "done" /\ ~s.success

\* Run w asked the question text, and not as a revision.
Asked(w, text) == run[w].req.text = text /\ ~run[w].req.revision

GoodRow(k, row) ==
  row # NoRow => row.sql \in Sqls /\ ~Rejected(row.sql) /\ row.by \in Runs /\ Asked(row.by, k[1])

GoodHit(s) == \A w \in s.from : Asked(w, s.req.text) /\ ~s.req.revision

IInv ==
  /\ TypeOK
  /\ \A r \in Runs : GoodRun(run[r]) /\ GoodHit(run[r])
  /\ \A k \in Keys : GoodRow(k, cache[k])

LEMMA SoundSql ==
  ASSUME NEW s \in Sqls, NEW view \in Views, Accepts(s, view)
  PROVE  /\ Pretty[s] \in Sqls /\ Accepts(Pretty[s], view) /\ Pretty[s] # NoSql
         /\ ~Rejected(Pretty[s])
BY PipelineAssumption DEF Accepts, PassesSafety, Rejected

LEMMA InitIInv == Init => IInv
<1> SUFFICES ASSUME Init PROVE IInv
  OBVIOUS
<1>0. 1 \in Versions /\ 0 \in 0..MaxVersion /\ 1 \in 0..MaxVersion
  BY PipelineAssumption DEF Versions
<1>1. ASSUME NEW q \in Requests
      PROVE  NewRun(q) \in RunRecord /\ GoodRun(NewRun(q)) /\ NewRun(q).from = {}
  <2>1. <<>> \in Seq(Errors) /\ Len(<<>>) = 0
    OBVIOUS
  <2>2. NewRun(q) \in RunRecord
    BY <1>0, <2>1 DEF NewRun, RunRecord
  <2>3. GoodRun(NewRun(q))
    BY <2>1 DEF NewRun, GoodRun, Rejected
  <2> QED
    BY <2>2, <2>3 DEF NewRun
<1>2. \A r \in Runs : \E q \in Requests : run[r] = NewRun(q)
  BY DEF Init
<1>3. run \in [Runs -> RunRecord]
  BY <1>1, <1>2 DEF Init
<1>4. \A r \in Runs : GoodRun(run[r]) /\ GoodHit(run[r])
  BY <1>1, <1>2 DEF GoodHit
<1>5. cache \in [Keys -> Rows \cup {NoRow}] /\ \A k \in Keys : GoodRow(k, cache[k])
  BY DEF Init, GoodRow
<1>6. TypeOK
  BY <1>0, <1>3, <1>4, <1>5 DEF Init, TypeOK, GoodRun
<1> QED
  BY <1>4, <1>5, <1>6 DEF IInv

\* Every step of run r: what it must show of the record it leaves and of the cache.
LEMMA BecomeInv ==
  ASSUME IInv, NEW r \in Runs, NEW s \in RunRecord, Become(r, s), s.req = run[r].req,
         GoodRun(s), GoodHit(s),
         live' = live, file' \in 0..MaxVersion,
         cache' \in [Keys -> Rows \cup {NoRow}],
         \A k \in Keys : GoodRow(k, cache'[k])
  PROVE  IInv'
<1>1. run \in [Runs -> RunRecord] /\ live \in Versions
  BY DEF IInv, TypeOK
<1>2. run' \in [Runs -> RunRecord] /\ run'[r] = s /\ \A w \in Runs \ {r} : run'[w] = run[w]
  BY <1>1 DEF Become
<1>3. \A w \in Runs : run'[w].req = run[w].req
  BY <1>2
<1>4. \A w \in Runs : GoodRun(run'[w]) /\ GoodHit(run'[w])
  BY <1>2 DEF IInv
<1>5. \A w \in Runs : run'[w].from \in SUBSET Runs
  BY <1>2 DEF RunRecord
<1>6. ASSUME NEW w \in Runs PROVE GoodHit(run[w])'
  BY <1>3, <1>4, <1>5 DEF GoodHit, Asked
<1>7. \A k \in Keys : GoodRow(k, cache[k])'
  BY <1>3 DEF GoodRow, Asked
<1>8. TypeOK'
  BY <1>1, <1>2, <1>4 DEF TypeOK, GoodRun
<1>9. \A w \in Runs : GoodRun(run[w])'
  BY <1>4 DEF GoodRun
<1> QED
  BY <1>6, <1>7, <1>8, <1>9 DEF IInv

\* A step that leaves the cache alone.
LEMMA RunInv ==
  ASSUME IInv, NEW r \in Runs, NEW s \in RunRecord, Become(r, s), s.req = run[r].req,
         GoodRun(s), s.from = run[r].from,
         UNCHANGED <<live, cache>>, file' \in 0..MaxVersion
  PROVE  IInv'
<1>1. GoodHit(s)
  BY DEF IInv, GoodHit
<1>2. cache' \in [Keys -> Rows \cup {NoRow}] /\ \A k \in Keys : GoodRow(k, cache'[k])
  BY DEF IInv, TypeOK
<1> QED
  BY <1>1, <1>2, BecomeInv

LEMMA Here ==
  ASSUME IInv, NEW r \in Runs
  PROVE  /\ run[r] \in RunRecord /\ GoodRun(run[r]) /\ GoodHit(run[r])
         /\ file \in 0..MaxVersion /\ live \in Versions
         /\ cache \in [Keys -> Rows \cup {NoRow}]
         /\ \A k \in Keys : GoodRow(k, cache[k])
BY DEF IInv, TypeOK

\* A record whose run is over without a result.
LEMMA RaiseInv ==
  ASSUME IInv, NEW r \in Runs, Raise(r), ~At(r, "done"), UNCHANGED <<live, cache>>,
         file' \in 0..MaxVersion
  PROVE  IInv'
<1> DEFINE s == [run[r] EXCEPT !.pc = "raised", !.success = FALSE, !.out = NoSql]
<1>0. run[r] \in RunRecord
  BY Here
<1>1. /\ s.pc = "raised" /\ s.success = FALSE /\ s.out = NoSql /\ s.req = run[r].req
      /\ s.sig = run[r].sig /\ s.attempts = run[r].attempts /\ s.from = run[r].from
      /\ s.view = run[r].view /\ s \in RunRecord
  <2>1. s \in RunRecord
    BY <1>0 DEF RunRecord
  <2>2. s.pc = "raised" /\ s.success = FALSE /\ s.out = NoSql
    BY <1>0 DEF RunRecord
  <2>3. s.req = run[r].req /\ s.sig = run[r].sig /\ s.attempts = run[r].attempts
        /\ s.from = run[r].from /\ s.view = run[r].view
    BY <1>0 DEF RunRecord
  <2> QED
    BY <2>1, <2>2, <2>3
<1>2. Become(r, s)
  BY DEF Raise
<1> HIDE DEF s
<1>3. GoodRun(s)
  BY <1>1, Here DEF GoodRun, At, Rejected, Early
<1> QED
  BY <1>1, <1>2, <1>3, RunInv

\* A step that only moves a run on, or ends it.
LEMMA MoveInv ==
  ASSUME IInv, NEW r \in Runs, NEW pc \in {"retrieve", "attempt", "done"},
         Become(r, [run[r] EXCEPT !.pc = pc]), ~At(r, "done"),
         pc = "done" \/ run[r].pc \in Early, pc = "attempt" => run[r].view # {},
         UNCHANGED <<live, cache>>, file' \in 0..MaxVersion
  PROVE  IInv'
<1> DEFINE s == [run[r] EXCEPT !.pc = pc]
<1>0. run[r] \in RunRecord
  BY Here
<1>1. /\ s.pc = pc /\ s.success = run[r].success /\ s.out = run[r].out /\ s.req = run[r].req
      /\ s.sig = run[r].sig /\ s.attempts = run[r].attempts /\ s.from = run[r].from
      /\ s.view = run[r].view /\ s \in RunRecord
  BY <1>0 DEF RunRecord
<1>2. Become(r, s)
  OBVIOUS
<1> HIDE DEF s
<1>3. GoodRun(s)
  BY <1>1, Here DEF GoodRun, Early, At
<1> QED
  BY <1>1, <1>2, <1>3, RunInv

LEMMA NextWorld == ASSUME IInv, ChangeSchema \/ RewriteFile \/ ClearCache PROVE IInv'
<1>0. TypeOK /\ live \in Nat
  BY PipelineAssumption DEF IInv, TypeOK, Versions
<1>1. live' \in Versions /\ file' \in 0..MaxVersion /\ run' = run
  BY <1>0, PipelineAssumption DEF ChangeSchema, RewriteFile, ClearCache, TypeOK, Versions
<1>2. cache' = cache \/ cache' = [k \in Keys |-> NoRow]
  BY DEF ChangeSchema, RewriteFile, ClearCache
<1>3. cache' \in [Keys -> Rows \cup {NoRow}]
  BY <1>0, <1>2 DEF TypeOK
<1>4. \A k \in Keys : GoodRow(k, cache[k])'
  BY <1>1, <1>2 DEF IInv, GoodRow, Asked
<1>5. \A r \in Runs : GoodRun(run[r])' /\ GoodHit(run[r])'
  BY <1>1 DEF IInv, GoodRun, GoodHit, Asked
<1>6. TypeOK'
  BY <1>0, <1>1, <1>3 DEF TypeOK
<1> QED
  BY <1>4, <1>5, <1>6 DEF IInv

LEMMA NextReadRequest == ASSUME IInv, NEW r \in Runs, ReadRequest(r) PROVE IInv'
<1>1. ~At(r, "done") /\ run[r].pc \in Early
  BY DEF ReadRequest, At, Early
<1> QED
  BY <1>1, Here, MoveInv DEF ReadRequest

LEMMA NextRetrieve == ASSUME IInv, NEW r \in Runs, Retrieve(r) PROVE IInv'
<1>0. run[r] \in RunRecord /\ run[r].pc = "retrieve" /\ ~At(r, "done")
      /\ file' \in 0..MaxVersion /\ UNCHANGED <<live, cache>>
  <2>1. live \in 0..MaxVersion /\ file \in 0..MaxVersion /\ 0 \in 0..MaxVersion
    BY Here, PipelineAssumption DEF Versions
  <2>2. file' \in 0..MaxVersion
    BY <2>1 DEF Retrieve
  <2> QED
    BY <2>2, Here DEF Retrieve, At
<1>1. ASSUME NEW v \in Versions, NEW view \in ViewsAt[v],
             Become(r, [run[r] EXCEPT !.pc = "lookup", !.view = {view}])
      PROVE  IInv'
  <2> DEFINE s == [run[r] EXCEPT !.pc = "lookup", !.view = {view}]
  <2>1. view \in Views
    BY PipelineAssumption
  <2>2. s \in RunRecord
    BY <1>0, <2>1 DEF RunRecord
  <2>3. /\ s.pc = "lookup" /\ s.view = {view} /\ s.success = run[r].success
        /\ s.out = run[r].out /\ s.req = run[r].req /\ s.sig = run[r].sig
        /\ s.attempts = run[r].attempts /\ s.from = run[r].from
    BY <1>0 DEF RunRecord
  <2> HIDE DEF s
  <2>4. GoodRun(s)
    BY <1>0, <2>3, Here DEF GoodRun, Early
  <2> QED
    BY <1>0, <1>1, <2>2, <2>3, <2>4, RunInv DEF s
<1>2. CASE Become(r, [run[r] EXCEPT !.pc = "done"])
  BY <1>0, <1>2, Here, MoveInv DEF Early, GoodRun
<1> QED
  BY <1>1, <1>2 DEF Retrieve

LEMMA NextLookup == ASSUME IInv, NEW r \in Runs, Lookup(r) PROVE IInv'
<1>0. run[r] \in RunRecord /\ run[r].pc = "lookup" /\ ~At(r, "done") /\ file' \in 0..MaxVersion
      /\ UNCHANGED <<live, cache>>
  BY Here DEF Lookup, At
<1>1. CASE Cacheable(r) /\ Become(r, [run[r] EXCEPT !.pc = "get", !.sig = file])
  <2> DEFINE s == [run[r] EXCEPT !.pc = "get", !.sig = file]
  <2>1. s \in RunRecord
    BY <1>0, Here DEF RunRecord
  <2>2. /\ s.pc = "get" /\ s.sig = file /\ s.view = run[r].view /\ s.success = run[r].success
        /\ s.out = run[r].out /\ s.req = run[r].req
        /\ s.attempts = run[r].attempts /\ s.from = run[r].from
    BY <1>0 DEF RunRecord
  <2> HIDE DEF s
  <2>3. GoodRun(s)
    BY <1>0, <1>1, <2>2, Here DEF GoodRun, Early, Cacheable
  <2> QED
    BY <1>0, <1>1, <2>1, <2>2, <2>3, RunInv DEF s
<1>2. CASE Become(r, [run[r] EXCEPT !.pc = "attempt"])
  BY <1>0, <1>2, Here, MoveInv DEF Early, GoodRun
<1>3. CASE Raise(r)
  BY <1>0, <1>3, RaiseInv
<1> QED
  BY <1>1, <1>2, <1>3 DEF Lookup

\* The schema a run validates against is one of Views.
LEMMA ViewIs ==
  ASSUME IInv, NEW r \in Runs, run[r].view # {}
  PROVE  View(r) \in run[r].view /\ View(r) \in Views
<1>1. View(r) \in run[r].view
  BY DEF View
<1>2. run[r].view \in SUBSET Views
  BY Here DEF RunRecord
<1> QED
  BY <1>1, <1>2

LEMMA NextCacheGet == ASSUME IInv, NEW r \in Runs, CacheGet(r) PROVE IInv'
<1>0. run[r] \in RunRecord /\ run[r].pc = "get" /\ ~At(r, "done") /\ file' \in 0..MaxVersion
      /\ UNCHANGED <<live, cache>>
  BY Here DEF CacheGet, At
<1>1. CASE Hit(r) /\ Become(r, [run[r] EXCEPT !.pc = "bump", !.success = TRUE,
                                 !.out = Pretty[cache[Key(r)].sql],
                                 !.from = {cache[Key(r)].by}])
  <2> DEFINE row == cache[Key(r)]
             s == [run[r] EXCEPT !.pc = "bump", !.success = TRUE, !.out = Pretty[row.sql],
                                 !.from = {row.by}]
  <2>1. Key(r) \in Keys /\ Key(r)[1] = run[r].req.text
    BY <1>0, Here DEF Key, Keys, GoodRun, RunRecord, Requests, Versions
  <2>2. row # NoRow /\ row.sql \in Sqls /\ row.by \in Runs /\ Asked(row.by, run[r].req.text)
    BY <1>1, <2>1, Here DEF Hit, GoodRow
  <2>3. View(r) \in run[r].view /\ View(r) \in Views /\ run[r].sig # 0
    BY <1>0, ViewIs, Here DEF GoodRun
  <2> DEFINE p == Pretty[row.sql]
  <2>4. p \in Sqls /\ Accepts(p, View(r)) /\ p # NoSql /\ ~Rejected(p)
    BY <1>1, <2>2, <2>3, SoundSql DEF Hit
  <2>5. s \in RunRecord
    BY <1>0, <2>2, <2>4 DEF RunRecord
  <2>6. s.pc = "bump" /\ s.success = TRUE /\ s.out = p /\ s.from = {row.by}
    BY <1>0 DEF RunRecord
  <2>7. s.req = run[r].req /\ s.sig = run[r].sig /\ s.attempts = run[r].attempts
        /\ s.view = run[r].view
    BY <1>0 DEF RunRecord
  <2>8. Become(r, s)
    BY <1>1
  <2> HIDE DEF s, p, row
  <2>9. GoodRun(s)
    BY <1>0, <2>3, <2>4, <2>6, <2>7, Here DEF GoodRun, Early
  <2>10. GoodHit(s)
    BY <2>2, <2>3, <2>6, <2>7, Here DEF GoodHit, GoodRun
  <2> QED
    BY <1>0, <2>5, <2>7, <2>8, <2>9, <2>10, Here, BecomeInv
<1>2. CASE Become(r, [run[r] EXCEPT !.pc = "attempt"])
  BY <1>0, <1>2, Here, MoveInv DEF Early, GoodRun
<1>3. CASE Raise(r)
  BY <1>0, <1>3, RaiseInv
<1> QED
  BY <1>1, <1>2, <1>3 DEF CacheGet

LEMMA NextBumpHit == ASSUME IInv, NEW r \in Runs, BumpHit(r) PROVE IInv'
<1>0. run[r] \in RunRecord /\ run[r].pc = "bump" /\ ~At(r, "done") /\ file' \in 0..MaxVersion
      /\ UNCHANGED <<live, cache>>
  BY Here DEF BumpHit, At
<1>1. CASE Become(r, [run[r] EXCEPT !.pc = "done"])
  BY <1>0, <1>1, Here, MoveInv DEF Early, GoodRun
<1> QED
  BY <1>0, <1>1, RaiseInv DEF BumpHit

LEMMA Verdicts ==
  ASSUME NEW s \in Sqls, NEW view, ~Accepts(s, view)
  PROVE  /\ Verdict(s) \in Errors
         /\ ~Rejected(Public(Verdict(s), s))
         /\ Public(Verdict(s), s) \in Sqls \cup {NoSql}
BY PipelineAssumption DEF Verdict, Errors, Public, Rejected, Kinds

LEMMA AttemptFails ==
  ASSUME IInv, NEW r \in Runs, run[r].pc = "attempt", UNCHANGED <<live, file, cache>>,
         NEW error \in Errors, NEW q, Failed(r, error, q),
         ~Rejected(Public(error, q)), Public(error, q) \in Sqls \cup {NoSql}
  PROVE  IInv'
<1> DEFINE done == Append(run[r].attempts, error)
           n == Len(run[r].attempts)
           out == Public(error, q)
<1>0. run[r] \in RunRecord /\ run[r].attempts \in Seq(Errors) /\ file' \in 0..MaxVersion
  BY Here DEF RunRecord
<1>1. done \in Seq(Errors) /\ Len(done) = n + 1 /\ n \in Nat /\ done[n + 1] = error
      /\ \A i \in 1..n : done[i] = run[r].attempts[i]
  BY <1>0
<1> HIDE DEF done
<1>2. \A i \in 1..n : done[i] \notin {"guardrail", "sandbox"}
  BY <1>1, Here DEF GoodRun
<1>3. CASE Retryable(error) /\ Become(r, [run[r] EXCEPT !.attempts = done])
  <2> DEFINE s == [run[r] EXCEPT !.attempts = done]
  <2>1. /\ s.pc = "attempt" /\ s.success = run[r].success /\ s.out = run[r].out
        /\ s.req = run[r].req /\ s.sig = run[r].sig /\ s.attempts = done
        /\ s.from = run[r].from /\ s.view = run[r].view
    BY <1>0 DEF RunRecord
  <2>2. s \in RunRecord
    BY <1>0, <1>1 DEF RunRecord
  <2>3. Become(r, s)
    BY <1>3
  <2> HIDE DEF s
  <2>4. \A i \in 1..Len(done) : done[i] \notin {"guardrail", "sandbox"}
    BY <1>1, <1>2, <1>3 DEF Retryable
  <2>5. GoodRun(s)
    BY <2>1, <2>4, Here DEF GoodRun
  <2> QED
    BY <1>0, <2>1, <2>2, <2>3, <2>5, RunInv
<1>4. CASE Become(r, [run[r] EXCEPT !.attempts = done, !.pc = "done", !.out = out])
  <2> DEFINE s == [run[r] EXCEPT !.attempts = done, !.pc = "done", !.out = out]
  <2> HIDE DEF out
  <2>1. /\ s.pc = "done" /\ s.success = run[r].success /\ s.out = out
        /\ s.req = run[r].req /\ s.sig = run[r].sig /\ s.attempts = done
        /\ s.from = run[r].from /\ s.view = run[r].view
    BY <1>0 DEF RunRecord
  <2>2. s \in RunRecord
    BY <1>0, <1>1 DEF RunRecord, out
  <2>3. Become(r, s)
    BY <1>4
  <2>4. run[r].success = FALSE
    BY <1>0, Here DEF GoodRun, Early, RunRecord
  <2> HIDE DEF s
  <2>5. \A i \in 1..Len(done) : done[i] \in {"guardrail", "sandbox"} => i = Len(done)
    BY <1>1, <1>2
  <2>6. GoodRun(s)
    BY <2>1, <2>4, <2>5, Here DEF GoodRun, Early, out
  <2> QED
    BY <1>0, <2>1, <2>2, <2>3, <2>6, RunInv
<1> QED
  BY <1>3, <1>4 DEF Failed, done

LEMMA NextAttempt == ASSUME IInv, NEW r \in Runs, Attempt(r) PROVE IInv'
<1>0. run[r] \in RunRecord /\ run[r].pc = "attempt" /\ UNCHANGED <<live, file, cache>>
      /\ file' \in 0..MaxVersion
  BY Here DEF Attempt, At
<1>1. CASE Failed(r, "llm", NoSql)
  <2>1. Public("llm", NoSql) = NoSql /\ "llm" \in Errors
    BY DEF Public, Errors
  <2> QED
    BY <1>0, <1>1, <2>1, AttemptFails DEF Rejected
<1>2. ASSUME NEW s \in Sqls, ~Accepts(s, View(r)), Failed(r, Verdict(s), s) PROVE IInv'
  BY <1>0, <1>2, Verdicts, AttemptFails
<1>3. ASSUME NEW q \in Sqls, Accepts(q, View(r)),
             Become(r, [run[r] EXCEPT !.pc = IF run[r].sig = 0 THEN "done" ELSE "put",
                                      !.success = TRUE, !.out = Pretty[q]])
      PROVE  IInv'
  <2> DEFINE p == Pretty[q]
             pc == IF run[r].sig = 0 THEN "done" ELSE "put"
             s == [run[r] EXCEPT !.pc = pc, !.success = TRUE, !.out = p]
  <2>1. View(r) \in run[r].view /\ View(r) \in Views
    BY <1>0, ViewIs, Here DEF GoodRun
  <2>2. p \in Sqls /\ Accepts(p, View(r)) /\ p # NoSql /\ ~Rejected(p)
    BY <1>3, <2>1, SoundSql
  <2>3. pc \in {"done", "put"} /\ (pc = "put" => run[r].sig # 0)
    OBVIOUS
  <2>4. Become(r, s)
    BY <1>3
  <2> HIDE DEF p, pc
  <2>5. s.pc = pc /\ s.success = TRUE /\ s.out = p
    BY <1>0 DEF RunRecord
  <2>6. s.req = run[r].req /\ s.sig = run[r].sig /\ s.attempts = run[r].attempts
        /\ s.from = run[r].from /\ s.view = run[r].view
    BY <1>0 DEF RunRecord
  <2>7. s \in RunRecord
    BY <1>0, <2>2, <2>3 DEF RunRecord
  <2> HIDE DEF s
  <2>8. GoodRun(s)
    BY <1>0, <2>1, <2>2, <2>3, <2>5, <2>6, Here DEF GoodRun, Early
  <2> QED
    BY <1>0, <2>4, <2>6, <2>7, <2>8, RunInv
<1> QED
  BY <1>1, <1>2, <1>3 DEF Attempt

LEMMA NextPutCached == ASSUME IInv, NEW r \in Runs, PutCached(r) PROVE IInv'
<1>0. run[r] \in RunRecord /\ run[r].pc = "put" /\ ~At(r, "done") /\ file' \in 0..MaxVersion
      /\ UNCHANGED <<live, file>>
  BY Here DEF PutCached, At
<1>1. CASE /\ cache' = [cache EXCEPT ![Key(r)] = Row(r)]
           /\ Become(r, [run[r] EXCEPT !.pc = "done"])
  <2> DEFINE s == [run[r] EXCEPT !.pc = "done"]
  <2>1. /\ s.pc = "done" /\ s.success = run[r].success /\ s.out = run[r].out
        /\ s.req = run[r].req /\ s.sig = run[r].sig /\ s.attempts = run[r].attempts
        /\ s.from = run[r].from /\ s.view = run[r].view /\ s \in RunRecord
    BY <1>0 DEF RunRecord
  <2>2. Become(r, s)
    BY <1>1
  <2> HIDE DEF s
  <2>3. GoodRun(s)
    BY <1>0, <2>1, Here DEF GoodRun, Early
  <2>4. GoodHit(s)
    BY <2>1, Here DEF GoodHit
  <2>5. Row(r).sql = run[r].out /\ Row(r).by = r /\ Row(r) = [sql |-> run[r].out, by |-> r]
    BY DEF Row
  <2>6. run[r].out \in Sqls /\ ~Rejected(run[r].out) /\ ~run[r].req.revision
    BY <1>0, Here DEF GoodRun, RunRecord
  <2>7. Row(r) \in Rows
    BY <2>5, <2>6 DEF Rows
  <2>8. GoodRow(Key(r), Row(r))
    BY <2>5, <2>6 DEF GoodRow, Asked, Key
  <2>9. cache' \in [Keys -> Rows \cup {NoRow}] /\ \A k \in Keys : GoodRow(k, cache'[k])
    BY <1>1, <2>7, <2>8, Here
  <2> QED
    BY <1>0, <2>1, <2>2, <2>3, <2>4, <2>9, BecomeInv
<1>2. CASE Raise(r) /\ UNCHANGED cache
  BY <1>0, <1>2, RaiseInv
<1> QED
  BY <1>1, <1>2 DEF PutCached

LEMMA NextIInv == ASSUME IInv, [Next]_vars PROVE IInv'
<1>1. CASE UNCHANGED vars
  BY <1>1 DEF vars, IInv, TypeOK, GoodRun, GoodHit, GoodRow, Asked
<1>2. CASE Next
  BY <1>2, NextWorld, NextReadRequest, NextRetrieve, NextLookup, NextCacheGet, NextBumpHit,
     NextAttempt, NextPutCached DEF Next
<1> QED
  BY <1>1, <1>2

LEMMA Invariance == Spec => []IInv
<1>1. IInv /\ [Next]_vars => IInv'
  BY NextIInv
<1> QED
  BY <1>1, InitIInv, PTL DEF Spec

\* The variables of runs, cache and file keep their types; no run uses the cache
\* without a signature or validates without a schema, and none makes a success of
\* nothing.
THEOREM Typing == Spec => []TypeOK
<1>1. IInv => TypeOK
  BY DEF IInv
<1> QED
  BY <1>1, Invariance, PTL

\* Whatever run_pipeline reports as a success was accepted by all its validators
\* against the schema the run itself retrieved, even when it came from the cache.
THEOREM Validity == Spec => []ReportedSqlValid
<1>1. IInv => ReportedSqlValid
  BY DEF IInv, GoodRun, ReportedSqlValid
<1> QED
  BY <1>1, Invariance, PTL

\* What guardrail or sandbox refused, or what did not parse, is neither in
\* generated_sql nor in the result cache.
THEOREM NothingRejected == Spec => []RejectedNeverExposed
<1>1. IInv => RejectedNeverExposed
  <2> SUFFICES ASSUME IInv PROVE RejectedNeverExposed
    OBVIOUS
  <2>1. ASSUME NEW k \in Keys PROVE ~Rejected(cache[k].sql)
    <3>1. NoRow.sql = NoSql
      BY DEF NoRow
    <3> QED
      BY <3>1 DEF IInv, GoodRow, Rejected
  <2> QED
    BY <2>1 DEF IInv, GoodRun, RejectedNeverExposed
<1> QED
  BY <1>1, Invariance, PTL

\* The result cache answers a question only with SQL written for that question, and
\* neither with nor for a revision.
THEOREM RightQuestion == Spec => []HitAnswersQuestion
<1>1. IInv => HitAnswersQuestion
  BY DEF IInv, GoodHit, Asked, HitAnswersQuestion
<1> QED
  BY <1>1, Invariance, PTL

\* Once guardrail or sandbox refused a statement the run is over, as a failure.
THEOREM Finality == Spec => []RefusalIsFinal
<1>1. IInv => RefusalIsFinal
  BY DEF IInv, GoodRun, RefusalIsFinal, At
<1> QED
  BY <1>1, Invariance, PTL
=============================================================================

-------------------------- MODULE ObservationProofs --------------------------
(***************************************************************************)
(* What one sees of a job, while it runs (LogStream) and afterwards (Traces). *)
(***************************************************************************)
EXTENDS LogStream, Traces, DataLemmas, SequenceTheorems

-----------------------------------------------------------------------------
(***************************************************************************)
(* LogStream for any number of listeners, lines, runs, cancels, requeues and *)
(* crashes: types; worker streams are exact and complete; inline streams keep *)
(* the order and repeat at most one line.                                  *)
(***************************************************************************)

Unfinished == {"pending", "processing"}

ExecPcs == {"ready", "claimed", "run", "push", "eof", "over", "dead"}
Results == {"success", "transient", "permanent"}
SubPcs  == {"none", "replay", "check", "register", "listen", "eof", "left", "closed",
            "read", "status", "drain"}

Push == [event : Nat, next : Nat, list : BOOLEAN]
Exec == [pc : ExecPcs, result : Results \cup {"none"}, push : Push]
Sub  == [pc : SubPcs, last : Nat, inbox : Seq(Nat), out : Seq(Nat)]

\* The types, and what a listener can have counted.
TypeInv ==
  /\ mode \in {"inline", "worker"}
  /\ status \in Unfinished \cup Final
  /\ lines \in Nat
  /\ exec \in Exec /\ exec.push.event <= lines
  /\ queues \in Seq(Listeners)
  /\ sub \in [Listeners -> Sub]
  /\ counts \in [runs : Nat, cancels : Nat, requeues : Nat, crashes : Nat]
  /\ \A l \in Listeners : /\ sub[l].pc # "left" => sub[l].last <= lines
                          /\ sub[l].pc = "none" => sub[l].last = 0

-----------------------------------------------------------------------------
(* The helpers.                                                            *)

LEMMA IdleType ==
  ASSUME NEW pc \in ExecPcs
  PROVE  Idle(pc) \in Exec /\ Idle(pc).pc = pc /\ Idle(pc).push.event = 0
BY DEF Idle, NoPush, EOF, Exec, Push

LEMMA PushingType ==
  ASSUME exec \in Exec, NEW e \in Nat, NEW pc \in ExecPcs
  PROVE  /\ Pushing(e, pc) \in Exec
         /\ Pushing(e, pc).pc = pc /\ Pushing(e, pc).result = exec.result
         /\ Pushing(e, pc).push.event = e
<1> DEFINE push == [NoPush EXCEPT !.event = e]
<1>1. push \in Push /\ push.event = e
  BY DEF NoPush, Push, EOF
<1>2. Pushing(e, pc) = [exec EXCEPT !.pc = pc, !.push = push]
  BY DEF Pushing
<1> HIDE DEF push
<1> QED
  BY <1>1, <1>2 DEF Exec

\* The lookup of the list changes neither the event nor its place.
LEMMA PushBeginType ==
  ASSUME exec \in Exec, NEW p, PushBegin(p)
  PROVE  /\ exec' \in Exec /\ exec'.pc = exec.pc /\ exec'.push.event = exec.push.event
         /\ exec.push.next = 0 /\ exec'.push.next = 1
<1> DEFINE list == queues # <<>>
           push == [exec.push EXCEPT !.next = 1, !.list = list]
<1>1. push \in Push /\ push.event = exec.push.event /\ push.next = 1
  <2>1. exec.push \in Push /\ list \in BOOLEAN
    BY DEF Exec
  <2> HIDE DEF list
  <2> QED
    BY <2>1 DEF Push
<1>2. exec' = [exec EXCEPT !.push = push]
  BY DEF PushBegin
<1> HIDE DEF push
<1> QED
  BY <1>1, <1>2 DEF Exec, PushBegin

LEMMA NewSubType ==
  ASSUME NEW pc \in SubPcs
  PROVE  /\ NewSub(pc) \in Sub /\ NewSub(pc).pc = pc /\ NewSub(pc).last = 0
         /\ NewSub(pc).inbox = <<>> /\ NewSub(pc).out = <<>>
BY DEF NewSub, Sub

LEMMA CountUp ==
  ASSUME NEW n \in Nat, NEW t \in Nat, n <= t
  PROVE  [i \in 1..n |-> i] \o [i \in 1..(t - n) |-> n + i] = [i \in 1..t |-> i]
<1> DEFINE a == [i \in 1..n |-> i]
           b == [i \in 1..(t - n) |-> n + i]
           c == [i \in 1..t |-> i]
<1>1. a \in Seq(Nat) /\ Len(a) = n /\ \A i \in 1..n : a[i] = i
  OBVIOUS
<1>2. t - n \in Nat
  OBVIOUS
<1>3. b \in Seq(Nat) /\ Len(b) = t - n /\ \A i \in 1..(t - n) : b[i] = n + i
  BY <1>2
<1>4. c \in Seq(Nat) /\ Len(c) = t /\ \A i \in 1..t : c[i] = i
  OBVIOUS
<1> HIDE DEF a, b, c
<1>5. a \o b \in Seq(Nat) /\ Len(a \o b) = t
  <2>1. a \o b \in Seq(Nat) /\ Len(a \o b) = Len(a) + Len(b)
    BY <1>1, <1>3, ConcatProperties
  <2> QED
    BY <1>1, <1>3, <2>1
<1>6. ASSUME NEW i \in 1..t PROVE (a \o b)[i] = i
  <2>1. (a \o b)[i] = IF i <= n THEN a[i] ELSE b[i - n]
    BY <1>1, <1>2, <1>3, ConcatProperties
  <2>2. CASE i <= n
    BY <1>1, <2>1, <2>2
  <2>3. CASE i > n
    <3>1. i - n \in 1..(t - n)
      BY <2>3
    <3> QED
      BY <1>3, <2>1, <2>3, <3>1
  <2>4. i <= n \/ i > n
    OBVIOUS
  <2> QED
    BY <2>2, <2>3, <2>4
<1>7. a \o b = c
  BY <1>4, <1>5, <1>6, SeqEqual
<1> QED
  BY <1>7 DEF a, b, c

LEMMA DeliverType ==
  ASSUME NEW s \in Sub, NEW to \in Nat, s.last <= to
  PROVE  /\ Deliver(s, to) \in Sub
         /\ Deliver(s, to).pc = s.pc /\ Deliver(s, to).last = to
         /\ Deliver(s, to).inbox = s.inbox
         /\ s.out = [i \in 1..s.last |-> i] => Deliver(s, to).out = [i \in 1..to |-> i]
<1> DEFINE more == [i \in 1..(to - s.last) |-> s.last + i]
<1>1. s.out \in Seq(Nat) /\ s.last \in Nat /\ to - s.last \in Nat
  BY DEF Sub
<1>2. more \in Seq(Nat) /\ Len(more) = to - s.last
  BY <1>1
<1>3. s.out \o more \in Seq(Nat)
  BY <1>1, <1>2, ConcatProperties
<1>4. Deliver(s, to) = [s EXCEPT !.out = s.out \o more, !.last = to]
  BY DEF Deliver
<1>5. ASSUME s.out = [i \in 1..s.last |-> i] PROVE s.out \o more = [i \in 1..to |-> i]
  BY <1>1, <1>5, CountUp, SMTT(20)
<1> DEFINE o == s.out \o more
<1>6. o \in Seq(Nat) /\ Deliver(s, to) = [s EXCEPT !.out = o, !.last = to]
  BY <1>3, <1>4
<1>7. s.out = [i \in 1..s.last |-> i] => o = [i \in 1..to |-> i]
  BY <1>5
<1> HIDE DEF more, o
<1>8. Deliver(s, to) \in Sub /\ Deliver(s, to).pc = s.pc /\ Deliver(s, to).last = to
      /\ Deliver(s, to).inbox = s.inbox /\ Deliver(s, to).out = o
  BY <1>6 DEF Sub
<1> QED
  BY <1>7, <1>8

\* One step of a listener.
LEMMA SubStep ==
  ASSUME TypeInv, NEW l \in Listeners, NEW s \in Sub, SetSub(l, s)
  PROVE  sub' \in [Listeners -> Sub] /\ \A m \in Listeners : sub'[m] = IF m = l THEN s ELSE sub[m]
BY DEF TypeInv, SetSub

LEMMA WithoutType ==
  ASSUME NEW S, NEW s \in Seq(S), NEW i \in DOMAIN s
  PROVE  /\ Without(s, i) \in Seq(S) /\ Len(Without(s, i)) = Len(s) - 1
         /\ \A k \in DOMAIN Without(s, i) :
              /\ Without(s, i)[k] = s[IF k < i THEN k ELSE k + 1]
              /\ (IF k < i THEN k ELSE k + 1) \in DOMAIN s
<1>1. Len(s) - 1 \in Nat
  OBVIOUS
<1> QED
  BY <1>1 DEF Without

-----------------------------------------------------------------------------
(* Types.                                                                  *)

LEMMA InitTypes == Init => TypeInv
<1> SUFFICES ASSUME Init PROVE TypeInv
  OBVIOUS
<1>1. exec \in Exec /\ exec.push.event = 0
  BY IdleType DEF Init, ExecPcs
<1>2. sub \in [Listeners -> Sub]
  BY NewSubType DEF Init, SubPcs
<1>3. \A l \in Listeners : sub[l] = NewSub("none") /\ sub[l].last = 0
  BY NewSubType DEF Init, SubPcs
<1>4. queues \in Seq(Listeners)
  BY DEF Init
<1> QED
  BY <1>1, <1>2, <1>3, <1>4 DEF Init, TypeInv, Unfinished

\* A step of the executor that appends at most one line keeps the types.
LEMMA ExecTypes ==
  ASSUME TypeInv, exec' \in Exec, exec'.push.event <= lines',
         lines' \in {lines, lines + 1}, status' \in Unfinished \cup Final,
         counts' \in [runs : Nat, cancels : Nat, requeues : Nat, crashes : Nat],
         UNCHANGED <<mode, queues, sub>>
  PROVE  TypeInv'
<1>1. lines' \in Nat /\ lines <= lines'
  BY DEF TypeInv
<1>2. \A l \in Listeners : sub[l].last \in Nat
  BY DEF TypeInv, Sub
<1> QED
  BY <1>1, <1>2 DEF TypeInv

\* A step of one listener keeps the types.
LEMMA ListenerTypes ==
  ASSUME TypeInv, NEW l \in Listeners, NEW s \in Sub, SetSub(l, s),
         s.last <= lines, s.pc # "none",
         exec' \in Exec, exec'.push.event <= lines, queues' \in Seq(Listeners),
         UNCHANGED <<mode, status, lines, counts>>
  PROVE  TypeInv'
<1>1. /\ sub' \in [Listeners -> Sub]
      /\ \A m \in Listeners : sub'[m] = IF m = l THEN s ELSE sub[m]
  BY SubStep
<1> QED
  BY <1>1 DEF TypeInv

LEMMA LogLineTypes ==
  ASSUME TypeInv, NEW result \in Results \cup {"none"}, LogLine(result)
  PROVE  exec' \in Exec /\ exec'.push.event <= lines' /\ lines' = lines + 1
<1>1. lines \in Nat /\ lines + 1 \in Nat
  BY DEF TypeInv
<1>2. CASE mode = "inline"
  <2> DEFINE e == Pushing(lines + 1, "push")
  <2>1. e \in Exec /\ e.push.event = lines + 1
    <3>1. exec \in Exec /\ "push" \in ExecPcs
      BY DEF TypeInv, ExecPcs
    <3> QED
      BY <1>1, <3>1, PushingType
  <2>2. exec' = [e EXCEPT !.result = result] /\ lines' = lines + 1
    BY <1>2 DEF LogLine
  <2> HIDE DEF e
  <2> QED
    BY <1>1, <2>1, <2>2 DEF Exec
<1>3. CASE mode # "inline"
  <2>1. exec' = [exec EXCEPT !.result = result] /\ lines' = lines + 1
    BY <1>3 DEF LogLine
  <2>2. exec.push.event \in Nat
    BY DEF TypeInv, Exec, Push
  <2> QED
    BY <1>1, <2>1, <2>2, SMTT(20) DEF TypeInv, Exec
<1> QED
  BY <1>2, <1>3

LEMMA LeaveTypes ==
  ASSUME TypeInv
  PROVE  Leave \in Exec /\ Leave.push.event = 0
<1>1. EOF \in Nat /\ EOF = 0
  BY DEF EOF
<1>2. Pushing(EOF, "eof") \in Exec /\ Pushing(EOF, "eof").push.event = 0
  <2>1. exec \in Exec /\ "eof" \in ExecPcs
    BY DEF TypeInv, ExecPcs
  <2> QED
    BY <1>1, <2>1, PushingType
<1> QED
  BY <1>2, IdleType DEF Leave, ExecPcs

LEMMA NextTypes == ASSUME TypeInv, [Next]_vars PROVE TypeInv'
<1>t. /\ mode \in {"inline", "worker"} /\ status \in Unfinished \cup Final
      /\ lines \in Nat /\ exec \in Exec /\ exec.push.event \in Nat
      /\ exec.push.event <= lines
      /\ queues \in Seq(Listeners) /\ sub \in [Listeners -> Sub]
      /\ counts \in [runs : Nat, cancels : Nat, requeues : Nat, crashes : Nat]
  BY DEF TypeInv, Exec, Push
<1>i. \A pc \in ExecPcs : Idle(pc) \in Exec /\ Idle(pc).push.event <= lines
  BY <1>t, IdleType
<1>1. CASE Claim
  BY <1>1, <1>i, <1>t, ExecTypes DEF Claim, ExecPcs, Unfinished
<1>2. CASE Start
  BY <1>2, <1>i, <1>t, ExecTypes DEF Start, ExecPcs, Unfinished
<1>3. CASE PipelineLog
  BY <1>3, <1>t, LogLineTypes, ExecTypes DEF PipelineLog
<1>4. ASSUME NEW r \in Results, PipelineEnds(r) PROVE TypeInv'
  <2>1. CASE status = "cancelled"
    <3>1. exec' \in Exec /\ exec'.push.event <= lines'
      BY <1>4, <1>t, <2>1, LeaveTypes DEF PipelineEnds
    <3> QED
      BY <1>4, <1>t, <2>1, <3>1, ExecTypes DEF PipelineEnds
  <2>2. CASE status # "cancelled"
    BY <1>4, <1>t, <2>2, LogLineTypes, ExecTypes DEF PipelineEnds
  <2> QED
    BY <2>1, <2>2
<1>5. CASE FinalWrite
  <2>1. SettledStatus(exec.result) \in Unfinished \cup Final
    BY DEF SettledStatus, Unfinished, Final
  <2>2. exec' \in Exec /\ exec'.push.event <= lines'
    BY <1>5, <1>t, LeaveTypes DEF FinalWrite
  <2> QED
    BY <1>5, <1>t, <2>1, <2>2, ExecTypes DEF FinalWrite
<1>6. CASE Recover
  BY <1>6, <1>i, <1>t, ExecTypes DEF Recover, ExecPcs, Unfinished, Final
<1>7. ASSUME NEW p \in {"push", "eof"}, PushNext(p) PROVE TypeInv'
  <2> DEFINE l == queues[exec.push.next]
             s == [sub[l] EXCEPT !.inbox = Append(@, exec.push.event)]
  <2>1. exec.push.next \in DOMAIN queues
    BY <1>7 DEF PushNext
  <2>2. l \in Listeners
    BY <1>t, <2>1
  <2>3. s \in Sub /\ s.last = sub[l].last /\ s.pc = sub[l].pc
    <3>1. sub[l] \in Sub /\ Append(sub[l].inbox, exec.push.event) \in Seq(Nat)
      BY <1>t, <2>2, SMTT(20) DEF Sub
    <3> DEFINE inbox == Append(sub[l].inbox, exec.push.event)
    <3>2. s = [sub[l] EXCEPT !.inbox = inbox] /\ inbox \in Seq(Nat)
      BY <3>1
    <3> HIDE DEF l, inbox, s
    <3> QED
      BY <3>1, <3>2 DEF Sub
  <2>4. sub' = [sub EXCEPT ![l] = s]
    BY <1>7, <1>t, <2>2 DEF PushNext, Sub
  <2>5. exec' \in Exec /\ exec'.push.event = exec.push.event
    <3> DEFINE push == [exec.push EXCEPT !.next = @ + 1]
    <3>1. push \in Push /\ push.event = exec.push.event
      BY <1>t DEF Exec, Push
    <3>2. exec' = [exec EXCEPT !.push = push]
      BY <1>7, <1>t DEF PushNext, Exec, Push
    <3> HIDE DEF push
    <3> QED
      BY <1>t, <3>1, <3>2 DEF Exec
  <2>6. sub' \in [Listeners -> Sub]
        /\ \A m \in Listeners : sub'[m].last = sub[m].last /\ sub'[m].pc = sub[m].pc
    BY <1>t, <2>2, <2>3, <2>4
  <2> QED
    BY <1>7, <1>t, <2>5, <2>6, ZenonT(40) DEF PushNext, TypeInv
<1>8. ASSUME NEW p \in {"push", "eof"}, NEW q \in {"run", "over"}, PushDone(p, q) PROVE TypeInv'
  <2>1. exec' \in Exec /\ exec'.push.event <= lines
    <3>1. NoPush \in Push /\ NoPush.event = 0
      BY DEF NoPush, Push, EOF
    <3>2. exec' = [exec EXCEPT !.pc = q, !.push = NoPush]
      BY <1>8 DEF PushDone
    <3>3. q \in ExecPcs
      BY DEF ExecPcs
    <3>4. exec' \in Exec /\ exec'.push = NoPush
      BY <1>t, <3>1, <3>2, <3>3 DEF Exec
    <3> QED
      BY <1>t, <3>1, <3>4
  <2> QED
    BY <1>8, <1>t, <2>1, ExecTypes DEF PushDone
<1>20. ASSUME NEW p \in {"push", "eof"}, PushBegin(p) PROVE TypeInv'
  <2>1. exec' \in Exec /\ exec'.push.event <= lines
    BY <1>20, <1>t, PushBeginType
  <2> QED
    BY <1>20, <1>t, <2>1, ExecTypes DEF PushBegin
<1>9. CASE Crash
  <2>1. counts' \in [runs : Nat, cancels : Nat, requeues : Nat, crashes : Nat]
    BY <1>9, <1>t DEF Crash
  <2>2. CASE mode = "worker" /\ exec' = Idle("dead") /\ UNCHANGED <<status, lines, queues, sub>>
    BY <1>9, <1>i, <1>t, <2>1, <2>2, ExecTypes DEF Crash, ExecPcs
  <2>3. CASE /\ mode = "inline"
             /\ status' = IF status \in Final THEN status ELSE "failed"
             /\ exec' = Idle("over") /\ lines' = 0 /\ queues' = <<>>
             /\ sub' = [l \in Listeners |->
                          IF sub[l].pc = "none" THEN sub[l] ELSE [sub[l] EXCEPT !.pc = "left"]]
    <3>1. exec' \in Exec /\ exec'.push.event = 0
      BY <2>3, IdleType DEF ExecPcs
    <3>2. ASSUME NEW l \in Listeners
          PROVE  /\ sub'[l] \in Sub
                 /\ sub'[l].pc = "left" \/ (sub'[l].pc = "none" /\ sub'[l].last = 0)
      <4>1. CASE sub[l].pc = "none"
        BY <1>t, <2>3, <4>1 DEF TypeInv
      <4>2. CASE sub[l].pc # "none"
        BY <1>t, <2>3, <4>2 DEF Sub, SubPcs
      <4> QED
        BY <4>1, <4>2
    <3>3. sub' \in [Listeners -> Sub]
      BY <2>3, <3>2
    <3>4. queues' \in Seq(Listeners) /\ status' \in Unfinished \cup Final /\ mode' = mode
      BY <1>9, <1>t, <2>3 DEF Crash, FailAbandoned, Final
    <3> QED
      BY <1>t, <2>1, <2>3, <3>1, <3>2, <3>3, <3>4 DEF TypeInv
  <2> QED
    BY <1>9, <2>2, <2>3 DEF Crash, FailAbandoned
<1>10. CASE Cancel
  BY <1>10, <1>t, ExecTypes DEF Cancel, Final
<1>11. CASE Requeue
  <2>1. counts' \in [runs : Nat, cancels : Nat, requeues : Nat, crashes : Nat]
    <3>1. counts' = [counts EXCEPT !.requeues = counts.requeues + 1, !.runs = 0]
      BY <1>11 DEF Requeue
    <3>2. counts.requeues + 1 \in Nat
      BY <1>t
    <3> QED
      BY <1>t, <3>1, <3>2
  <2> QED
    BY <1>11, <1>t, <2>1, ExecTypes DEF Requeue, Unfinished
<1>12. ASSUME NEW l \in Listeners,
              \/ Open(l) \/ Read(l) \/ ReadStatus(l) \/ Drain(l) \/ Replay(l)
              \/ Check(l) \/ Register(l) \/ Take(l) \/ Unregister(l)
       PROVE  TypeInv'
  <2>s. /\ sub[l] \in Sub /\ sub[l].last \in Nat
        /\ sub[l].pc # "left" => sub[l].last <= lines
    BY <1>t DEF TypeInv, Sub
  <2>d. ASSUME NEW to \in Nat, sub[l].last <= to, NEW pc \in SubPcs
        PROVE  /\ Deliver(sub[l], to) \in Sub /\ Deliver(sub[l], to).last = to
               /\ Deliver(sub[l], to).pc = sub[l].pc
               /\ [Deliver(sub[l], to) EXCEPT !.pc = pc] \in Sub
               /\ [Deliver(sub[l], to) EXCEPT !.pc = pc].pc = pc
               /\ [Deliver(sub[l], to) EXCEPT !.pc = pc].last = to
    <3>1. Deliver(sub[l], to) \in Sub /\ Deliver(sub[l], to).last = to
          /\ Deliver(sub[l], to).pc = sub[l].pc
      BY <2>s, <2>d, DeliverType
    <3> QED
      BY <2>d, <3>1 DEF Sub
  <2>p. \A pc \in SubPcs : /\ [sub[l] EXCEPT !.pc = pc] \in Sub
                           /\ [sub[l] EXCEPT !.pc = pc].pc = pc
                           /\ [sub[l] EXCEPT !.pc = pc].last = sub[l].last
    BY <2>s DEF Sub
  <2>1. CASE Open(l)
    BY <1>t, <2>1, NewSubType, ListenerTypes DEF Open, SubPcs
  <2>2. CASE Read(l)
    <3> DEFINE s == [Deliver(sub[l], lines) EXCEPT !.pc = "status"]
    <3>1. sub[l].last <= lines /\ "status" \in SubPcs
      BY <2>2, <2>s DEF Read, SubPcs
    <3>2. s \in Sub /\ s.last = lines /\ s.pc = "status"
      BY <1>t, <2>d, <3>1
    <3>3. SetSub(l, s) /\ UNCHANGED <<mode, status, lines, exec, queues, counts>>
      BY <2>2 DEF Read
    <3> HIDE DEF s
    <3> QED
      BY <1>t, <3>2, <3>3, ListenerTypes
  <2>3. CASE ReadStatus(l)
    BY <1>t, <2>3, <2>p, <2>s, ListenerTypes DEF ReadStatus, SubPcs
  <2>4. CASE Drain(l)
    <3> DEFINE s == [Deliver(sub[l], lines) EXCEPT !.pc = "closed"]
    <3>1. sub[l].last <= lines /\ "closed" \in SubPcs
      BY <2>4, <2>s DEF Drain, SubPcs
    <3>2. s \in Sub /\ s.last = lines /\ s.pc = "closed"
      BY <1>t, <2>d, <3>1
    <3>3. SetSub(l, s) /\ UNCHANGED <<mode, status, lines, exec, queues, counts>>
      BY <2>4 DEF Drain
    <3> HIDE DEF s
    <3> QED
      BY <1>t, <3>2, <3>3, ListenerTypes
  <2>5. CASE Replay(l)
    <3>1. CASE sub[l].last < lines
      <4>1. sub[l].last + 1 \in Nat /\ sub[l].last <= sub[l].last + 1 /\ sub[l].last + 1 <= lines
        BY <1>t, <2>s, <3>1
      <4>2. /\ Deliver(sub[l], sub[l].last + 1) \in Sub
            /\ Deliver(sub[l], sub[l].last + 1).last = sub[l].last + 1
            /\ Deliver(sub[l], sub[l].last + 1).pc = "replay"
        BY <2>5, <2>d, <4>1 DEF Replay, SubPcs
      <4> QED
        BY <1>t, <2>5, <3>1, <4>1, <4>2, ListenerTypes DEF Replay
    <3>2. CASE ~(sub[l].last < lines)
      BY <1>t, <2>5, <2>p, <2>s, <3>2, ListenerTypes DEF Replay, SubPcs
    <3> QED
      BY <3>1, <3>2
  <2>6. CASE Check(l)
    BY <1>t, <2>6, <2>p, <2>s, ListenerTypes DEF Check, SubPcs
  <2>7. CASE Register(l)
    <3>1. queues' \in Seq(Listeners)
      BY <1>t, <2>7 DEF Register
    <3> QED
      BY <1>t, <2>7, <2>p, <2>s, <3>1, ListenerTypes DEF Register, SubPcs
  <2>8. CASE Take(l)
    <3> DEFINE e == Head(sub[l].inbox)
               s == [sub[l] EXCEPT !.inbox = Tail(@),
                                   !.pc    = IF e = EOF THEN "eof" ELSE @,
                                   !.out   = IF e = EOF THEN @ ELSE Append(@, e)]
    <3>1. sub[l].inbox # <<>> /\ sub[l].pc = "listen"
      BY <2>8 DEF Take
    <3>2. Tail(sub[l].inbox) \in Seq(Nat) /\ e \in Nat
      BY <2>s, <3>1 DEF Sub
    <3>3. Append(sub[l].out, e) \in Seq(Nat)
      BY <2>s, <3>2 DEF Sub
    <3> HIDE DEF e
    <3>4. s \in Sub /\ s.last = sub[l].last /\ s.pc \in {"eof", "listen"}
      BY <2>s, <3>1, <3>2, <3>3 DEF Sub, SubPcs
    <3>5. SetSub(l, s) /\ UNCHANGED <<mode, status, lines, exec, queues, counts>>
      BY <2>8 DEF Take, e
    <3> HIDE DEF s
    <3> QED
      BY <1>t, <2>s, <3>1, <3>4, <3>5, ListenerTypes
  <2>9. CASE Unregister(l)
    <3>1. PICK i \in DOMAIN queues : queues' = Without(queues, i)
      BY <2>9 DEF Unregister
    <3>2. queues' \in Seq(Listeners)
      BY <1>t, <3>1, WithoutType
    <3> DEFINE s == [sub[l] EXCEPT !.pc = IF @ = "eof" THEN "closed" ELSE "left", !.inbox = <<>>]
    <3>3. s \in Sub /\ s.last = sub[l].last /\ s.pc \in {"closed", "left"} /\ SetSub(l, s)
      <4>1. SetSub(l, s) /\ sub[l].pc \in {"listen", "eof"}
        BY <2>9 DEF Unregister
      <4>2. <<>> \in Seq(Nat)
        OBVIOUS
      <4> QED
        BY <2>s, <4>1, <4>2 DEF Sub, SubPcs
    <3>4. exec' \in Exec /\ exec'.push.event = exec.push.event
      BY <1>t, <2>9 DEF Unregister, Exec, Push
    <3>5. sub[l].pc # "left"
      BY <2>9 DEF Unregister
    <3> HIDE DEF s
    <3> QED
      BY <1>t, <2>9, <2>s, <3>2, <3>3, <3>4, <3>5, ListenerTypes DEF Unregister
  <2> QED
    BY <1>12, <2>1, <2>2, <2>3, <2>4, <2>5, <2>6, <2>7, <2>8, <2>9
<1>13. CASE UNCHANGED vars
  BY <1>13, <1>t DEF vars, TypeInv
<1> QED
  BY <1>1, <1>2, <1>3, <1>4, <1>5, <1>6, <1>7, <1>8, <1>9, <1>10, <1>11, <1>12, <1>13, <1>20
     DEF Next, Execute, Listen, Results

LEMMA Types == Spec => []TypeInv
BY InitTypes, NextTypes, PTL DEF Spec

\* The queue lists, the cache and the listeners keep their types, and a listener
\* that is still connected has not counted more lines than there are.
THEOREM Typing == Spec => []TypeOK
<1>1. TypeInv => TypeOK
  <2> SUFFICES ASSUME TypeInv PROVE TypeOK
    OBVIOUS
  <2>1. exec.push.event \in 0..lines
    BY DEF TypeInv, Exec, Push
  <2>2. \A l \in Listeners : sub[l].last \in Nat
    BY DEF TypeInv, Sub
  <2> QED
    BY <2>1, <2>2 DEF TypeInv, TypeOK, Exec, ExecPcs, Results, Unfinished
<1> QED
  BY <1>1, Types, PTL

-----------------------------------------------------------------------------
(* Worker mode: streams poll the job_logs table.                           *)

WorkerExec == {"ready", "claimed", "run", "dead"}
WorkerSub  == {"none", "read", "status", "drain", "closed"}

Counted(s) == s.out = [i \in 1..s.last |-> i]

WorkerInv ==
  /\ exec.pc \in WorkerExec
  /\ \A l \in Listeners : sub[l].pc \in WorkerSub /\ Counted(sub[l])

\* Nobody cancelled or requeued: a settled job has no executor left, and who
\* saw it settled has seen all its lines, or is about to read them.
Undisturbed == counts.cancels = 0 /\ counts.requeues = 0

SettledInv ==
  Undisturbed =>
    /\ exec.pc # "ready" => status = "processing"
    /\ \A l \in Listeners : /\ sub[l].pc \in {"drain", "closed"} => status \in Final
                            /\ sub[l].pc = "closed" => sub[l].last = lines

\* A step of the executor, of a cancel or a requeue leaves the listeners alone.
LEMMA WorkerExecStep ==
  ASSUME TypeInv, WorkerInv, SettledInv, UNCHANGED sub, exec'.pc \in WorkerExec,
         Undisturbed' => /\ Undisturbed
                         /\ exec'.pc # "ready" => status' = "processing"
                         /\ status \in Final => status' = status /\ lines' = lines
  PROVE  WorkerInv' /\ SettledInv'
BY DEF WorkerInv, SettledInv, Counted, Final

\* A step of a listener leaves everything else alone.
LEMMA WorkerListenerStep ==
  ASSUME TypeInv, WorkerInv, SettledInv, NEW l \in Listeners, NEW s \in Sub, SetSub(l, s),
         UNCHANGED <<mode, status, lines, exec, queues, counts>>,
         s.pc \in WorkerSub, Counted(s),
         Undisturbed => /\ s.pc \in {"drain", "closed"} => status \in Final
                        /\ s.pc = "closed" => s.last = lines
  PROVE  WorkerInv' /\ SettledInv'
<1>1. \A m \in Listeners : sub'[m] = IF m = l THEN s ELSE sub[m]
  BY SubStep
<1> QED
  BY <1>1 DEF WorkerInv, SettledInv, Undisturbed, Counted

LEMMA NextWorker ==
  ASSUME TypeInv, WorkerInv, SettledInv, mode = "worker", [Next]_vars
  PROVE  WorkerInv' /\ SettledInv'
<1>t. /\ lines \in Nat /\ sub \in [Listeners -> Sub]
      /\ counts.cancels \in Nat /\ counts.requeues \in Nat
      /\ \A l \in Listeners : sub[l] \in Sub /\ sub[l].last \in Nat
  BY DEF TypeInv, Sub
<1>w. exec.pc \in WorkerExec /\ \A l \in Listeners : sub[l].pc \in WorkerSub /\ Counted(sub[l])
  BY DEF WorkerInv
<1>b. \A l \in Listeners : sub[l].last <= lines
  BY <1>w DEF TypeInv, WorkerSub
<1>i. \A pc \in WorkerExec : Idle(pc).pc = pc
  BY DEF Idle
<1>p. Undisturbed /\ exec.pc # "ready" => status = "processing"
  BY DEF SettledInv
<1>1. CASE Claim
  <2>1. exec'.pc = "claimed" /\ status' = "processing" /\ status = "pending" /\ UNCHANGED sub
    BY <1>1, <1>i DEF Claim, WorkerExec
  <2>2. Undisturbed' => Undisturbed
    BY <1>1 DEF Claim, Undisturbed, TypeInv
  <2> QED
    BY <2>1, <2>2, WorkerExecStep DEF WorkerExec, Final
<1>2. CASE Start
  <2>1. exec.pc = "claimed" /\ exec'.pc = "run" /\ status' = "processing" /\ UNCHANGED <<sub, counts, lines>>
    BY <1>2, <1>i DEF Start, WorkerExec
  <2> QED
    BY <1>p, <2>1, WorkerExecStep DEF WorkerExec, Final, Undisturbed
<1>3. ASSUME NEW r, LogLine(r), exec.pc = "run", UNCHANGED <<status, sub, counts>>
      PROVE  WorkerInv' /\ SettledInv'
  <2>1. exec'.pc = "run"
    BY <1>3 DEF LogLine, TypeInv, Exec
  <2> QED
    BY <1>3, <1>p, <2>1, WorkerExecStep DEF WorkerExec, Final, Undisturbed
<1>4. ASSUME NEW r \in Results, PipelineEnds(r) PROVE WorkerInv' /\ SettledInv'
  <2>1. CASE status = "cancelled"
    <3>1. exec'.pc = "ready" /\ UNCHANGED <<status, lines, sub, counts>>
      BY <1>4, <1>i, <2>1 DEF PipelineEnds, Leave, WorkerExec
    <3> QED
      BY <3>1, WorkerExecStep DEF WorkerExec, Undisturbed
  <2>2. CASE status # "cancelled"
    BY <1>3, <1>4, <2>2 DEF PipelineEnds
  <2> QED
    BY <2>1, <2>2
<1>5. CASE FinalWrite
  <2>1. exec.pc = "run" /\ exec'.pc = "ready" /\ UNCHANGED <<lines, sub, counts>>
    BY <1>5, <1>i DEF FinalWrite, Leave, WorkerExec
  <2> QED
    BY <1>p, <2>1, WorkerExecStep DEF WorkerExec, Final, Undisturbed
<1>6. CASE Recover
  <2>1. exec.pc = "dead" /\ exec'.pc = "ready" /\ UNCHANGED <<lines, sub, counts>>
    BY <1>6, <1>i DEF Recover, WorkerExec
  <2> QED
    BY <1>p, <2>1, WorkerExecStep DEF WorkerExec, Final, Undisturbed
<1>7. CASE Crash
  <2>1. exec.pc \in {"claimed", "run"} /\ exec'.pc = "dead" /\ UNCHANGED <<status, lines, sub>>
    BY <1>7, <1>i DEF Crash, WorkerExec
  <2>2. Undisturbed' => Undisturbed
    BY <1>7 DEF Crash, Undisturbed, TypeInv
  <2> QED
    BY <1>p, <2>1, <2>2, WorkerExecStep DEF WorkerExec
<1>8. CASE Cancel \/ Requeue
  <2>1. ~Undisturbed'
    <3>1. CASE Cancel
      <4>1. counts'.cancels = counts.cancels + 1
        BY <3>1 DEF Cancel, TypeInv
      <4> QED
        BY <1>t, <4>1 DEF Undisturbed
    <3>2. CASE Requeue
      <4>1. counts'.requeues = counts.requeues + 1
        BY <3>2 DEF Requeue, TypeInv
      <4> QED
        BY <1>t, <4>1 DEF Undisturbed
    <3> QED
      BY <1>8, <3>1, <3>2
  <2> QED
    BY <1>8, <1>w, <2>1, WorkerExecStep DEF Cancel, Requeue
<1>9. ASSUME NEW l \in Listeners, Open(l) PROVE WorkerInv' /\ SettledInv'
  <2>1. Counted(NewSub("read")) /\ NewSub("read") \in Sub /\ NewSub("read").pc = "read"
    BY NewSubType DEF Counted, NewSub, SubPcs
  <2> QED
    BY <1>9, <2>1, WorkerListenerStep DEF Open, WorkerSub
<1>10. ASSUME NEW l \in Listeners, Read(l) PROVE WorkerInv' /\ SettledInv'
  <2> DEFINE d == Deliver(sub[l], lines)
             s == [d EXCEPT !.pc = "status"]
  <2>1. d \in Sub /\ Counted(d)
    <3>1. sub[l] \in Sub /\ lines \in Nat /\ sub[l].last <= lines
      BY <1>b, <1>t
    <3>2. sub[l].out = [i \in 1..sub[l].last |-> i]
      BY <1>w DEF Counted
    <3>3. d \in Sub /\ d.last = lines /\ d.out = [i \in 1..lines |-> i]
      BY <3>1, <3>2, DeliverType
    <3> HIDE DEF d
    <3> QED
      BY <3>3 DEF Counted
  <2>2. SetSub(l, s) /\ UNCHANGED <<mode, status, lines, exec, queues, counts>>
    BY <1>10 DEF Read
  <2> HIDE DEF d
  <2>3. s \in Sub /\ s.pc = "status" /\ Counted(s)
    BY <2>1 DEF Sub, SubPcs, Counted
  <2> HIDE DEF s
  <2> QED
    BY <2>2, <2>3, WorkerListenerStep DEF WorkerSub
<1>11. ASSUME NEW l \in Listeners, ReadStatus(l) PROVE WorkerInv' /\ SettledInv'
  <2> DEFINE pc == IF status \in Final THEN "drain" ELSE "read"
             s == [sub[l] EXCEPT !.pc = pc]
  <2>1. SetSub(l, s) /\ UNCHANGED <<mode, status, lines, exec, queues, counts>>
    BY <1>11 DEF ReadStatus
  <2>2. pc = "read" \/ (pc = "drain" /\ status \in Final)
    OBVIOUS
  <2> HIDE DEF pc
  <2>3. s \in Sub /\ s.pc = pc /\ Counted(s)
    BY <1>t, <1>w, <2>2 DEF Sub, SubPcs, Counted
  <2> HIDE DEF s
  <2> QED
    BY <2>1, <2>2, <2>3, WorkerListenerStep DEF WorkerSub
<1>12. ASSUME NEW l \in Listeners, Drain(l) PROVE WorkerInv' /\ SettledInv'
  <2> DEFINE d == Deliver(sub[l], lines)
             s == [d EXCEPT !.pc = "closed"]
  <2>1. d \in Sub /\ Counted(d) /\ d.last = lines
    <3>1. sub[l] \in Sub /\ lines \in Nat /\ sub[l].last <= lines
      BY <1>b, <1>t
    <3>2. sub[l].out = [i \in 1..sub[l].last |-> i]
      BY <1>w DEF Counted
    <3>3. d \in Sub /\ d.last = lines /\ d.out = [i \in 1..lines |-> i]
      BY <3>1, <3>2, DeliverType
    <3> HIDE DEF d
    <3> QED
      BY <3>3 DEF Counted
  <2>2. SetSub(l, s) /\ UNCHANGED <<mode, status, lines, exec, queues, counts>>
    BY <1>12 DEF Drain
  <2> HIDE DEF d
  <2>3. s \in Sub /\ s.pc = "closed" /\ Counted(s) /\ s.last = lines
    BY <2>1 DEF Sub, SubPcs, Counted
  <2>4. Undisturbed => status \in Final
    BY <1>12 DEF SettledInv, Drain
  <2> HIDE DEF s
  <2> QED
    BY <2>2, <2>3, <2>4, WorkerListenerStep DEF WorkerSub
<1>13. ASSUME NEW p \in {"push", "eof"}, NEW q, PushBegin(p) \/ PushNext(p) \/ PushDone(p, q)
       PROVE  FALSE
  BY <1>13, <1>w DEF PushBegin, PushNext, PushDone, WorkerExec
<1>14. ASSUME NEW l \in Listeners,
              Replay(l) \/ Check(l) \/ Register(l) \/ Take(l) \/ Unregister(l)
       PROVE  FALSE
  BY <1>14, <1>w DEF Replay, Check, Register, Take, Unregister, WorkerSub
<1>15. CASE PipelineLog
  BY <1>3, <1>15 DEF PipelineLog
<1>16. CASE UNCHANGED vars
  BY <1>16 DEF vars, WorkerInv, SettledInv, Undisturbed, Counted
<1> QED
  BY <1>1, <1>2, <1>4, <1>5, <1>6, <1>7, <1>8, <1>9, <1>10, <1>11, <1>12, <1>13,
     <1>14, <1>15, <1>16
     DEF Next, Execute, Listen, Results

LEMMA Worker == Spec => [](mode = "worker" => WorkerInv /\ SettledInv)
<1>1. Init => (mode = "worker" => WorkerInv /\ SettledInv)
  <2> SUFFICES ASSUME Init PROVE WorkerInv /\ SettledInv
    OBVIOUS
  <2>1. \A l \in Listeners : sub[l].pc = "none" /\ Counted(sub[l])
    BY DEF Init, NewSub, Counted
  <2>2. exec.pc = "ready"
    BY DEF Init, Idle
  <2> QED
    BY <2>1, <2>2 DEF WorkerInv, SettledInv, WorkerExec, WorkerSub
<1>2. TypeInv /\ (mode = "worker" => WorkerInv /\ SettledInv) /\ [Next]_vars
        => (mode = "worker" => WorkerInv /\ SettledInv)'
  <2> SUFFICES ASSUME TypeInv, mode = "worker" => WorkerInv /\ SettledInv, [Next]_vars,
                      mode' = "worker"
               PROVE  WorkerInv' /\ SettledInv'
    OBVIOUS
  <2>1. mode = "worker"
    BY DEF Next, Execute, Listen, vars, Claim, Start, PipelineLog, PipelineEnds, FinalWrite,
           Recover, PushBegin, PushNext, PushDone, Crash, Cancel, Requeue, Open, Read, ReadStatus, Drain,
           Replay, Check, Register, Take, Unregister
  <2> QED
    BY <2>1, NextWorker
<1> QED
  BY <1>1, <1>2, Types, PTL DEF Spec

\* A worker-mode listener has seen every line up to some line exactly once and
\* in order, whatever the executor, crashes, cancels and requeues do.
THEOREM Exact == Spec => []WorkerStreamExact
<1>1. (mode = "worker" => WorkerInv /\ SettledInv) => WorkerStreamExact
  BY DEF WorkerInv, WorkerStreamExact, Counted
<1> QED
  BY <1>1, Worker, PTL

\* A worker-mode stream that the server ended delivered every line, unless the
\* job was cancelled or requeued.
THEOREM Complete == Spec => []WorkerStreamComplete
<1>1. (mode = "worker" => WorkerInv /\ SettledInv) => WorkerStreamComplete
  BY DEF SettledInv, Undisturbed, WorkerStreamComplete, Closed
<1> QED
  BY <1>1, Worker, PTL

-----------------------------------------------------------------------------
(* Inline mode: lines are replayed from the cache, then pushed.            *)

Unregistered == {"none", "replay", "check", "register"}

\* Each line once and in order; only the k-th may come again, right after itself.
Rising(w, k) ==
  \A i, j \in DOMAIN w :
    i < j /\ w[j] # EOF => w[i] <= w[j] /\ (w[i] = w[j] => i = k /\ j = k + 1)

\* What a listener has, and then what waits in its queue.
Coming(s) == s.out \o s.inbox

\* Event e may be put into the queue of listener s.
CanTake(s, e) ==
  \A i \in DOMAIN Coming(s) :
    Coming(s)[i] <= e /\ (Coming(s)[i] = e => i = s.last /\ Len(Coming(s)) = s.last)

InlineSub(s, n) ==
  /\ s.pc \notin {"read", "status", "drain"}
  /\ s.pc \in Unregistered => s.inbox = <<>> /\ Counted(s)
  /\ Rising(s.out, s.last) /\ \A i \in DOMAIN s.out : s.out[i] # EOF
  /\ s.pc = "listen" =>
       Rising(Coming(s), s.last) /\ \A i \in DOMAIN Coming(s) : Coming(s)[i] <= n

\* The executor pushes the newest line; a queue is registered once, by a listener
\* that is still reading it; and who is still to get that line can take it.
InlineInv ==
  /\ exec.pc = "push" => exec.push.event = lines
  /\ exec.pc = "eof" => exec.push.event = EOF
  /\ \A l \in Listeners : InlineSub(sub[l], lines)
  /\ \A i \in DOMAIN queues : sub[queues[i]].pc \in {"listen", "eof"}
  /\ \A i, j \in DOMAIN queues : queues[i] = queues[j] => i = j
  /\ \A i \in DOMAIN queues :
       exec.pc = "push" /\ i >= exec.push.next /\ sub[queues[i]].pc = "listen" =>
         CanTake(sub[queues[i]], exec.push.event)

LEMMA ComingSeq ==
  ASSUME NEW s \in Sub
  PROVE  /\ Coming(s) \in Seq(Nat)
         /\ Len(Coming(s)) = Len(s.out) + Len(s.inbox)
         /\ s.inbox = <<>> => Coming(s) = s.out
<1>1. s.out \in Seq(Nat) /\ s.inbox \in Seq(Nat)
  BY DEF Sub
<1>2. s.out \o <<>> = s.out
  BY <1>1, ConcatEmptySeq
<1> QED
  BY <1>1, <1>2, ConcatProperties DEF Coming

LEMMA CountedRises ==
  ASSUME NEW s \in Sub, Counted(s)
  PROVE  Rising(s.out, s.last) /\ \A i \in DOMAIN s.out : s.out[i] = i /\ i \in 1..s.last
BY DEF Rising, Counted, Sub, EOF

LEMMA RisingAppend ==
  ASSUME NEW s \in Sub, Rising(Coming(s), s.last), NEW e \in Nat, e = EOF \/ CanTake(s, e)
  PROVE  Rising(Append(Coming(s), e), s.last)
<1> DEFINE w == Coming(s)
           v == Append(w, e)
<1>1. w \in Seq(Nat) /\ s.last \in Nat
  BY ComingSeq DEF Sub
<1>2. CanTake(s, e) <=> \A i \in DOMAIN w : w[i] <= e /\ (w[i] = e => i = s.last /\ Len(w) = s.last)
  BY DEF CanTake
<1>3. Rising(w, s.last)
  OBVIOUS
<1> HIDE DEF w
<1>4. ASSUME NEW i \in DOMAIN v, NEW j \in DOMAIN v, i < j, v[j] # EOF
      PROVE  v[i] <= v[j] /\ (v[i] = v[j] => i = s.last /\ j = s.last + 1)
  <2>1. i \in DOMAIN w /\ v[i] = w[i]
    BY <1>1, <1>4
  <2>2. CASE j \in DOMAIN w
    <3>1. v[j] = w[j]
      BY <1>1, <2>2
    <3> QED
      BY <1>3, <1>4, <2>1, <2>2, <3>1 DEF Rising
  <2>3. CASE j \notin DOMAIN w
    <3>1. j = Len(w) + 1 /\ v[j] = e
      BY <1>1, <2>3
    <3> QED
      BY <1>1, <1>2, <1>4, <2>1, <3>1
  <2> QED
    BY <2>2, <2>3
<1> HIDE DEF v
<1>5. Rising(v, s.last)
  BY <1>4 DEF Rising
<1> QED
  BY <1>5 DEF v, w

LEMMA AppendOutside ==
  ASSUME NEW u \in Seq(Nat), NEW v \in Seq(Nat), NEW e \in Nat
  PROVE  u \o Append(v, e) = Append(u \o v, e)
<1>1. <<e>> \in Seq(Nat) /\ u \o v \in Seq(Nat)
  BY ConcatProperties
<1>2. Append(v, e) = v \o <<e>> /\ Append(u \o v, e) = (u \o v) \o <<e>>
  BY <1>1, AppendIsConcat
<1>3. u \o (v \o <<e>>) = (u \o v) \o <<e>>
  BY <1>1, ConcatAssociative
<1> QED
  BY <1>2, <1>3

\* A listener that has read its queue's head goes on as before.
LEMMA TakeHead ==
  ASSUME NEW s \in Sub, s.inbox # <<>>
  PROVE  Append(s.out, Head(s.inbox)) \o Tail(s.inbox) = Coming(s)
<1> DEFINE b == Append(s.out, Head(s.inbox))
           t == Tail(s.inbox)
           a == b \o t
           n == Len(s.out)
           m == Len(s.inbox)
<1>1. s.out \in Seq(Nat) /\ s.inbox \in Seq(Nat) /\ Len(s.inbox) # 0
  BY DEF Sub
<1>2. /\ Head(s.inbox) = s.inbox[1] /\ Head(s.inbox) \in Nat
      /\ t \in Seq(Nat) /\ Len(t) = m - 1
      /\ \A k \in 1..(m - 1) : t[k] = s.inbox[k + 1]
  BY <1>1, HeadTailProperties
<1>3. /\ b \in Seq(Nat) /\ Len(b) = n + 1
      /\ \A k \in 1..n : b[k] = s.out[k]
      /\ b[n + 1] = s.inbox[1]
  BY <1>1, <1>2
<1>6. n \in Nat /\ m \in Nat
  BY <1>1
<1>5. /\ Coming(s) \in Seq(Nat) /\ Len(Coming(s)) = n + m
      /\ \A k \in 1..Len(Coming(s)) : Coming(s)[k] = IF k <= n THEN s.out[k] ELSE s.inbox[k - n]
  <2>1. /\ s.out \o s.inbox \in Seq(Nat) /\ Len(s.out \o s.inbox) = n + m
        /\ \A k \in 1..(n + m) :
             (s.out \o s.inbox)[k] = IF k <= n THEN s.out[k] ELSE s.inbox[k - n]
    BY <1>1, ConcatProperties
  <2> HIDE DEF n, m
  <2> QED
    BY <2>1 DEF Coming
<1> HIDE DEF b, t, n, m
<1>4. /\ a \in Seq(Nat) /\ Len(a) = n + m
      /\ \A k \in 1..Len(a) : a[k] = IF k <= n + 1 THEN b[k] ELSE t[k - (n + 1)]
  <2>1. Len(b) + Len(t) = n + m
    BY <1>2, <1>3, <1>6
  <2>2. /\ a \in Seq(Nat) /\ Len(a) = Len(b) + Len(t)
        /\ \A k \in 1..(Len(b) + Len(t)) : a[k] = IF k <= Len(b) THEN b[k] ELSE t[k - Len(b)]
    BY <1>2, <1>3, ConcatProperties
  <2> HIDE DEF a
  <2> QED
    BY <1>3, <2>1, <2>2
<1> HIDE DEF a
<1>7. ASSUME NEW k \in 1..Len(a) PROVE a[k] = Coming(s)[k]
  <2>k. k \in Nat /\ k >= 1 /\ k <= n + m /\ k \in 1..Len(a) /\ k \in 1..Len(Coming(s))
    BY <1>4, <1>5, <1>6
  <2>1. CASE k <= n
    <3>1. k \in 1..n /\ k <= n + 1
      BY <1>6, <2>1, <2>k
    <3>2. a[k] = b[k] /\ Coming(s)[k] = s.out[k]
      BY <1>4, <1>5, <2>1, <2>k, <3>1
    <3> QED
      BY <1>3, <3>1, <3>2
  <2>2. CASE k = n + 1
    <3>1. ~(k <= n) /\ k <= n + 1 /\ k - n = 1
      BY <1>6, <2>2
    <3>2. a[k] = b[k] /\ Coming(s)[k] = s.inbox[1]
      BY <1>4, <1>5, <2>k, <3>1
    <3> QED
      BY <1>3, <2>2, <3>2
  <2>3. CASE k > n + 1
    <3>1. k - (n + 1) \in 1..(m - 1) /\ k - (n + 1) + 1 = k - n
      BY <1>4, <1>6, <2>3
    <3>3. ~(k <= n) /\ ~(k <= n + 1)
      BY <1>6, <2>3, <2>k
    <3>2. a[k] = t[k - (n + 1)] /\ Coming(s)[k] = s.inbox[k - n]
      BY <1>4, <1>5, <2>k, <3>3
    <3> QED
      BY <1>2, <3>1, <3>2
  <2> QED
    BY <1>4, <1>6, <2>1, <2>2, <2>3
<1>8. a = Coming(s)
  BY <1>4, <1>5, <1>7, SeqEqual
<1> QED
  BY <1>8 DEF a, b, t

LEMMA RisingFront ==
  ASSUME NEW u \in Seq(Nat), NEW v \in Seq(Nat), NEW k \in Nat, Rising(u \o v, k)
  PROVE  Rising(u, k)
<1>1. /\ \A i \in DOMAIN u : i \in DOMAIN (u \o v) /\ (u \o v)[i] = u[i]
  BY ConcatProperties
<1> QED
  BY <1>1 DEF Rising

\* A step of the executor that leaves listeners and queues alone.
LEMMA InlineExecStep ==
  ASSUME TypeInv, InlineInv, UNCHANGED <<sub, queues>>, lines' \in {lines, lines + 1},
         exec'.pc = "push" => exec'.push.event = lines' /\ lines' = lines + 1,
         exec'.pc = "eof" => exec'.push.event = EOF
  PROVE  InlineInv'
<1>1. lines \in Nat /\ lines <= lines' /\ lines' \in Nat
  BY DEF TypeInv
<1>2. ASSUME NEW l \in Listeners PROVE InlineSub(sub[l], lines')
  <2>1. Coming(sub[l]) \in Seq(Nat) /\ InlineSub(sub[l], lines)
    BY ComingSeq DEF TypeInv, InlineInv
  <2> QED
    BY <1>1, <2>1 DEF InlineSub
<1>3. ASSUME NEW i \in DOMAIN queues, exec'.pc = "push", sub[queues[i]].pc = "listen"
      PROVE  CanTake(sub[queues[i]], exec'.push.event)
  <2> DEFINE l == queues[i]
  <2>1. l \in Listeners
    BY DEF TypeInv
  <2>2. Coming(sub[l]) \in Seq(Nat) /\ InlineSub(sub[l], lines) /\ sub[l].pc = "listen"
    BY <1>3, <2>1, ComingSeq DEF TypeInv, InlineInv
  <2>4. \A k \in DOMAIN Coming(sub[l]) : Coming(sub[l])[k] \in Nat
    BY <2>2
  <2> HIDE DEF l
  <2>3. \A k \in DOMAIN Coming(sub[l]) : Coming(sub[l])[k] \in Nat /\ Coming(sub[l])[k] <= lines
    BY <2>2, <2>4 DEF InlineSub
  <2>5. \A k \in DOMAIN Coming(sub[l]) :
          Coming(sub[l])[k] <= exec'.push.event /\ Coming(sub[l])[k] # exec'.push.event
    <3>1. exec'.push.event = lines + 1
      BY <1>3
    <3>2. ASSUME NEW n \in Nat, n <= lines PROVE n <= lines + 1 /\ n # lines + 1
      BY <1>1, <3>2
    <3> QED
      BY <2>3, <3>1, <3>2
  <2>6. CanTake(sub[l], exec'.push.event)
    BY <2>5 DEF CanTake
  <2> QED
    BY <2>6 DEF l
<1> QED
  BY <1>2, <1>3 DEF InlineInv

\* A step of a listener that registers no queue and removes none.
LEMMA InlineListenerStep ==
  ASSUME TypeInv, InlineInv, NEW l \in Listeners, NEW s \in Sub, SetSub(l, s),
         UNCHANGED <<lines, exec, queues>>, InlineSub(s, lines),
         sub[l].pc \in {"listen", "eof"} => s.pc \in {"listen", "eof"},
         s.pc = "listen" => /\ sub[l].pc = "listen" /\ s.last = sub[l].last
                            /\ Coming(s) = Coming(sub[l])
  PROVE  InlineInv'
<1>1. \A m \in Listeners : sub'[m] = IF m = l THEN s ELSE sub[m]
  BY SubStep
<1>2. \A i \in DOMAIN queues : queues[i] \in Listeners
  BY DEF TypeInv
<1>3. \A m \in Listeners : InlineSub(sub'[m], lines)
  BY <1>1 DEF InlineInv
<1>4. \A i \in DOMAIN queues : sub'[queues[i]].pc \in {"listen", "eof"}
  BY <1>1, <1>2 DEF InlineInv
<1>5. ASSUME NEW i \in DOMAIN queues, exec.pc = "push", i >= exec.push.next,
             sub'[queues[i]].pc = "listen"
      PROVE  CanTake(sub'[queues[i]], exec.push.event)
  <2>1. sub[queues[i]].pc = "listen" => CanTake(sub[queues[i]], exec.push.event)
    BY <1>5 DEF InlineInv
  <2> QED
    BY <1>1, <1>2, <1>5, <2>1 DEF CanTake
<1> QED
  BY <1>3, <1>4, <1>5 DEF InlineInv

LEMMA PushNextStep ==
  ASSUME TypeInv, InlineInv, NEW p \in {"push", "eof"}, PushNext(p)
  PROVE  InlineInv'
<1> DEFINE n == exec.push.next
           l == queues[n]
           e == exec.push.event
           s == [sub[l] EXCEPT !.inbox = Append(@, e)]
<1>1. n \in DOMAIN queues /\ n \in Nat /\ e \in Nat /\ e <= lines /\ exec.pc = p
  BY DEF PushNext, TypeInv, Exec, Push
<1>2. l \in Listeners /\ sub[l] \in Sub /\ lines \in Nat
  BY <1>1 DEF TypeInv
<1>3. e = EOF \/ exec.pc = "push"
  BY <1>1 DEF InlineInv
<1>4. /\ \A m \in Listeners : sub'[m] = IF m = l THEN s ELSE sub[m]
      /\ exec'.pc = exec.pc /\ exec'.push.event = e /\ exec'.push.next = n + 1
      /\ UNCHANGED <<lines, queues>>
  BY <1>1, <1>2 DEF PushNext, TypeInv, Exec, Push, Sub
<1>5. /\ s \in Sub /\ s.pc = sub[l].pc /\ s.last = sub[l].last /\ s.out = sub[l].out
      /\ Coming(s) = Append(Coming(sub[l]), e)
  <2>0. sub[l] \in Sub /\ e \in Nat
    BY <1>1, <1>2
  <2> HIDE DEF l, e
  <2>1. sub[l].inbox \in Seq(Nat) /\ sub[l].out \in Seq(Nat)
    BY <2>0 DEF Sub
  <2>2. sub[l].out \o Append(sub[l].inbox, e) = Append(sub[l].out \o sub[l].inbox, e)
    BY <2>0, <2>1, AppendOutside
  <2>3. /\ s \in Sub /\ s.pc = sub[l].pc /\ s.last = sub[l].last /\ s.out = sub[l].out
        /\ s.inbox = Append(sub[l].inbox, e)
    <3> DEFINE x == Append(sub[l].inbox, e)
    <3>1. x \in Seq(Nat)
      BY <2>0, <2>1
    <3>2. s = [sub[l] EXCEPT !.inbox = x]
      BY <2>0 DEF Sub
    <3> HIDE DEF x
    <3>3. /\ s \in Sub /\ s.pc = sub[l].pc /\ s.last = sub[l].last /\ s.out = sub[l].out
          /\ s.inbox = x
      BY <2>0, <3>1, <3>2 DEF Sub
    <3> QED
      BY <3>3 DEF x
  <2> QED
    BY <2>2, <2>3 DEF Coming
<1>6. sub[l].pc \in {"listen", "eof"} /\ InlineSub(sub[l], lines)
  BY <1>1, <1>2 DEF InlineInv
<1>7. e = EOF \/ (sub[l].pc = "listen" => CanTake(sub[l], e))
  BY <1>1, <1>3 DEF InlineInv
<1> HIDE DEF s, l, e, n
<1>8. InlineSub(s, lines)
  <2>1. CASE sub[l].pc = "eof"
    BY <1>5, <1>6, <2>1 DEF InlineSub, Unregistered
  <2>2. CASE sub[l].pc = "listen"
    <3>1. Rising(Coming(sub[l]), sub[l].last) /\ \A i \in DOMAIN Coming(sub[l]) : Coming(sub[l])[i] <= lines
      BY <1>6, <2>2 DEF InlineSub
    <3>2. Rising(Coming(s), s.last)
      BY <1>1, <1>2, <1>5, <1>7, <2>2, <3>1, RisingAppend
    <3>3. Coming(sub[l]) \in Seq(Nat)
      BY <1>2, ComingSeq
    <3>4. \A i \in DOMAIN Coming(s) : Coming(s)[i] <= lines
      <4>1. \A i \in DOMAIN Coming(s) : i \in DOMAIN Coming(sub[l]) \/ i = Len(Coming(sub[l])) + 1
        BY <1>1, <1>5, <3>3
      <4> QED
        BY <1>1, <1>5, <3>1, <3>3, <4>1
    <3> QED
      BY <1>5, <1>6, <2>2, <3>2, <3>4 DEF InlineSub, Unregistered
  <2> QED
    BY <1>6, <2>1, <2>2
<1>9. \A m \in Listeners : InlineSub(sub'[m], lines')
  BY <1>4, <1>8 DEF InlineInv
<1>10. \A i \in DOMAIN queues : queues[i] \in Listeners /\ i \in Nat
  BY DEF TypeInv
<1>11. \A i \in DOMAIN queues : sub'[queues[i]].pc \in {"listen", "eof"}
  BY <1>4, <1>5, <1>10 DEF InlineInv
<1>12. ASSUME NEW i \in DOMAIN queues, exec.pc = "push", i >= n + 1, sub'[queues[i]].pc = "listen"
       PROVE  CanTake(sub'[queues[i]], e)
  <2>1. i # n /\ i >= n
    BY <1>1, <1>10, <1>12
  <2>2. queues[i] # l
    BY <1>1, <2>1 DEF InlineInv, l
  <2> QED
    BY <1>4, <1>10, <1>12, <2>1, <2>2 DEF InlineInv, e, n
<1>13. (exec.pc = "push" => e = lines) /\ (exec.pc = "eof" => e = EOF)
  BY DEF InlineInv, e
<1> QED
  BY <1>4, <1>9, <1>11, <1>12, <1>13 DEF InlineInv

LEMMA RegisterStep ==
  ASSUME TypeInv, InlineInv, NEW l \in Listeners, Register(l)
  PROVE  InlineInv'
<1> DEFINE s == [sub[l] EXCEPT !.pc = "listen"]
<1>1. /\ sub[l] \in Sub /\ sub[l].pc = "register" /\ lines \in Nat /\ queues \in Seq(Listeners)
      /\ sub[l].last \in Nat /\ sub[l].last <= lines
  BY DEF Register, TypeInv, Sub
<1>2. /\ \A m \in Listeners : sub'[m] = IF m = l THEN s ELSE sub[m]
      /\ queues' = Append(queues, l)
      /\ UNCHANGED <<lines, exec>>
  BY DEF Register, SetSub, TypeInv
<1>3. /\ s \in Sub /\ s.pc = "listen" /\ s.last = sub[l].last /\ s.out = sub[l].out
      /\ s.inbox = <<>> /\ Counted(s)
  <2>1. sub[l].inbox = <<>> /\ Counted(sub[l])
    BY <1>1 DEF InlineInv, InlineSub, Unregistered
  <2> QED
    BY <1>1, <2>1 DEF Sub, SubPcs, Counted
<1> HIDE DEF s
<1>4. /\ Coming(s) = s.out /\ Rising(s.out, s.last)
      /\ \A i \in DOMAIN s.out : s.out[i] = i /\ i \in 1..s.last
  BY <1>3, ComingSeq, CountedRises
<1>5. InlineSub(s, lines)
  <2>1. \A i \in DOMAIN s.out : s.out[i] <= lines /\ s.out[i] # EOF
    BY <1>1, <1>3, <1>4 DEF EOF
  <2> QED
    BY <1>3, <1>4, <2>1 DEF InlineSub, Unregistered
<1>6. CanTake(s, lines)
  <2>1. Len(s.out) = s.last
    BY <1>1, <1>3 DEF Counted
  <2> QED
    BY <1>1, <1>3, <1>4, <2>1 DEF CanTake
<1>7. \A i \in DOMAIN queues : queues[i] \in Listeners /\ queues[i] # l
  <2>1. \A i \in DOMAIN queues : sub[queues[i]].pc # "register"
    BY DEF InlineInv
  <2> QED
    BY <1>1, <2>1
<1>8. /\ DOMAIN queues' = DOMAIN queues \cup {Len(queues) + 1}
      /\ \A i \in DOMAIN queues : queues'[i] = queues[i]
      /\ queues'[Len(queues) + 1] = l
  BY <1>1, <1>2
<1>9. \A m \in Listeners : InlineSub(sub'[m], lines)
  BY <1>2, <1>5 DEF InlineInv
<1>10. \A i \in DOMAIN queues' : sub'[queues'[i]].pc \in {"listen", "eof"}
  BY <1>2, <1>3, <1>7, <1>8 DEF InlineInv
<1>11. \A i, j \in DOMAIN queues' : queues'[i] = queues'[j] => i = j
  BY <1>7, <1>8 DEF InlineInv
<1>12. ASSUME NEW i \in DOMAIN queues', exec.pc = "push", i >= exec.push.next,
              sub'[queues'[i]].pc = "listen"
       PROVE  CanTake(sub'[queues'[i]], exec.push.event)
  <2>1. exec.push.event = lines
    BY <1>12 DEF InlineInv
  <2>2. CASE i \in DOMAIN queues
    BY <1>2, <1>7, <1>8, <1>12, <2>2 DEF InlineInv
  <2>3. CASE i = Len(queues) + 1
    BY <1>2, <1>6, <1>8, <2>1, <2>3
  <2> QED
    BY <1>8, <2>2, <2>3
<1> QED
  BY <1>2, <1>9, <1>10, <1>11, <1>12 DEF InlineInv

LEMMA UnregisterStep ==
  ASSUME TypeInv, InlineInv, NEW l \in Listeners, Unregister(l)
  PROVE  InlineInv'
<1> DEFINE s == [sub[l] EXCEPT !.pc = IF @ = "eof" THEN "closed" ELSE "left", !.inbox = <<>>]
<1>1. /\ sub[l] \in Sub /\ sub[l].pc \in {"listen", "eof"} /\ queues \in Seq(Listeners)
      /\ InlineSub(sub[l], lines)
  BY DEF Unregister, TypeInv, InlineInv
<1>2. /\ \A m \in Listeners : sub'[m] = IF m = l THEN s ELSE sub[m]
      /\ UNCHANGED lines
      /\ exec'.pc = exec.pc /\ exec'.push.event = exec.push.event /\ exec'.push.next = exec.push.next
  BY DEF Unregister, SetSub, TypeInv, Exec, Push
<1>3. PICK i \in DOMAIN queues : queues[i] = l /\ queues' = Without(queues, i)
  BY DEF Unregister
<1>4. s \in Sub /\ s.pc \in {"closed", "left"} /\ s.last = sub[l].last /\ s.out = sub[l].out
  <2>1. <<>> \in Seq(Nat)
    OBVIOUS
  <2> QED
    BY <1>1, <2>1 DEF Sub, SubPcs
<1> HIDE DEF s
<1>5. InlineSub(s, lines)
  BY <1>1, <1>4 DEF InlineSub, Unregistered
<1> DEFINE old(k) == IF k < i THEN k ELSE k + 1
<1>6. \A k \in DOMAIN queues' : queues'[k] = queues[old(k)] /\ old(k) \in DOMAIN queues
  BY <1>1, <1>3, WithoutType
<1>7. \A k \in DOMAIN queues' : k \in Nat
  <2> HIDE DEF old
  <2>1. Without(queues, i) \in Seq(Listeners)
    BY <1>1, <1>3, WithoutType
  <2>2. ASSUME NEW q \in Seq(Listeners)
        PROVE  \A k \in DOMAIN q : k \in Nat
    OBVIOUS
  <2> QED
    BY <1>3, <2>1, <2>2
<1>8. i \in Nat /\ exec.push.next \in Nat
  BY <1>1, <1>3 DEF TypeInv, Exec, Push
<1>9. /\ \A k \in DOMAIN queues' : old(k) # i /\ old(k) >= k
      /\ \A j, k \in DOMAIN queues' : old(j) = old(k) => j = k
  BY <1>7, <1>8
<1> HIDE DEF old
<1>10. \A k \in DOMAIN queues' : queues'[k] \in Listeners /\ queues'[k] # l
  BY <1>1, <1>3, <1>6, <1>9 DEF InlineInv
<1>11. \A m \in Listeners : InlineSub(sub'[m], lines)
  BY <1>2, <1>5 DEF InlineInv
<1>12. \A k \in DOMAIN queues' : sub'[queues'[k]].pc \in {"listen", "eof"}
  BY <1>2, <1>6, <1>10 DEF InlineInv
<1>13. \A j, k \in DOMAIN queues' : queues'[j] = queues'[k] => j = k
  BY <1>6, <1>9 DEF InlineInv
<1>14. ASSUME NEW k \in DOMAIN queues', exec.pc = "push", k >= exec.push.next,
              sub'[queues'[k]].pc = "listen"
       PROVE  CanTake(sub'[queues'[k]], exec.push.event)
  <2>1. old(k) >= exec.push.next
    <3>1. old(k) \in Nat /\ old(k) >= k
      BY <1>1, <1>6, <1>9
    <3> QED
      BY <1>7, <1>8, <1>14, <3>1
  <2> QED
    BY <1>2, <1>6, <1>10, <1>14, <2>1 DEF InlineInv
<1> QED
  BY <1>2, <1>11, <1>12, <1>13, <1>14 DEF InlineInv

LEMMA LogLineStep ==
  ASSUME TypeInv, mode = "inline", NEW r, LogLine(r)
  PROVE  exec'.pc = "push" /\ exec'.push.event = lines' /\ lines' = lines + 1
<1>1. lines + 1 \in Nat /\ exec \in Exec /\ "push" \in ExecPcs
  BY DEF TypeInv, ExecPcs
<1>2. /\ Pushing(lines + 1, "push") \in Exec
      /\ Pushing(lines + 1, "push").pc = "push"
      /\ Pushing(lines + 1, "push").push.event = lines + 1
  BY <1>1, PushingType
<1>3. exec' = [Pushing(lines + 1, "push") EXCEPT !.result = r] /\ lines' = lines + 1
  BY DEF LogLine
<1> QED
  BY <1>2, <1>3 DEF Exec

LEMMA LeaveStep ==
  ASSUME TypeInv, mode = "inline"
  PROVE  Leave.pc = "eof" /\ Leave.push.event = EOF
<1>1. EOF \in Nat /\ exec \in Exec /\ "eof" \in ExecPcs
  BY DEF TypeInv, ExecPcs, EOF
<1>2. Pushing(EOF, "eof").pc = "eof" /\ Pushing(EOF, "eof").push.event = EOF
  BY <1>1, PushingType
<1> QED
  BY <1>2 DEF Leave

LEMMA NextInline ==
  ASSUME TypeInv, InlineInv, mode = "inline", [Next]_vars
  PROVE  InlineInv'
<1>t. /\ lines \in Nat /\ sub \in [Listeners -> Sub] /\ exec \in Exec
      /\ \A l \in Listeners : /\ sub[l] \in Sub /\ sub[l].last \in Nat
                              /\ InlineSub(sub[l], lines)
  BY DEF TypeInv, Sub, InlineInv
<1>i. \A pc \in {"run", "ready"} : Idle(pc).pc = pc
  BY DEF Idle
<1>1. CASE Claim \/ Recover \/ Cancel \/ Requeue
  <2>1. UNCHANGED <<sub, queues, lines>>
    BY <1>1 DEF Claim, Recover, Cancel, Requeue
  <2>2. exec' = exec \/ exec'.pc = "ready"
    BY <1>1, <1>i DEF Claim, Recover, Cancel, Requeue
  <2>3. CASE exec' = exec
    BY <2>1, <2>3 DEF InlineInv
  <2>4. CASE exec'.pc = "ready"
    BY <1>t, <2>1, <2>4, InlineExecStep
  <2> QED
    BY <2>2, <2>3, <2>4
<1>2. CASE Start
  BY <1>2, <1>i, <1>t, InlineExecStep DEF Start
<1>3. CASE PipelineLog
  BY <1>3, <1>t, LogLineStep, InlineExecStep DEF PipelineLog
<1>4. ASSUME NEW r \in Results, PipelineEnds(r) PROVE InlineInv'
  <2>1. CASE status = "cancelled"
    BY <1>4, <1>t, <2>1, LeaveStep, InlineExecStep DEF PipelineEnds
  <2>2. CASE status # "cancelled"
    BY <1>4, <1>t, <2>2, LogLineStep, InlineExecStep DEF PipelineEnds
  <2> QED
    BY <2>1, <2>2
<1>5. CASE FinalWrite
  BY <1>5, <1>t, LeaveStep, InlineExecStep DEF FinalWrite
<1>6. ASSUME NEW p \in {"push", "eof"}, PushNext(p) PROVE InlineInv'
  BY <1>6, PushNextStep
<1>20. ASSUME NEW p \in {"push", "eof"}, PushBegin(p) PROVE InlineInv'
  <2>1. /\ exec'.pc = exec.pc /\ exec'.push.event = exec.push.event
        /\ exec.push.next = 0 /\ exec'.push.next = 1
    BY <1>20, <1>t, PushBeginType
  <2>2. UNCHANGED <<sub, queues, lines>>
    BY <1>20 DEF PushBegin
  <2>3. \A i \in DOMAIN queues : i >= exec.push.next
    BY <2>1 DEF TypeInv
  <2> QED
    BY <2>1, <2>2, <2>3 DEF InlineInv
<1>7. ASSUME NEW p \in {"push", "eof"}, NEW q \in {"run", "over"}, PushDone(p, q) PROVE InlineInv'
  <2>1. exec'.pc = q /\ UNCHANGED <<sub, queues, lines>>
    BY <1>7, <1>t DEF PushDone, Exec
  <2> QED
    BY <1>t, <2>1, InlineExecStep
<1>8. CASE Crash
  <2>1. /\ exec' = Idle("over") /\ queues' = <<>>
        /\ sub' = [l \in Listeners |->
                     IF sub[l].pc = "none" THEN sub[l] ELSE [sub[l] EXCEPT !.pc = "left"]]
    BY <1>8 DEF Crash
  <2>2. exec'.pc = "over"
    BY <2>1 DEF Idle
  <2>3. ASSUME NEW l \in Listeners PROVE InlineSub(sub'[l], lines')
    <3>1. CASE sub[l].pc = "none"
      BY <1>t, <2>1, <3>1 DEF InlineSub
    <3>2. CASE sub[l].pc # "none"
      <4>1. sub'[l].pc = "left" /\ sub'[l].out = sub[l].out /\ sub'[l].last = sub[l].last
        BY <1>t, <2>1, <3>2 DEF Sub
      <4> QED
        BY <1>t, <4>1 DEF InlineSub, Unregistered
    <3> QED
      BY <3>1, <3>2
  <2> QED
    BY <2>1, <2>2, <2>3 DEF InlineInv
<1>9. ASSUME NEW l \in Listeners, Open(l) PROVE InlineInv'
  <2>1. /\ NewSub("replay") \in Sub /\ NewSub("replay").pc = "replay"
        /\ NewSub("replay").inbox = <<>> /\ Counted(NewSub("replay"))
    BY NewSubType DEF Counted, NewSub, SubPcs
  <2>2. InlineSub(NewSub("replay"), lines)
    BY <2>1, CountedRises DEF InlineSub, EOF
  <2> QED
    BY <1>9, <2>1, <2>2, InlineListenerStep DEF Open
<1>10. ASSUME NEW l \in Listeners, Replay(l) PROVE InlineInv'
  <2>0. sub[l].pc = "replay" /\ sub[l].inbox = <<>> /\ Counted(sub[l])
    BY <1>10, <1>t DEF Replay, InlineSub, Unregistered
  <2>1. CASE sub[l].last < lines
    <3> DEFINE d == Deliver(sub[l], sub[l].last + 1)
    <3>1. SetSub(l, d) /\ UNCHANGED <<lines, exec, queues>>
      BY <1>10, <2>1 DEF Replay
    <3>2. sub[l].last + 1 \in Nat /\ sub[l].last <= sub[l].last + 1
      BY <1>t
    <3>3. d \in Sub /\ d.pc = "replay" /\ d.inbox = <<>> /\ Counted(d)
      <4>1. /\ d \in Sub /\ d.pc = sub[l].pc /\ d.inbox = sub[l].inbox
            /\ d.last = sub[l].last + 1
            /\ sub[l].out = [i \in 1..sub[l].last |-> i] =>
                 d.out = [i \in 1..(sub[l].last + 1) |-> i]
        BY <1>t, <3>2, DeliverType
      <4> HIDE DEF d
      <4> QED
        BY <2>0, <4>1 DEF Counted
    <3> HIDE DEF d
    <3>4. InlineSub(d, lines)
      BY <3>3, CountedRises DEF InlineSub, EOF
    <3> QED
      BY <2>0, <3>1, <3>3, <3>4, InlineListenerStep
  <2>2. CASE ~(sub[l].last < lines)
    <3> DEFINE s == [sub[l] EXCEPT !.pc = "check"]
    <3>1. SetSub(l, s) /\ UNCHANGED <<lines, exec, queues>>
      BY <1>10, <2>2 DEF Replay
    <3>2. s \in Sub /\ s.pc = "check" /\ s.inbox = <<>> /\ Counted(s)
      BY <1>t, <2>0 DEF Sub, SubPcs, Counted
    <3> HIDE DEF s
    <3>3. InlineSub(s, lines)
      BY <3>2, CountedRises DEF InlineSub, EOF
    <3> QED
      BY <2>0, <3>1, <3>2, <3>3, InlineListenerStep
  <2> QED
    BY <2>1, <2>2
<1>11. ASSUME NEW l \in Listeners, Check(l) PROVE InlineInv'
  <2> DEFINE pc == IF status \in Final THEN "closed" ELSE "register"
             s == [sub[l] EXCEPT !.pc = pc]
  <2>0. sub[l].pc = "check" /\ sub[l].inbox = <<>> /\ Counted(sub[l])
    BY <1>11, <1>t DEF Check, InlineSub, Unregistered
  <2>1. SetSub(l, s) /\ UNCHANGED <<lines, exec, queues>> /\ pc \in {"closed", "register"}
    BY <1>11 DEF Check
  <2> HIDE DEF pc
  <2>2. s \in Sub /\ s.pc = pc /\ s.inbox = <<>> /\ Counted(s)
    BY <1>t, <2>0, <2>1 DEF Sub, SubPcs, Counted
  <2> HIDE DEF s
  <2>3. InlineSub(s, lines)
    BY <2>1, <2>2, CountedRises DEF InlineSub, EOF
  <2> QED
    BY <2>0, <2>1, <2>2, <2>3, InlineListenerStep
<1>12. ASSUME NEW l \in Listeners, Take(l) PROVE InlineInv'
  <2> DEFINE e == Head(sub[l].inbox)
             s == [sub[l] EXCEPT !.inbox = Tail(@),
                                 !.pc    = IF e = EOF THEN "eof" ELSE @,
                                 !.out   = IF e = EOF THEN @ ELSE Append(@, e)]
  <2>0. sub[l].pc = "listen" /\ sub[l].inbox # <<>> /\ sub[l].inbox \in Seq(Nat)
        /\ sub[l].out \in Seq(Nat) /\ InlineSub(sub[l], lines)
    BY <1>12, <1>t DEF Take, Sub
  <2>1. SetSub(l, s) /\ UNCHANGED <<lines, exec, queues>>
    BY <1>12 DEF Take
  <2>2. Tail(sub[l].inbox) \in Seq(Nat) /\ e \in Nat /\ Append(sub[l].out, e) \in Seq(Nat)
    BY <2>0
  <2>h. Append(sub[l].out, e) \o Tail(sub[l].inbox) = Coming(sub[l])
    BY <1>t, <2>0, TakeHead
  <2> HIDE DEF e
  <2>3. CASE e = EOF
    <3>1. s \in Sub /\ s.pc = "eof" /\ s.out = sub[l].out /\ s.last = sub[l].last
      BY <1>t, <2>2, <2>3 DEF Sub, SubPcs
    <3> HIDE DEF s
    <3>2. InlineSub(s, lines)
      BY <2>0, <3>1 DEF InlineSub, Unregistered
    <3> QED
      BY <2>1, <3>1, <3>2, InlineListenerStep
  <2>4. CASE e # EOF
    <3>1. /\ s \in Sub /\ s.pc = "listen" /\ s.last = sub[l].last
          /\ s.out = Append(sub[l].out, e) /\ s.inbox = Tail(sub[l].inbox)
      BY <1>t, <2>0, <2>2, <2>4 DEF Sub, SubPcs
    <3> HIDE DEF s
    <3>2. Coming(s) = Coming(sub[l])
      BY <2>h, <3>1 DEF Coming
    <3>3. Rising(Coming(s), s.last) /\ \A i \in DOMAIN Coming(s) : Coming(s)[i] <= lines
      BY <2>0, <3>1, <3>2 DEF InlineSub
    <3>4. Rising(s.out, s.last)
      BY <1>t, <2>2, <3>1, <3>3, RisingFront DEF Coming
    <3>5. \A i \in DOMAIN s.out : s.out[i] # EOF
      <4>1. \A i \in DOMAIN sub[l].out : sub[l].out[i] # EOF
        BY <2>0 DEF InlineSub
      <4> QED
        BY <2>0, <2>2, <2>4, <3>1, <4>1
    <3>6. InlineSub(s, lines)
      BY <3>1, <3>3, <3>4, <3>5 DEF InlineSub, Unregistered
    <3> QED
      BY <2>0, <2>1, <3>1, <3>2, <3>6, InlineListenerStep
  <2> QED
    BY <2>3, <2>4
<1>13. ASSUME NEW l \in Listeners, Read(l) \/ ReadStatus(l) \/ Drain(l) PROVE InlineInv'
  BY <1>13, <1>t DEF Read, ReadStatus, Drain, InlineSub
<1>14. CASE UNCHANGED vars
  BY <1>14 DEF vars, InlineInv
<1> QED
  BY <1>1, <1>2, <1>3, <1>4, <1>5, <1>6, <1>7, <1>8, <1>9, <1>10, <1>11, <1>12, <1>13,
     <1>14, <1>20, RegisterStep, UnregisterStep
     DEF Next, Execute, Listen, Results

LEMMA Inline == Spec => [](mode = "inline" => InlineInv)
<1>1. Init => (mode = "inline" => InlineInv)
  <2> SUFFICES ASSUME Init PROVE InlineInv
    OBVIOUS
  <2>1. exec.pc = "ready" /\ queues = <<>>
    BY DEF Init, Idle
  <2>2. ASSUME NEW l \in Listeners PROVE InlineSub(sub[l], lines)
    <3>1. sub[l] \in Sub /\ sub[l].pc = "none" /\ sub[l].inbox = <<>> /\ Counted(sub[l])
      BY NewSubType DEF Init, NewSub, Counted, SubPcs
    <3> QED
      BY <3>1, CountedRises DEF InlineSub, EOF
  <2> QED
    BY <2>1, <2>2 DEF InlineInv
<1>2. TypeInv /\ (mode = "inline" => InlineInv) /\ [Next]_vars => (mode = "inline" => InlineInv)'
  <2> SUFFICES ASSUME TypeInv, mode = "inline" => InlineInv, [Next]_vars, mode' = "inline"
               PROVE  InlineInv'
    OBVIOUS
  <2>1. mode = "inline"
    BY DEF Next, Execute, Listen, vars, Claim, Start, PipelineLog, PipelineEnds, FinalWrite,
           Recover, PushBegin, PushNext, PushDone, Crash, Cancel, Requeue, Open, Read, ReadStatus, Drain,
           Replay, Check, Register, Take, Unregister
  <2> QED
    BY <2>1, NextInline
<1> QED
  BY <1>1, <1>2, Types, PTL DEF Spec

\* An inline listener gets its lines in order, whatever queues come and go while
\* the executor pushes, and at most one line twice: the one that was in the cache
\* when it replayed and was still being pushed when its queue was registered.
THEOREM Ordered == Spec => []InlineStreamOrdered
<1>1. TypeInv /\ (mode = "inline" => InlineInv) => InlineStreamOrdered
  <2> SUFFICES ASSUME TypeInv, InlineInv, NEW l \in Listeners
               PROVE  LET out == sub[l].out IN
                        /\ \A i \in 1..(Len(out) - 1) : out[i] <= out[i + 1]
                        /\ Cardinality({i \in 1..(Len(out) - 1) : out[i] = out[i + 1]}) <= 1
    BY DEF InlineStreamOrdered
  <2> DEFINE out == sub[l].out
             k == sub[l].last
             twice == {i \in 1..(Len(out) - 1) : out[i] = out[i + 1]}
  <2>1. out \in Seq(Nat) /\ k \in Nat /\ Rising(out, k) /\ \A i \in DOMAIN out : out[i] # EOF
    BY DEF TypeInv, InlineInv, InlineSub, Sub
  <2> HIDE DEF out, k
  <2>2. ASSUME NEW i \in 1..(Len(out) - 1)
        PROVE  out[i] <= out[i + 1] /\ (out[i] = out[i + 1] => i = k)
    <3>1. i \in DOMAIN out /\ i + 1 \in DOMAIN out /\ i < i + 1
      BY <2>1
    <3> QED
      BY <2>1, <3>1 DEF Rising
  <2>3. twice \subseteq {k}
    BY <2>2
  <2>4. IsFiniteSet({k}) /\ Cardinality({k}) = 1
    BY FS_Singleton
  <2>5. IsFiniteSet(twice) /\ Cardinality(twice) <= Cardinality({k})
    BY <2>3, <2>4, FS_Subset
  <2>6. Cardinality(twice) <= 1
    BY <2>4, <2>5
  <2> QED
    BY <2>2, <2>6 DEF out
<1> QED
  BY <1>1, Types, Inline, PTL

-----------------------------------------------------------------------------
(***************************************************************************)
(* Traces for any runs, versions and settings: the outcome told, the pages of *)
(* the listing, the change a replay reports.                               *)
(***************************************************************************)

-----------------------------------------------------------------------------
(* Places.  The traces of a finite set with different stamps have the       *)
(* places from the first to the last, the newest the first.                 *)

Stamped(S) ==
  /\ IsFiniteSet(S)
  /\ \A t \in S : t.at \in Nat
  /\ \A t, u \in S : t.at = u.at => t = u

From(S, t) == {u \in S : u.at >= t.at}

LEMMA StampedSubset ==
  ASSUME NEW S, Stamped(S), NEW T, T \subseteq S
  PROVE  Stamped(T)
BY FS_Subset DEF Stamped

LEMMA FromFinite ==
  ASSUME NEW S, Stamped(S), NEW t
  PROVE  /\ IsFiniteSet(From(S, t)) /\ Rank(S, t) = Cardinality(From(S, t))
         /\ Rank(S, t) \in Nat /\ Rank(S, t) <= Cardinality(S) /\ Cardinality(S) \in Nat
<1>1. From(S, t) \in SUBSET S /\ IsFiniteSet(S)
  BY DEF From, Stamped
<1>2. IsFiniteSet(From(S, t)) /\ Cardinality(From(S, t)) <= Cardinality(S)
  BY <1>1, FS_Subset
<1>3. Rank(S, t) = Cardinality(From(S, t))
  BY DEF Rank, From
<1> QED
  BY <1>1, <1>2, <1>3, FS_CardinalityType

LEMMA RankOrder ==
  ASSUME NEW S, Stamped(S), NEW t \in S, NEW u \in S, t.at > u.at
  PROVE  Rank(S, t) < Rank(S, u)
<1>1. From(S, t) \subseteq From(S, u) /\ u \in From(S, u) /\ u \notin From(S, t)
  BY DEF From, Stamped
<1>2. /\ Cardinality(From(S, t)) <= Cardinality(From(S, u))
      /\ Cardinality(From(S, t)) # Cardinality(From(S, u))
  BY <1>1, FromFinite, FS_Subset
<1> QED
  BY <1>2, FromFinite

LEMMA RankOnto ==
  ASSUME NEW S, Stamped(S)
  PROVE  /\ \A t \in S : Rank(S, t) \in 1..Cardinality(S)
         /\ \A t, u \in S : Rank(S, t) = Rank(S, u) => t = u
         /\ \A n \in 1..Cardinality(S) : \E t \in S : Rank(S, t) = n
<1> DEFINE N == 1..Cardinality(S)
           f == [t \in S |-> Rank(S, t)]
<1>1. ASSUME NEW t \in S PROVE Rank(S, t) \in N
  <2>1. t \in From(S, t) /\ IsFiniteSet(From(S, t))
    BY FromFinite DEF From, Stamped
  <2>2. Cardinality(From(S, t)) # 0
    BY <2>1, FS_EmptySet
  <2> QED
    BY <2>2, FromFinite
<1>2. ASSUME NEW t \in S, NEW u \in S, Rank(S, t) = Rank(S, u) PROVE t = u
  <2>1. t.at \in Nat /\ u.at \in Nat /\ (t.at = u.at => t = u)
    BY DEF Stamped
  <2>2. ~(t.at > u.at) /\ ~(u.at > t.at)
    BY <1>2, FromFinite, RankOrder
  <2> QED
    BY <2>1, <2>2
<1>3. f \in Injection(S, N)
  BY <1>1, <1>2 DEF Injection, IsInjective
<1>4. IsFiniteSet(N) /\ Cardinality(N) = Cardinality(S)
  <2>1. Cardinality(S) \in Nat
    BY FromFinite
  <2> QED
    BY <2>1, FS_Interval
<1>5. f \in Surjection(S, N)
  BY <1>3, <1>4, FS_Injection
<1>6. \A n \in N : \E t \in S : f[t] = n
  BY <1>5 DEF Surjection
<1> QED
  BY <1>1, <1>2, <1>6

\* The traces behind place a up to place b.
Slice(S, a, b) == {t \in S : Rank(S, t) \in (a + 1)..b}

\* A slice is as long as it says, up to the end.
LEMMA SliceSize ==
  ASSUME NEW S, Stamped(S), NEW a \in Nat, NEW b \in Nat, a <= b, b <= Cardinality(S)
  PROVE  IsFiniteSet(Slice(S, a, b)) /\ Cardinality(Slice(S, a, b)) = b - a
<1> DEFINE T == Slice(S, a, b)
           N == (a + 1)..b
           f == [t \in T |-> Rank(S, t)]
<1>0. Cardinality(S) \in Nat /\ IsFiniteSet(S)
  BY FromFinite DEF Stamped
<1>1. IsFiniteSet(T)
  BY <1>0, FS_Subset DEF Slice
<1>2. f \in Bijection(T, N)
  <2>1. f \in [T -> N]
    BY DEF Slice
  <2>2. \A t, u \in T : f[t] = f[u] => t = u
    BY RankOnto DEF Slice
  <2>3. \A n \in N : \E t \in T : f[t] = n
    <3> SUFFICES ASSUME NEW n \in N PROVE \E t \in T : f[t] = n
      OBVIOUS
    <3>1. n \in 1..Cardinality(S)
      BY <1>0
    <3> QED
      BY <3>1, RankOnto DEF Slice
  <2> QED
    BY <2>1, <2>2, <2>3 DEF Bijection, Injection, Surjection, IsInjective
<1>3. Cardinality(T) = Cardinality(N)
  BY <1>1, <1>2, FS_Bijection DEF ExistsBijection
<1>4. Cardinality(N) = b - a
  <2>1. a + 1 \in Int /\ b \in Int
    OBVIOUS
  <2>2. Cardinality(N) = IF a + 1 > b THEN 0 ELSE b - (a + 1) + 1
    BY <2>1, FS_Interval
  <2> QED
    BY <2>2
<1> QED
  BY <1>1, <1>3, <1>4

\* Within a page, the places count from where the page begins.
LEMMA PlaceInPage ==
  ASSUME NEW S, Stamped(S), NEW o \in Nat, NEW l \in Nat, NEW t \in Page(S, o, l)
  PROVE  Rank(Page(S, o, l), t) = Rank(S, t) - o
<1> DEFINE P == Page(S, o, l)
           n == Rank(S, t)
           T == Slice(S, o, n)
<1>1. t \in S /\ n \in (o + 1)..(o + l) /\ n \in Nat /\ n <= Cardinality(S)
  BY FromFinite DEF Page
<1>2. {u \in P : u.at >= t.at} = T
  <2>1. ASSUME NEW u \in S PROVE u.at >= t.at <=> Rank(S, u) <= n
    <3>1. u.at \in Nat /\ t.at \in Nat /\ (u.at = t.at => u = t) /\ Rank(S, u) \in Nat
      BY <1>1, FromFinite DEF Stamped
    <3>2. u.at > t.at => Rank(S, u) < n
      BY <1>1, RankOrder
    <3>3. t.at > u.at => n < Rank(S, u)
      BY <1>1, RankOrder
    <3> QED
      BY <1>1, <3>1, <3>2, <3>3
  <2>2. \A u \in S : Rank(S, u) \in Nat
    BY FromFinite
  <2> QED
    BY <1>1, <2>1, <2>2 DEF Page, Slice
<1>3. Cardinality(T) = n - o
  BY <1>1, SliceSize
<1> QED
  BY <1>2, <1>3 DEF Rank

\* A page of a page.
LEMMA PageOfPage ==
  ASSUME NEW S, Stamped(S), NEW o \in Nat, NEW l \in Nat, NEW m \in Nat, m <= l
  PROVE  Page(Page(S, o, l), 0, m) = Page(S, o, m)
<1> DEFINE P == Page(S, o, l)
<1>1. \A t \in P : t \in S /\ Rank(S, t) \in Nat /\ Rank(P, t) = Rank(S, t) - o
  BY FromFinite, PlaceInPage DEF Page
<1>2. \A t \in S : Rank(S, t) \in (o + 1)..(o + m) => t \in P
  BY FromFinite DEF Page
<1> HIDE DEF P
<1>3. \A t : t \in Page(P, 0, m) <=> t \in P /\ Rank(P, t) \in 1..m
  BY DEF Page
<1>4. \A t : t \in Page(S, o, m) <=> t \in S /\ Rank(S, t) \in (o + 1)..(o + m)
  BY DEF Page
<1>5. \A t : t \in Page(P, 0, m) <=> t \in Page(S, o, m)
  BY <1>1, <1>2, <1>3, <1>4
<1> QED
  BY <1>5 DEF P

\* A page that is fuller than it shows is followed by something.
LEMMA PageSize ==
  ASSUME NEW S, Stamped(S), NEW o \in Nat, NEW l \in Nat
  PROVE  Cardinality(Page(S, o, l + 1)) > l <=> Cardinality(S) > o + l
<1> DEFINE n == Cardinality(S)
           P == Page(S, o, l + 1)
<1>1. n \in Nat
  BY FromFinite
<1>2. CASE n > o + l
  <2>1. P = Slice(S, o, o + l + 1)
    BY DEF Page, Slice
  <2>2. Cardinality(P) = l + 1
    BY <1>1, <1>2, <2>1, SliceSize
  <2> QED
    BY <1>2, <2>2
<1>3. CASE n <= o + l /\ n >= o
  <2>1. \A t \in S : Rank(S, t) \in Nat /\ Rank(S, t) <= n
    BY FromFinite
  <2>2. P = Slice(S, o, n)
    BY <1>1, <1>3, <2>1 DEF Page, Slice
  <2>3. Cardinality(P) = n - o
    BY <1>1, <1>3, <2>2, SliceSize
  <2> QED
    BY <1>1, <1>3, <2>3
<1>4. CASE n < o
  <2>1. \A t \in S : Rank(S, t) \in Nat /\ Rank(S, t) <= n
    BY FromFinite
  <2>2. P = {}
    BY <1>1, <1>4, <2>1 DEF Page
  <2> QED
    BY <1>1, <1>4, <2>2, FS_EmptySet
<1> QED
  BY <1>1, <1>2, <1>3, <1>4

\* As many of each of two tables as could come before the end of a page are enough.
LEMMA MergedPage ==
  ASSUME NEW A, NEW B, Stamped(A \cup B), NEW o \in Nat, NEW l \in Nat
  PROVE  Page(Page(A, 0, o + l) \cup Page(B, 0, o + l), o, l) = Page(A \cup B, o, l)
<1> DEFINE S == A \cup B
           k == o + l
           T == Page(A, 0, k) \cup Page(B, 0, k)
           top == Page(S, 0, k)
<1>0. T \subseteq S /\ Stamped(A) /\ Stamped(B) /\ Stamped(T) /\ k \in Nat
  <2>1. T \subseteq S
    BY DEF Page
  <2> QED
    BY <2>1, StampedSubset
<1>1. ASSUME NEW t \in S, Rank(S, t) <= k PROVE t \in T
  <2>1. ASSUME NEW C, C \subseteq S, Stamped(C), t \in C PROVE t \in Page(C, 0, k)
    <3>1. From(C, t) \subseteq From(S, t)
      BY <2>1 DEF From
    <3>2. Rank(C, t) <= Rank(S, t)
      <4>1. IsFiniteSet(From(S, t)) /\ Rank(S, t) = Cardinality(From(S, t)) /\ Rank(C, t) = Cardinality(From(C, t))
        BY <2>1, FromFinite
      <4> QED
        BY <3>1, <4>1, FS_Subset
    <3>3. Rank(C, t) >= 1 /\ Rank(C, t) \in Nat /\ Rank(S, t) \in Nat
      BY <2>1, FromFinite, RankOnto
    <3> QED
      BY <1>1, <2>1, <3>2, <3>3 DEF Page
  <2>2. t \in A => t \in Page(A, 0, k)
    BY <1>0, <2>1
  <2>3. t \in B => t \in Page(B, 0, k)
    BY <1>0, <2>1
  <2> QED
    BY <2>2, <2>3
<1>2. ASSUME NEW t \in S, Rank(S, t) <= k PROVE Rank(T, t) = Rank(S, t)
  <2>1. ASSUME NEW u \in S, u.at >= t.at PROVE u \in T
    <3>1. u.at \in Nat /\ t.at \in Nat /\ (u.at = t.at => u = t) /\ Rank(S, u) \in Nat /\ Rank(S, t) \in Nat
      BY FromFinite DEF Stamped
    <3>2. u.at > t.at => Rank(S, u) < Rank(S, t)
      BY RankOrder
    <3>3. Rank(S, u) <= k
      BY <1>0, <1>2, <2>1, <3>1, <3>2
    <3> QED
      BY <1>1, <3>3
  <2>2. From(T, t) = From(S, t)
    BY <1>0, <2>1 DEF From
  <2> QED
    BY <1>0, <2>2, FromFinite
<1>3. ASSUME NEW t \in T, Rank(S, t) > k PROVE Rank(T, t) > k
  <2>0. t \in S /\ Rank(S, t) \in Nat /\ Rank(S, t) <= Cardinality(S) /\ Cardinality(S) \in Nat
    BY <1>0, FromFinite
  <2>1. top = Slice(S, 0, k)
    BY DEF Page, Slice
  <2>2. IsFiniteSet(top) /\ Cardinality(top) = k
    BY <1>0, <1>3, <2>0, <2>1, SliceSize
  <2>3. t \notin top
    BY <1>3, <2>0 DEF Page
  <2>4. ASSUME NEW u \in top PROVE u \in From(T, t)
    <3>1. u \in S /\ Rank(S, u) <= k /\ Rank(S, u) \in Nat
      BY <1>0, FromFinite DEF Page
    <3>2. u \in T
      BY <1>1, <3>1
    <3>3. u.at \in Nat /\ t.at \in Nat
      BY <2>0, <3>1 DEF Stamped
    <3>4. ~(t.at > u.at)
      BY <1>0, <1>3, <2>0, <3>1, RankOrder
    <3> QED
      BY <3>2, <3>3, <3>4 DEF From
  <2>5. t \in From(T, t)
    BY <1>0 DEF From, Stamped
  <2>6. top \cup {t} \subseteq From(T, t) /\ IsFiniteSet(top \cup {t}) /\ Cardinality(top \cup {t}) = k + 1
    BY <2>2, <2>3, <2>4, <2>5, FS_AddElement
  <2>7. k + 1 <= Rank(T, t) /\ Rank(T, t) \in Nat
    <3>1. IsFiniteSet(From(T, t)) /\ Rank(T, t) = Cardinality(From(T, t)) /\ Rank(T, t) \in Nat
      BY <1>0, FromFinite
    <3> QED
      BY <2>6, <3>1, FS_Subset
  <2> QED
    BY <1>0, <2>7
<1>4. \A t \in S : Rank(S, t) \in Nat
  BY FromFinite
<1>5. \A t \in T : Rank(T, t) \in Nat
  BY <1>0, FromFinite
<1> HIDE DEF S, T, k
<1>6. \A t : t \in Page(S, o, l) <=> t \in S /\ Rank(S, t) \in (o + 1)..(o + l)
  BY DEF Page
<1>7. \A t : t \in Page(T, o, l) <=> t \in T /\ Rank(T, t) \in (o + 1)..(o + l)
  BY DEF Page
<1>8. k = o + l
  BY DEF k
<1>9. \A t : t \in Page(S, o, l) <=> t \in Page(T, o, l)
  BY <1>0, <1>1, <1>2, <1>3, <1>4, <1>5, <1>6, <1>7, <1>8
<1>10. Page(S, o, l) = Page(T, o, l)
  BY <1>9 DEF Page
<1> QED
  BY <1>10 DEF S, T, k

-----------------------------------------------------------------------------
(* The attempts of a run.                                                   *)

Codes == Refusals \cup {"ok", "llm_api_error"}

Tried(v, d, a) ==
  /\ a.code \in Codes
  /\ a.sql = NoSql => a.code = "llm_api_error"
  /\ a.sql # NoSql => a.sql \in Sqls /\ a.code = Verdict[<<v, d, a.sql>>] /\ a.code # "llm_api_error"
  /\ a.sql = Blank => a.code \in {"empty_sql", "unsupported_dialect"}

LEMMA LoopFacts ==
  ASSUME NEW v \in Versions, NEW d \in Dialects, NEW s \in Loops(v, d)
  PROVE  /\ Len(s) \in Nat /\ Len(s) >= 1 /\ s # <<>>
         /\ \A i \in 1..Len(s) : Tried(v, d, s[i])
         /\ \A i \in 1..Len(s) - 1 : Retryable(s[i].code)
<1> DEFINE Try == {a \in Attempts : IF a.sql = NoSql THEN a.code = "llm_api_error"
                                                    ELSE a.code = Verdict[<<v, d, a.sql>>]}
<1>1. PICK n \in 1..MaxAttempts : s \in [1..n -> Try]
  BY DEF Loops
<1>2. n \in Nat /\ n >= 1 /\ s \in Seq(Try) /\ Len(s) = n
  <2>1. n \in Nat /\ n >= 1
    BY <1>1, TracesAssumption
  <2> HIDE DEF Try
  <2> QED
    BY <1>1, <2>1
<1>3. \A i \in 1..Len(s) - 1 : Retryable(s[i].code)
  BY DEF Loops
<1>4. ASSUME NEW a \in Try PROVE Tried(v, d, a)
  <2>1. a.sql \in Sqls \cup {NoSql} /\ a.code \in Codes
    BY DEF Attempts, Codes
  <2>2. a.sql = NoSql => a.code = "llm_api_error"
    OBVIOUS
  <2>3. a.sql # NoSql => a.code = Verdict[<<v, d, a.sql>>]
    OBVIOUS
  <2>4. ASSUME a.sql \in Sqls PROVE Verdict[<<v, d, a.sql>>] \in Refusals \cup {"ok"}
    <3>1. <<v, d, a.sql>> \in Versions \X Dialects \X Sqls
      BY <2>4
    <3> QED
      BY <3>1, TracesAssumption
  <2>5. "llm_api_error" \notin Refusals \cup {"ok"}
    BY DEF Refusals, SecurityStageCodes, GuardrailCodes
  <2>6. Blank \in Sqls /\ Blank # NoSql /\ Verdict[<<v, d, Blank>>] \in {"empty_sql", "unsupported_dialect"}
    BY TracesAssumption
  <2> HIDE DEF Try
  <2> QED
    BY <2>1, <2>2, <2>3, <2>4, <2>5, <2>6 DEF Tried
<1> HIDE DEF Try
<1>5. \A i \in 1..Len(s) : s[i] \in Try
  BY <1>1, <1>2
<1> QED
  BY <1>2, <1>3, <1>4, <1>5

\* The codes of a run: what may be tried again, and the last.
LEMMA IssuesOfLoop ==
  ASSUME NEW v \in Versions, NEW d \in Dialects, NEW s \in Loops(v, d)
  PROVE  /\ Last(s).code \in Codes
         /\ FinalIssues(s) = {Last(s).code} \ {"ok"}
         /\ FinalIssues(s) \subseteq Issues(s)
         /\ \A c \in Issues(s) : c = Last(s).code \/ Retryable(c)
         /\ Last(s).sql # NoSql => Generated(s) = Last(s).sql
         /\ Last(s).sql = NoSql <=> Last(s).code = "llm_api_error"
         /\ Last(s).sql = Blank => Last(s).code \in {"empty_sql", "unsupported_dialect"}
         /\ Last(s).sql # NoSql => Last(s).sql \in Sqls
         /\ Success(s) <=> Last(s).code = "ok"
<1> DEFINE n == Len(s)
<1>1. n \in Nat /\ n >= 1 /\ n \in 1..n /\ Last(s) = s[n] /\ s # <<>>
  BY LoopFacts DEF Last
<1>2. Tried(v, d, s[n])
  BY <1>1, LoopFacts
<1>3. \A c \in Issues(s) : c = Last(s).code \/ Retryable(c)
  <2> SUFFICES ASSUME NEW i \in 1..n PROVE s[i].code = s[n].code \/ Retryable(s[i].code)
    BY <1>1 DEF Issues
  <2>1. i = n \/ i \in 1..n - 1
    BY <1>1
  <2> QED
    BY <2>1, LoopFacts
<1>4. Last(s).sql # NoSql => Generated(s) = Last(s).sql
  <2> DEFINE given == {i \in 1..n : s[i].sql # NoSql}
  <2> SUFFICES ASSUME s[n].sql # NoSql PROVE Generated(s) = s[n].sql
    BY <1>1
  <2>1. n \in given /\ \A k \in given : k <= n /\ k \in Nat
    BY <1>1
  <2>2. given # {} /\ Generated(s) = s[CHOOSE i \in given : \A k \in given : k <= i].sql
    BY <2>1 DEF Generated
  <2> HIDE DEF given
  <2> DEFINE m == CHOOSE i \in given : \A k \in given : k <= i
  <2>3. m \in given /\ \A k \in given : k <= m
    BY <2>1
  <2> HIDE DEF m
  <2>4. m = n
    BY <1>1, <2>1, <2>3
  <2> QED
    BY <2>2, <2>4 DEF m
<1>5. FinalIssues(s) \subseteq Issues(s)
  BY <1>1 DEF FinalIssues, Issues
<1> QED
  BY <1>1, <1>2, <1>3, <1>4, <1>5 DEF FinalIssues, Success, Tried

-----------------------------------------------------------------------------
(* The trace of a run.                                                      *)

\* What TraceTellsOutcome says of one trace.
Told(t) ==
  LET ok == \E x \in t.last : x.code = "ok"
      hidden == {x \in t.last : x.code \in {"sql_parse_error", "empty_sql", "unsupported_dialect"}}
  IN  /\ ErrorCodes(t) = {} <=> ok \/ hidden # {}
      /\ TerminalStatus(t) = "completed" <=> ok \/ \E x \in hidden : ~x.blank

\* Every stage was reached and none refused the statement.
Answered(t) ==
  /\ t.denied = {} /\ t.sqlValid = TRUE
  /\ \A stage \in {"retrieval", "validation", "security"} : t.status[stage] # "skipped"

TraceFields(t, r, at, error, tables, s) ==
  /\ t.type = "end_to_end" /\ t.at = at /\ t.run = r /\ t.valid = {} /\ t.reason = error
  /\ t.status = Statuses(error, tables, s) /\ t.sqlValid = (s = <<>> \/ Valid(s))
  /\ t.issues = Issues(s) \ SecurityStageCodes
  /\ t.denied = {c \in Issues(s) \cap SecurityStageCodes : Denies(c)}
  /\ t.last = IF s = <<>> THEN {} ELSE {[code |-> Last(s).code, blank |-> (Last(s).sql = Blank)]}

LEMMA TraceHasFields ==
  ASSUME NEW r, NEW at, NEW error, NEW tables, NEW s
  PROVE  TraceFields(EndToEndTrace(r, at, error, tables, s), r, at, error, tables, s)
BY DEF EndToEndTrace, TraceFields

\* The verdict over the spans.
LEMMA Terminal ==
  ASSUME NEW t, NEW error, NEW tables, NEW s, t.status = Statuses(error, tables, s)
  PROVE  TerminalStatus(t) = "completed" <=>
           "error" \notin {t.status.intent, t.status.retrieval, t.status.generation,
                          t.status.validation, t.status.security}
<1>1. DOMAIN t.status = {"intent", "retrieval", "generation", "validation", "security"}
  BY DEF Statuses
<1> QED
  BY <1>1 DEF TerminalStatus

LEMMA EarlyTrace ==
  ASSUME NEW t, NEW r, NEW at, NEW error \in EarlyErrors \ {"none"}, NEW tables,
         TraceFields(t, r, at, error, tables, <<>>)
  PROVE  Told(t)
<1>1. /\ t.last = {} /\ t.reason = error /\ t.status = Statuses(error, tables, <<>>)
  BY DEF TraceFields
<1>2. "error" \in {t.status.intent, t.status.retrieval}
  BY <1>1 DEF Statuses, Category, EarlyErrors
<1>3. ErrorCodes(t) # {}
  BY <1>2 DEF ErrorCodes
<1>4. TerminalStatus(t) # "completed"
  BY <1>1, <1>2, Terminal
<1> QED
  BY <1>1, <1>3, <1>4 DEF Told

LEMMA LoopTrace ==
  ASSUME NEW v \in Versions, NEW d \in Dialects, NEW s \in Loops(v, d),
         NEW t, NEW r, NEW at, NEW tables, TraceFields(t, r, at, "none", tables, s)
  PROVE  Told(t) /\ (Success(s) => Answered(t) /\ Last(s).sql \in Sqls \ {Blank})
<1> DEFINE c == Last(s).code
           sql == Last(s).sql
<1>1. s # <<>> /\ c \in Codes
  BY LoopFacts, IssuesOfLoop
<1>2. /\ t.last = {[code |-> c, blank |-> (sql = Blank)]}
      /\ t.status = Statuses("none", tables, s) /\ t.sqlValid = Valid(s)
      /\ t.issues = Issues(s) \ SecurityStageCodes
      /\ t.denied = {x \in Issues(s) \cap SecurityStageCodes : Denies(x)}
  <2>1. t.sqlValid = Valid(s)
    BY <1>1 DEF TraceFields, Valid
  <2>2. t.last = {[code |-> c, blank |-> (sql = Blank)]}
    BY <1>1 DEF TraceFields
  <2> QED
    BY <2>1, <2>2 DEF TraceFields
<1>3. /\ \A x \in Issues(s) : x = c \/ Retryable(x)
      /\ FinalIssues(s) = {c} \ {"ok"} /\ FinalIssues(s) \subseteq Issues(s)
      /\ sql # NoSql => Generated(s) = sql
      /\ sql = NoSql <=> c = "llm_api_error"
      /\ sql = Blank => c \in {"empty_sql", "unsupported_dialect"}
      /\ sql # NoSql => sql \in Sqls
      /\ Success(s) <=> c = "ok"
  BY IssuesOfLoop
<1>4. /\ t.status.intent = "skipped" /\ t.status.retrieval \in {"warning", "ok"}
      /\ t.status.generation = GenerationStatus(s)
      /\ t.status.validation = ValidationStatus(s) /\ t.status.security = SecurityStatus(s)
  BY <1>1, <1>2 DEF Statuses, Category
<1>5. TerminalStatus(t) = "completed" <=>
        "error" \notin {GenerationStatus(s), ValidationStatus(s), SecurityStatus(s)}
  BY <1>2, <1>4, Terminal
<1> HIDE DEF c, sql
<1>6. /\ GenerationStatus(s) = "error" <=> Generated(s) \in {NoSql, Blank}
      /\ ValidationStatus(s) = "error" <=> ~Valid(s)
      /\ SecurityStatus(s) = "error" <=> \E x \in Issues(s) \cap SecurityStageCodes : Denies(x)
      /\ ValidationStatus(s) # "skipped" /\ SecurityStatus(s) # "skipped"
  BY DEF GenerationStatus, ValidationStatus, SecurityStatus
<1>7. \A x : Denies(x) <=> x \in {"non_select_statement", "unsafe_sandbox_rejected"}
  BY DEF Denies, Category
<1>8. \A x : Retryable(x) => x \in {"llm_api_error", "sql_parse_error", "missing_column"}
  BY DEF Retryable
<1>9. SecurityStageCodes = {"sql_parse_error", "empty_sql", "unsupported_dialect", "non_select_statement",
                           "unsafe_sandbox_rejected"}
  BY DEF SecurityStageCodes, GuardrailCodes
<1>10. Codes = SecurityStageCodes \cup {"missing_column", "ok", "llm_api_error"}
  BY DEF Codes, Refusals
<1>11. Valid(s) <=> c \in SecurityStageCodes \cup {"ok"}
  BY <1>1, <1>3, <1>9, <1>10 DEF Valid
<1>12. (\E x \in Issues(s) \cap SecurityStageCodes : Denies(x)) <=> Denies(c)
  BY <1>3, <1>7, <1>8, <1>9
<1>13. ErrorCodes(t) = (IF ~Valid(s) THEN t.issues ELSE {}) \cup (IF Denies(c) THEN t.denied ELSE {})
  BY <1>4, <1>6, <1>12 DEF ErrorCodes
<1>14. CASE c = "ok"
  <2>1. Valid(s) /\ ~Denies(c) /\ t.denied = {}
    BY <1>2, <1>7, <1>9, <1>11, <1>12, <1>14
  <2>2. sql # NoSql /\ sql # Blank /\ Generated(s) = sql /\ sql \in Sqls
    BY <1>3, <1>14
  <2>3. ErrorCodes(t) = {} /\ TerminalStatus(t) = "completed"
    BY <1>5, <1>6, <1>12, <1>13, <2>1, <2>2
  <2>4. Answered(t)
    BY <1>2, <1>4, <1>6, <2>1 DEF Answered
  <2> QED
    BY <1>2, <1>14, <2>2, <2>3, <2>4 DEF Told, sql
<1>15. CASE c \in {"llm_api_error", "missing_column"}
  <2>1. ~Valid(s) /\ c \in t.issues
    BY <1>2, <1>3, <1>9, <1>11, <1>15
  <2>2. ErrorCodes(t) # {} /\ TerminalStatus(t) # "completed"
    BY <1>5, <1>6, <1>13, <2>1
  <2> QED
    BY <1>2, <1>3, <1>15, <2>2 DEF Told
<1>16. CASE c \in {"sql_parse_error", "empty_sql", "unsupported_dialect"}
  <2>1. Valid(s) /\ ~Denies(c)
    BY <1>7, <1>9, <1>11, <1>16
  <2>2. sql # NoSql /\ Generated(s) = sql
    BY <1>3, <1>16
  <2>3. ErrorCodes(t) = {} /\ (TerminalStatus(t) = "completed" <=> sql # Blank)
    BY <1>5, <1>6, <1>12, <1>13, <2>1, <2>2
  <2> QED
    <3> DEFINE x == [code |-> c, blank |-> (sql = Blank)]
               hidden == {y \in t.last : y.code \in {"sql_parse_error", "empty_sql", "unsupported_dialect"}}
    <3>1. t.last = {x} /\ x.code = c /\ (x.blank <=> sql = Blank)
      BY <1>2
    <3> HIDE DEF x
    <3>2. hidden = {x} /\ ~\E y \in t.last : y.code = "ok"
      BY <1>16, <3>1
    <3> HIDE DEF hidden
    <3>3. (\E y \in hidden : ~y.blank) <=> sql # Blank
      BY <3>1, <3>2
    <3>4. hidden # {}
      BY <3>2
    <3>5. Told(t) <=> /\ ErrorCodes(t) = {} <=> (\E y \in t.last : y.code = "ok") \/ hidden # {}
                      /\ TerminalStatus(t) = "completed" <=>
                           (\E y \in t.last : y.code = "ok") \/ \E y \in hidden : ~y.blank
      BY DEF Told, hidden
    <3>6. Told(t)
      BY <2>3, <3>2, <3>3, <3>4, <3>5
    <3> QED
      BY <1>3, <1>16, <3>6
<1>17. CASE c \in {"non_select_statement", "unsafe_sandbox_rejected"}
  <2>1. Denies(c) /\ c \in t.denied
    BY <1>2, <1>3, <1>7, <1>9, <1>17
  <2>2. ErrorCodes(t) # {} /\ TerminalStatus(t) # "completed"
    BY <1>5, <1>6, <1>12, <1>13, <2>1
  <2> QED
    BY <1>2, <1>3, <1>17, <2>2 DEF Told
<1> QED
  BY <1>1, <1>9, <1>10, <1>14, <1>15, <1>16, <1>17
-----------------------------------------------------------------------------
(* The invariant.                                                           *)

RunTypes == [pc : {"idle", "pipeline", "write", "done"}, dialect : Dialects \cup {"none"}, answer : SUBSET [sql : Sqls, ran : Sqls]]

TracesTypes ==
  /\ version \in Versions /\ config.dialect \in Dialects
  /\ run \in [Runs -> RunTypes]
  /\ \A r \in Runs : run[r].pc = "pipeline" => run[r].dialect \in Dialects

\* Every trace has a stamp of its own and knows its run.
TableInv ==
  /\ Stamped(canonical \cup legacy)
  /\ \A t \in canonical : t.type = "end_to_end" /\ t.valid = {} /\ t.run \in Runs
  /\ \A t \in legacy : t.type = "nl2sql"

ToldInv == \A t \in canonical : Told(t)

\* What a run that answers with a statement has left in its trace, if it was saved.
Answers(r, ran, sql) ==
  /\ ran \in Sqls \ {Blank} /\ sql = Redacted[ran]
  /\ \A t \in canonical : t.run = r => Answered(t)

\* A run has a trace only once it is behind the pipeline, and answers for it.
RunInv ==
  \A r \in Runs :
    /\ run[r].pc \in {"idle", "pipeline"} => \A t \in canonical : t.run # r
    /\ run[r].pc = "write" => \A a \in run[r].answer : Answers(r, a.ran, a.sql)

\* So does the run whose statement is in the row, or was when the replay read it.
Wrote(r, ran, sql) == r # NoRun => r \in Runs /\ run[r].pc = "done" /\ Answers(r, ran, sql)

JobInv == Wrote(job.by, job.ran, job.sql)
ReplayInv == replay.pc = "read" => Wrote(replay.by, replay.ran, replay.sql)

TracesIInv == TracesTypes /\ TableInv /\ ToldInv /\ RunInv /\ JobInv /\ ReplayInv

LEMMA TracesBegin == TracesInit => TracesIInv
<1> SUFFICES ASSUME TracesInit PROVE TracesIInv
  OBVIOUS
<1>1. Stamped({} \cup {})
  BY FS_EmptySet DEF Stamped
<1>2. TracesTypes
  BY TracesAssumption DEF TracesInit, TracesTypes, RunTypes, NewRun, Versions
<1>3. TableInv /\ ToldInv /\ RunInv
  BY <1>1 DEF TracesInit, TableInv, ToldInv, RunInv, NewRun
<1>4. JobInv /\ ReplayInv
  BY DEF TracesInit, JobInv, ReplayInv, Wrote, NoReplay
<1> QED
  BY <1>2, <1>3, <1>4 DEF TracesIInv

-----------------------------------------------------------------------------
\* The clock is the last stamp.
LEMMA ClockIsLast ==
  ASSUME Stamped(canonical \cup legacy)
  PROVE  Clock \in Nat /\ \A t \in canonical \cup legacy : t.at <= Clock
<1> DEFINE S == canonical \cup legacy
           stamps == {0} \cup {t.at : t \in legacy \cup canonical}
<1>1. stamps \subseteq Nat
  BY DEF Stamped
<1>2. \E n \in stamps : \A k \in stamps : k <= n
  <2>1. CASE S = {}
    BY <2>1
  <2>2. CASE S # {}
    <3>1. Cardinality(S) \in Nat /\ Cardinality(S) # 0
      BY <2>2, FromFinite, FS_EmptySet DEF Stamped
    <3>2. PICK t \in S : Rank(S, t) = 1
      BY <3>1, RankOnto
    <3>3. ASSUME NEW u \in S PROVE u.at <= t.at
      <4>1. u.at \in Nat /\ t.at \in Nat /\ Rank(S, u) \in 1..Cardinality(S)
        BY RankOnto DEF Stamped
      <4>2. ~(u.at > t.at)
        BY <3>1, <3>2, <4>1, RankOrder
      <4> QED
        BY <4>1, <4>2
    <3>4. t.at \in stamps /\ t.at \in Nat
      BY DEF Stamped
    <3> QED
      BY <3>3, <3>4
  <2> QED
    BY <2>1, <2>2
<1>3. Clock = CHOOSE n \in stamps : \A k \in stamps : k <= n
  BY DEF Clock
<1> HIDE DEF stamps
<1>4. Clock \in stamps /\ \A k \in stamps : k <= Clock
  BY <1>2, <1>3
<1> QED
  BY <1>1, <1>4 DEF stamps

\* The two traces of a run, or what is saved of them.
LEMMA CaptureStep ==
  ASSUME TableInv, NEW r \in Runs, NEW error, NEW tables, NEW s, Capture(r, error, tables, s)
  PROVE  /\ TableInv'
         /\ canonical' = canonical \/ canonical' = canonical \cup {EndToEndTrace(r, Clock + 2, error, tables, s)}
<1> DEFINE c == EndToEndTrace(r, Clock + 2, error, tables, s)
           l == LegacyTrace(r, Clock + 1, s)
           S == canonical \cup legacy
<1>1. Clock \in Nat /\ \A t \in S : t.at <= Clock /\ t.at \in Nat
  BY ClockIsLast DEF TableInv, Stamped
<1>2. c.at = Clock + 2 /\ c.type = "end_to_end" /\ c.valid = {} /\ c.run = r
  <2>1. TraceFields(c, r, Clock + 2, error, tables, s)
    BY TraceHasFields
  <2> HIDE DEF c
  <2> QED
    BY <2>1 DEF TraceFields
<1>3. l.at = Clock + 1 /\ l.type = "nl2sql"
  BY DEF LegacyTrace
<1>4. canonical' \in {canonical, canonical \cup {c}} /\ legacy' \in {legacy, legacy \cup {l}}
  BY DEF Capture, Save, SaveLegacy
<1> HIDE DEF c, l
<1>5. IsFiniteSet(S \cup {c, l})
  <2>1. IsFiniteSet(S) /\ S \cup {c, l} = (S \cup {c}) \cup {l}
    BY DEF TableInv, Stamped
  <2> QED
    BY <2>1, FS_AddElement
<1>6. Stamped(S \cup {c, l})
  <2>1. ASSUME NEW t \in S \cup {c, l} PROVE t.at \in Nat
    BY <1>1, <1>2, <1>3
  <2>2. ASSUME NEW t \in S \cup {c, l}, NEW u \in S \cup {c, l}, t.at = u.at PROVE t = u
    <3>1. CASE t \in S /\ u \in S
      BY <2>2, <3>1 DEF TableInv, Stamped
    <3>2. CASE t \notin S \/ u \notin S
      BY <1>1, <1>2, <1>3, <2>2, <3>2
    <3> QED
      BY <3>1, <3>2
  <2> QED
    BY <1>5, <2>1, <2>2 DEF Stamped
<1>7. Stamped(canonical' \cup legacy')
  <2>1. canonical' \cup legacy' \subseteq S \cup {c, l}
    BY <1>4
  <2> QED
    BY <1>6, <2>1, StampedSubset
<1>8. TableInv'
  BY <1>2, <1>3, <1>4, <1>7 DEF TableInv
<1> QED
  BY <1>4, <1>8 DEF c

LEMMA PipelineStep ==
  ASSUME TracesIInv, NEW r \in Runs, RunPipeline(r)
  PROVE  TracesIInv'
<1> DEFINE d == run[r].dialect
           here == <<version, d>>
           error == IF input THEN Early[here] ELSE "excel_parse_error"
           tables == IF error = "none" THEN Tables[here] ELSE {}
<1>i. TracesTypes /\ TableInv /\ ToldInv /\ RunInv /\ JobInv /\ ReplayInv
  BY DEF TracesIInv
<1>1. run[r].pc = "pipeline" /\ UNCHANGED <<version, config, input, job, replay>>
  BY DEF RunPipeline, At
<1>2. version \in Versions /\ d \in Dialects
  BY <1>i, <1>1 DEF TracesTypes
<1>3. error \in EarlyErrors
  <2>1. here \in Versions \X Dialects
    BY <1>2
  <2>2. Early[here] \in EarlyErrors
    BY <2>1, TracesAssumption
  <2> QED
    BY <2>2 DEF EarlyErrors
<1>4. PICK s \in IF error = "none" THEN Loops(version, d) ELSE {<<>>} :
         /\ Capture(r, error, tables, s)
         /\ run' = [run EXCEPT ![r].pc = "write", ![r].answer = Answer(s)]
  BY DEF RunPipeline
<1> DEFINE t == EndToEndTrace(r, Clock + 2, error, tables, s)
           answer == Answer(s)
<1>5. /\ Told(t) /\ t.run = r
      /\ \A a \in answer : Answered(t) /\ a.ran \in Sqls \ {Blank} /\ a.sql = Redacted[a.ran]
                         /\ a \in [sql : Sqls, ran : Sqls]
  <2>1. TraceFields(t, r, Clock + 2, error, tables, s)
    BY TraceHasFields
  <2>2. CASE error = "none"
    <3>1. s \in Loops(version, d)
      BY <1>4, <2>2
    <3>2. TraceFields(t, r, Clock + 2, "none", tables, s)
      BY <2>1, <2>2
    <3> HIDE DEF t, d, error, tables
    <3>3. Told(t) /\ (Success(s) => Answered(t) /\ Last(s).sql \in Sqls \ {Blank})
      BY <1>2, <3>1, <3>2, LoopTrace
    <3>4. ASSUME NEW a \in Answer(s)
          PROVE  /\ Answered(t) /\ a.ran \in Sqls \ {Blank} /\ a.sql = Redacted[a.ran]
                 /\ a \in [sql : Sqls, ran : Sqls]
      <4>1. Success(s) /\ a = [sql |-> Redacted[Last(s).sql], ran |-> Last(s).sql]
        BY <3>4 DEF Answer
      <4>2. Redacted[Last(s).sql] \in Sqls
        BY <3>3, <4>1, TracesAssumption
      <4> QED
        BY <3>3, <4>1, <4>2
    <3> QED
      BY <3>2, <3>3, <3>4 DEF TraceFields
  <2>3. CASE error # "none"
    <3>1. s = <<>>
      BY <1>4, <2>3
    <3>2. TraceFields(t, r, Clock + 2, error, tables, <<>>) /\ answer = {}
      BY <2>1, <3>1 DEF Success, Answer
    <3>3. error \in EarlyErrors \ {"none"}
      BY <1>3, <2>3
    <3> HIDE DEF t, d, error, tables, answer
    <3>4. Told(t)
      BY <3>2, <3>3, EarlyTrace
    <3> QED
      BY <3>2, <3>4 DEF TraceFields
  <2> QED
    BY <2>2, <2>3
<1>6. TableInv' /\ (canonical' = canonical \/ canonical' = canonical \cup {t})
  BY <1>i, <1>4, CaptureStep
<1> HIDE DEF t
<1>7. /\ run' \in [Runs -> RunTypes] /\ run'[r].pc = "write" /\ run'[r].answer = answer
      /\ \A q \in Runs \ {r} : run'[q] = run[q]
  <2>1. answer \subseteq [sql : Sqls, ran : Sqls]
    BY <1>5
  <2> HIDE DEF answer
  <2>2. run' = [run EXCEPT ![r].pc = "write", ![r].answer = answer]
    BY <1>4 DEF answer
  <2> QED
    BY <1>i, <2>1, <2>2 DEF TracesTypes, RunTypes
<1> HIDE DEF answer, d, error, tables
<1>8. TracesTypes'
  BY <1>i, <1>1, <1>7 DEF TracesTypes
<1>9. ToldInv'
  BY <1>i, <1>5, <1>6 DEF ToldInv
<1>10. ASSUME NEW q \in Runs, q # r, NEW ran, NEW sql, Answers(q, ran, sql) PROVE Answers(q, ran, sql)'
  BY <1>5, <1>6, <1>10 DEF Answers
<1>11. \A u \in canonical : u.run # r
  BY <1>i, <1>1 DEF RunInv
<1>12. RunInv'
  <2> SUFFICES ASSUME NEW q \in Runs
               PROVE  /\ run'[q].pc \in {"idle", "pipeline"} => \A u \in canonical' : u.run # q
                      /\ run'[q].pc = "write" => \A a \in run'[q].answer : Answers(q, a.ran, a.sql)'
    BY DEF RunInv
  <2>1. CASE q = r
    BY <1>5, <1>6, <1>7, <1>11, <2>1 DEF Answers
  <2>2. CASE q # r
    <3>1. run'[q] = run[q]
      BY <1>7, <2>2
    <3>2. run[q].pc \in {"idle", "pipeline"} => \A u \in canonical' : u.run # q
      BY <1>i, <1>5, <1>6, <2>2 DEF RunInv
    <3>3. run[q].pc = "write" => \A a \in run[q].answer : Answers(q, a.ran, a.sql)'
      BY <1>i, <1>10, <2>2 DEF RunInv
    <3> QED
      BY <3>1, <3>2, <3>3
  <2> QED
    BY <2>1, <2>2
<1>13. ASSUME NEW q, NEW ran, NEW sql, Wrote(q, ran, sql) PROVE Wrote(q, ran, sql)'
  <2>1. q # NoRun => q \in Runs /\ q # r /\ run'[q] = run[q]
    BY <1>1, <1>7, <1>13 DEF Wrote
  <2> QED
    BY <1>10, <1>13, <2>1 DEF Wrote
<1>14. JobInv' /\ ReplayInv'
  BY <1>i, <1>1, <1>13 DEF JobInv, ReplayInv
<1> QED
  BY <1>6, <1>8, <1>9, <1>12, <1>14 DEF TracesIInv

\* ... and so does what a run has written, once it is done.
LEMMA WroteStays ==
  ASSUME UNCHANGED canonical, NEW r, NEW ran, NEW sql, Wrote(r, ran, sql),
         \A q \in Runs : run[q].pc = "done" => run'[q].pc = "done"
  PROVE  Wrote(r, ran, sql)'
BY DEF Wrote, Answers

\* A step of a run that adds no trace: it only moves on.
LEMMA MoveStep ==
  ASSUME TracesIInv, UNCHANGED <<legacy, canonical>>, TracesTypes', JobInv',
         \A q \in Runs : run[q].pc = "done" => run'[q].pc = "done",
         \A q \in Runs : /\ run'[q].pc \in {"idle", "pipeline"} => run[q].pc \in {"idle", "pipeline"}
                         /\ run'[q].pc = "write" => run[q].pc = "write" /\ run'[q].answer = run[q].answer,
         UNCHANGED replay
  PROVE  TracesIInv'
<1>i. TracesTypes /\ TableInv /\ ToldInv /\ RunInv /\ JobInv /\ ReplayInv
  BY DEF TracesIInv
<1>1. TableInv' /\ ToldInv'
  BY <1>i DEF TableInv, ToldInv
<1>2. RunInv'
  BY <1>i DEF RunInv, Answers
<1>3. ReplayInv'
  BY <1>i, WroteStays DEF ReplayInv
<1> QED
  BY <1>1, <1>2, <1>3 DEF TracesIInv

LEMMA StartStep ==
  ASSUME TracesIInv, NEW r \in Runs, StartRun(r)
  PROVE  TracesIInv'
<1>i. TracesTypes /\ JobInv
  BY DEF TracesIInv
<1>1. /\ run[r].pc = "idle" /\ UNCHANGED <<version, config, legacy, canonical, replay>>
      /\ run' = [run EXCEPT ![r].pc = "pipeline", ![r].dialect = config.dialect]
      /\ job' = [job EXCEPT !.status = "processing"]
  BY DEF StartRun, At
<1>2. /\ run' \in [Runs -> RunTypes] /\ run'[r].pc = "pipeline" /\ run'[r].dialect = config.dialect
      /\ \A q \in Runs \ {r} : run'[q] = run[q]
  BY <1>i, <1>1 DEF TracesTypes, RunTypes
<1>3. TracesTypes'
  BY <1>i, <1>1, <1>2 DEF TracesTypes
<1>4. \A q \in Runs : run[q].pc = "done" => run'[q].pc = "done"
  BY <1>1, <1>2
<1>5. JobInv'
  <2>1. job'.by = job.by /\ job'.ran = job.ran /\ job'.sql = job.sql
    BY <1>1
  <2> QED
    BY <1>i, <1>1, <1>4, <2>1, WroteStays DEF JobInv
<1> QED
  BY <1>1, <1>2, <1>3, <1>4, <1>5, MoveStep
\* A run that ends.
LEMMA EndStep ==
  ASSUME TracesIInv, NEW r \in Runs, run[r].pc # "idle", run' = [run EXCEPT ![r] = DoneRun],
         UNCHANGED <<version, config, legacy, canonical, replay>>, JobInv'
  PROVE  TracesIInv'
<1>i. TracesTypes
  BY DEF TracesIInv
<1>1. DoneRun \in RunTypes /\ DoneRun.pc = "done"
  <2>1. DoneRun = [pc |-> "done", dialect |-> "none", answer |-> {}]
    BY DEF DoneRun, NewRun
  <2> QED
    BY <2>1 DEF RunTypes
<1>2. run' \in [Runs -> RunTypes] /\ run'[r] = DoneRun /\ \A q \in Runs \ {r} : run'[q] = run[q]
  BY <1>i, <1>1 DEF TracesTypes
<1>3. TracesTypes'
  BY <1>i, <1>1, <1>2 DEF TracesTypes
<1> QED
  BY <1>1, <1>2, <1>3, MoveStep

LEMMA RaiseOrCrashStep ==
  ASSUME TracesIInv, NEW r \in Runs, Raise(r) \/ CrashRun(r)
  PROVE  TracesIInv'
<1>i. TracesTypes /\ JobInv
  BY DEF TracesIInv
<1>1. /\ run[r].pc # "idle" /\ run[r].pc # "done" /\ run' = [run EXCEPT ![r] = DoneRun]
      /\ UNCHANGED <<version, config, legacy, canonical, replay>>
  BY DEF Raise, CrashRun, At
<1>2. job'.by = job.by /\ job'.ran = job.ran /\ job'.sql = job.sql
  <2>1. CASE CrashRun(r)
    BY <2>1 DEF CrashRun
  <2>2. CASE Raise(r)
    <3>1. job' = job \/ job' = [job EXCEPT !.status = "failed"]
      BY <2>2 DEF Raise
    <3>2. ASSUME job' = [job EXCEPT !.status = "failed"] PROVE job'.by = job.by /\ job'.ran = job.ran /\ job'.sql = job.sql
      BY <3>2
    <3> QED
      BY <3>1, <3>2
  <2> QED
    BY <2>1, <2>2
<1>3. \A q \in Runs : run[q].pc = "done" => run'[q].pc = "done"
  BY <1>i, <1>1 DEF TracesTypes
<1>4. JobInv'
  BY <1>i, <1>1, <1>2, <1>3, WroteStays DEF JobInv
<1> QED
  BY <1>1, <1>4, EndStep

LEMMA WriteStep ==
  ASSUME TracesIInv, NEW r \in Runs, Write(r)
  PROVE  TracesIInv'
<1>i. TracesTypes /\ JobInv /\ RunInv
  BY DEF TracesIInv
<1>1. /\ run[r].pc = "write" /\ run' = [run EXCEPT ![r] = DoneRun]
      /\ UNCHANGED <<version, config, legacy, canonical, replay>>
  BY DEF Write, At
<1>2. run'[r].pc = "done" /\ \A q \in Runs : run[q].pc = "done" => run'[q].pc = "done"
  <2>1. DoneRun.pc = "done"
    BY DEF DoneRun, NewRun
  <2> QED
    BY <1>i, <1>1, <2>1 DEF TracesTypes
<1>3. CASE \E a \in run[r].answer :
                job' = [job EXCEPT !.status = "completed", !.sql = a.sql, !.ran = a.ran, !.by = r]
  <2>1. PICK a \in run[r].answer :
          job' = [job EXCEPT !.status = "completed", !.sql = a.sql, !.ran = a.ran, !.by = r]
    BY <1>3
  <2>2. Answers(r, a.ran, a.sql)
    BY <1>i, <1>1 DEF RunInv
  <2>3. job'.sql = a.sql /\ job'.ran = a.ran /\ job'.by = r
    BY <1>i, <2>1 DEF TracesTypes
  <2>4. JobInv'
    BY <1>1, <1>2, <2>2, <2>3 DEF JobInv, Wrote, Answers
  <2> QED
    BY <1>1, <2>4, EndStep
<1>4. CASE job'.by = job.by /\ job'.ran = job.ran /\ job'.sql = job.sql
  <2>1. JobInv'
    BY <1>i, <1>1, <1>2, <1>4, WroteStays DEF JobInv
  <2> QED
    BY <1>1, <2>1, EndStep
<1>5. CASE \E s \in {"failed", "queued"} : job' = [job EXCEPT !.status = s]
  BY <1>4, <1>5
<1> QED
  BY <1>3, <1>4, <1>5 DEF Write

\* The world, and the replay, which leave the runs and their traces alone.
LEMMA OtherSteps ==
  ASSUME TracesIInv, Deploy \/ Configure \/ LoseInput \/ CancelJob \/ ReplayRead \/ ReplayReturn
  PROVE  TracesIInv'
<1>i. TracesTypes /\ TableInv /\ ToldInv /\ RunInv /\ JobInv /\ ReplayInv
  BY DEF TracesIInv
<1>1. UNCHANGED <<run, legacy, canonical>>
  BY DEF Deploy, Configure, LoseInput, CancelJob, ReplayRead, ReplayReturn
<1>2. TableInv' /\ ToldInv' /\ RunInv'
  BY <1>i, <1>1 DEF TableInv, ToldInv, RunInv, Answers
<1>3. TracesTypes'
  <2>1. CASE Deploy
    <3>1. version < MaxVersion /\ version' = version + 1 /\ UNCHANGED config
      BY <2>1 DEF Deploy
    <3>2. version' \in Versions
      BY <1>i, <3>1, TracesAssumption DEF TracesTypes, Versions
    <3> QED
      BY <1>i, <1>1, <3>1, <3>2 DEF TracesTypes
  <2>2. CASE Configure
    BY <1>i, <1>1, <2>2 DEF TracesTypes, Configure
  <2>3. CASE LoseInput \/ CancelJob \/ ReplayRead \/ ReplayReturn
    BY <1>i, <1>1, <2>3 DEF TracesTypes, LoseInput, CancelJob, ReplayRead, ReplayReturn
  <2> QED
    BY <2>1, <2>2, <2>3
<1>4. JobInv'
  <2>1. job' = job \/ job' = [job EXCEPT !.status = "cancelled"]
    BY DEF Deploy, Configure, LoseInput, CancelJob, ReplayRead, ReplayReturn
  <2>2. ASSUME job' = [job EXCEPT !.status = "cancelled"] PROVE job'.by = job.by /\ job'.ran = job.ran /\ job'.sql = job.sql
    BY <2>2
  <2> QED
    BY <1>i, <1>1, <2>1, <2>2, WroteStays DEF JobInv
<1>5. ReplayInv'
  <2>1. CASE ReplayRead
    <3>1. replay'.sql = job.sql /\ replay'.ran = job.ran /\ replay'.by = job.by
      BY <2>1 DEF ReplayRead
    <3>2. Wrote(replay'.by, replay'.ran, replay'.sql)
      BY <1>i, <3>1 DEF JobInv
    <3> QED
      BY <1>1, <3>2 DEF ReplayInv, Wrote, Answers
  <2>2. CASE ReplayReturn
    BY <2>2 DEF ReplayReturn, ReplayInv, NoReplay
  <2>3. CASE UNCHANGED replay
    BY <1>i, <1>1, <2>3, WroteStays DEF ReplayInv
  <2> QED
    BY <2>1, <2>2, <2>3 DEF Deploy, Configure, LoseInput, CancelJob
<1> QED
  BY <1>2, <1>3, <1>4, <1>5 DEF TracesIInv

LEMMA TracesGoOn == TracesIInv /\ [TracesNext]_tracesVars => TracesIInv'
<1> SUFFICES ASSUME TracesIInv, [TracesNext]_tracesVars PROVE TracesIInv'
  OBVIOUS
<1>1. CASE Deploy \/ Configure \/ LoseInput \/ CancelJob \/ ReplayRead \/ ReplayReturn
  BY <1>1, OtherSteps
<1>2. ASSUME NEW r \in Runs, StartRun(r) \/ RunPipeline(r) \/ Raise(r) \/ CrashRun(r) \/ Write(r) PROVE TracesIInv'
  BY <1>2, StartStep, PipelineStep, RaiseOrCrashStep, WriteStep
<1>3. CASE UNCHANGED tracesVars
  BY <1>3 DEF tracesVars, TracesIInv, TracesTypes, TableInv, ToldInv, RunInv, JobInv, ReplayInv, Wrote, Answers
<1> QED
  BY <1>1, <1>2, <1>3 DEF TracesNext

LEMMA TracesKeep == TracesSpec => []TracesIInv
BY TracesBegin, TracesGoOn, PTL DEF TracesSpec

-----------------------------------------------------------------------------
\* The trace of a run says failed, and names a code, exactly if the run failed, but for
\* statements the guardrail refused last for a reason that is not one of security.
THEOREM Outcome == TracesSpec => []TraceTellsOutcome
<1>1. TracesIInv => TraceTellsOutcome
  BY DEF TracesIInv, ToldInv, Told, TraceTellsOutcome
<1> QED
  BY <1>1, TracesKeep, PTL

-----------------------------------------------------------------------------
(* The replay.                                                              *)

\* Filtering by the type that all of them have.
LEMMA NewestIsFirst ==
  ASSUME TableInv
  PROVE  Newest = Page(canonical, 0, 1)
<1>1. {t \in canonical : /\ Takes({"end_to_end"}, {t.type}) /\ Takes({}, {t.dialect})
                        /\ Takes({}, t.valid)} = canonical
  BY DEF TableInv, Takes
<1> QED
  BY <1>1 DEF Newest, ListTraces

\* One trace comes first.
LEMMA FirstIsOne ==
  ASSUME NEW S, Stamped(S), NEW t \in Page(S, 0, 1)
  PROVE  Page(S, 0, 1) = {t}
<1>1. \A u \in Page(S, 0, 1) : u \in S /\ Rank(S, u) = 1
  BY FromFinite DEF Page
<1> QED
  BY <1>1, RankOnto

\* A statement was valid: it still is, or no longer.
LEMMA StillValid ==
  ASSUME NEW a, NEW b, a.valid = {TRUE}, b.valid = {TRUE}
  PROVE  ValidationDelta(a, b) = {"same"}
BY DEF ValidationDelta

LEMMA NoLongerValid ==
  ASSUME NEW a, NEW b, a.valid = {TRUE}, b.valid = {FALSE}
  PROVE  ValidationDelta(a, b) = {"regression"}
<1>1. ASSUME NEW z PROVE z \in ValidationDelta(a, b) <=> z = "regression"
  <2>1. z \in ValidationDelta(a, b) <=>
          \E x \in a.valid, y \in b.valid :
            z = IF x = y THEN "same" ELSE IF x THEN "regression" ELSE "recovery"
    BY DEF ValidationDelta
  <2>2. TRUE \in a.valid /\ FALSE \in b.valid /\ (\A x \in a.valid : x) /\ (\A x \in b.valid : ~x)
    OBVIOUS
  <2> QED
    BY <2>1, <2>2
<1> QED
  BY <1>1

\* What a statement that was answered with is compared to.
LEMMA Compared ==
  ASSUME NEW t, Answered(t), NEW sql \in Sqls \ {Blank}
  PROVE  LET code == Verdict[<<version, job.dialect, sql>>]
         IN  Compare(Baseline(t), Observed(sql)) =
               IF code \in {"non_select_statement", "unsafe_sandbox_rejected"} THEN "security_regression"
               ELSE IF code # "ok" THEN "validation_regression"
               ELSE IF Tables[<<version, job.dialect>>] # t.tables THEN "retrieval_drift" ELSE "identical"
<1> DEFINE code == Verdict[<<version, job.dialect, sql>>]
           today == Tables[<<version, job.dialect>>]
           axis == SecurityAxis(code)
           a == Baseline(t)
           b == Observed(sql)
<1>1. a.tables = {t.tables} /\ a.valid = {TRUE} /\ a.denied = {{}}
  BY DEF Baseline, Measured, Answered
<1>2. sql # NoSql /\ sql # Blank
  BY TracesAssumption
<1>3. axis <=> code \in {"non_select_statement", "unsafe_sandbox_rejected"}
  BY DEF SecurityAxis, Category
<1>4. /\ b.tables = {today}
      /\ b.denied = {IF axis THEN {code} ELSE {}}
      /\ b.valid = {code = "ok" \/ axis}
  BY <1>2 DEF Observed
<1> HIDE DEF a, b, code, today, axis
<1>5. CASE axis
  <2>1. SecurityDelta(a, b) = {"regression"}
    BY <1>1, <1>4, <1>5 DEF SecurityDelta
  <2> QED
    BY <1>3, <1>5, <2>1 DEF Compare, a, b, code
<1>6. CASE ~axis
  <2>1. SecurityDelta(a, b) = {"same"}
    BY <1>1, <1>4, <1>6 DEF SecurityDelta
  <2>2. ValidationDelta(a, b) = {IF code = "ok" THEN "same" ELSE "regression"}
    <3>1. b.valid = {code = "ok"}
      BY <1>4, <1>6
    <3> DEFINE fine == code = "ok"
    <3>2. a.valid = {TRUE} /\ b.valid = {fine} /\ fine \in BOOLEAN
      BY <1>1, <3>1
    <3> HIDE DEF fine
    <3>3. ValidationDelta(a, b) = {IF fine THEN "same" ELSE "regression"}
      <4>1. fine = TRUE \/ fine = FALSE
        BY <3>2
      <4> QED
        BY <3>2, <4>1, StillValid, NoLongerValid
    <3> QED
      BY <3>3 DEF fine
  <2>3. RetrievalDelta(a, b) = {IF t.tables = today THEN "same" ELSE "drift"}
    BY <1>1, <1>4 DEF RetrievalDelta
  <2>4. Compare(a, b) = IF code # "ok" THEN "validation_regression"
                        ELSE IF today # t.tables THEN "retrieval_drift" ELSE "identical"
    BY <2>1, <2>2, <2>3 DEF Compare
  <2> QED
    BY <1>3, <1>6, <2>4 DEF a, b, code, today
<1> QED
  BY <1>5, <1>6

\* When the row and the newest trace are of one run, the replay (replay_service.py) tells
\* what changed since for the statement that run validated, unless redaction changed it.
THEOREM Replaying == TracesSpec => []ReplayTellsTheChange
<1>1. TracesIInv => ReplayTellsTheChange
  <2> SUFFICES ASSUME TracesIInv, NEW t \in Page(canonical, 0, 1),
                      replay.pc = "read", replay.by = t.run, t.dialect = job.dialect,
                      Redacted[replay.ran] = replay.ran
               PROVE  LET now == <<version, job.dialect>>
                          code == Verdict[<<version, job.dialect, replay.ran>>]
                      IN  ReplayVerdict(replay.sql) =
                            CASE ~input -> "input_unavailable"
                              [] input /\ Early[now] # "none" -> "replay_failed"
                              [] OTHER -> IF code \in {"non_select_statement", "unsafe_sandbox_rejected"}
                                          THEN "security_regression"
                                          ELSE IF code # "ok" THEN "validation_regression"
                                          ELSE IF Tables[now] # t.tables THEN "retrieval_drift" ELSE "identical"
    BY DEF ReplayTellsTheChange
  <2>1. t \in canonical /\ t.run \in Runs /\ t.run # NoRun
    BY TracesAssumption DEF TracesIInv, TableInv, Page
  <2>2. replay.sql \in Sqls \ {Blank} /\ replay.sql = replay.ran /\ Answered(t)
    BY <2>1 DEF TracesIInv, ReplayInv, Wrote, Answers
  <2>3. Newest = {t}
    <3>1. Stamped(canonical) /\ TableInv
      BY StampedSubset DEF TracesIInv, TableInv
    <3> QED
      BY <3>1, NewestIsFirst, FirstIsOne
  <2>4. (CHOOSE u \in Newest : TRUE) = t /\ Newest # {}
    BY <2>3
  <2> DEFINE compared == Compare(Baseline(t), Observed(replay.sql))
  <2>5. ReplayVerdict(replay.sql) = IF ~input THEN "input_unavailable"
                                    ELSE IF Early[<<version, job.dialect>>] # "none" THEN "replay_failed"
                                    ELSE compared
    BY <2>4 DEF ReplayVerdict
  <2>6. compared =
          LET code == Verdict[<<version, job.dialect, replay.ran>>]
          IN  IF code \in {"non_select_statement", "unsafe_sandbox_rejected"} THEN "security_regression"
              ELSE IF code # "ok" THEN "validation_regression"
              ELSE IF Tables[<<version, job.dialect>>] # t.tables THEN "retrieval_drift" ELSE "identical"
    BY <2>2, Compared
  <2> HIDE DEF compared
  <2> QED
    BY <2>5, <2>6
<1> QED
  BY <1>1, TracesKeep, PTL

-----------------------------------------------------------------------------
(* The listing.                                                             *)

\* Whatever the filters and the page: the merged page is the page of all that match.
Filters(S) == {{}} \cup {{x} : x \in S}
AllQueries == [type : Filters({"nl2sql", "end_to_end"}), dialect : Filters(Dialects), valid : Filters(BOOLEAN)]

Matching(q) == {t \in canonical \cup legacy : MatchesDebugQuery(t, q)}

EveryPageIsExact ==
  \A q \in AllQueries, offset \in Nat, limit \in Nat :
    DebugList(q, offset, limit) =
      [traces |-> Page(Matching(q), offset, limit), more |-> (Cardinality(Matching(q)) > offset + limit)]

LEMMA MergedIsPage ==
  ASSUME TableInv, NEW q, NEW offset \in Nat, NEW limit \in Nat
  PROVE  Merged(q, offset, limit) = Page(Matching(q), offset, limit)
<1> DEFINE mine == {t \in canonical : /\ Takes(q.type, {t.type}) /\ Takes(q.dialect, {t.dialect})
                                  /\ Takes(q.valid, t.valid)}
           legacies == {t \in legacy : Takes(q.dialect, {t.dialect}) /\ Takes(q.valid, t.valid)}
           theirs == {t \in legacies : Takes(q.type, {t.type})}
           k == offset + limit
<1>1. Matching(q) = mine \cup theirs
  BY DEF Matching, MatchesDebugQuery
<1>2. Stamped(mine \cup theirs)
  <2>1. mine \cup theirs \subseteq canonical \cup legacy
    OBVIOUS
  <2> QED
    BY <2>1, StampedSubset DEF TableInv
<1>3. /\ ListTraces(q, 0, k) = Page(mine, 0, k) /\ ListTracesLegacy(q, 0, k) = Page(legacies, 0, k)
      /\ SubQuery(offset, limit).offset = 0 /\ SubQuery(offset, limit).limit = k
  BY DEF ListTraces, ListTracesLegacy, SubQuery
<1>4. Merged(q, offset, limit) =
        Page({t \in Page(mine, 0, k) \cup Page(legacies, 0, k) : MatchesDebugQuery(t, q)}, offset, limit)
  BY <1>3 DEF Merged
<1>5. \A t \in Page(mine, 0, k) : MatchesDebugQuery(t, q)
  BY DEF Page, MatchesDebugQuery
<1>6. \A t \in Page(legacies, 0, k) : t \in legacies /\ t.type = "nl2sql" /\ (MatchesDebugQuery(t, q) <=> Takes(q.type, {t.type}))
  BY DEF Page, MatchesDebugQuery, TableInv
<1>7. {t \in Page(legacies, 0, k) : MatchesDebugQuery(t, q)} = Page(theirs, 0, k)
  <2>1. CASE Takes(q.type, {"nl2sql"})
    <3>1. theirs = legacies
      BY <2>1 DEF TableInv
    <3> HIDE DEF mine, legacies, theirs, k
    <3> QED
      BY <1>6, <2>1, <3>1
  <2>2. CASE ~Takes(q.type, {"nl2sql"})
    <3>1. theirs = {}
      BY <2>2 DEF TableInv
    <3>2. Page(theirs, 0, k) = {}
      BY <3>1 DEF Page
    <3> HIDE DEF mine, legacies, theirs, k
    <3> QED
      BY <1>6, <2>2, <3>2
  <2> QED
    BY <2>1, <2>2
<1> HIDE DEF mine, legacies, theirs
<1>8. {t \in Page(mine, 0, k) \cup Page(legacies, 0, k) : MatchesDebugQuery(t, q)} = Page(mine, 0, k) \cup Page(theirs, 0, k)
  BY <1>5, <1>7
<1>9. Page(Page(mine, 0, k) \cup Page(theirs, 0, k), offset, limit) = Page(mine \cup theirs, offset, limit)
  <2> HIDE DEF k
  <2>1. Page(Page(mine, 0, offset + limit) \cup Page(theirs, 0, offset + limit), offset, limit) = Page(mine \cup theirs, offset, limit)
    BY <1>2, MergedPage, SMTT(30)
  <2> QED
    BY <2>1 DEF k
<1> QED
  BY <1>1, <1>4, <1>8, <1>9

LEMMA ListIsExact ==
  ASSUME TableInv, NEW q, NEW offset \in Nat, NEW limit \in Nat
  PROVE  DebugList(q, offset, limit) =
           [traces |-> Page(Matching(q), offset, limit), more |-> (Cardinality(Matching(q)) > offset + limit)]
<1> DEFINE S == Matching(q)
           rows == Page(S, offset, limit + 1)
<1>1. Stamped(S)
  <2>1. S \subseteq canonical \cup legacy
    BY DEF Matching
  <2> QED
    BY <2>1, StampedSubset DEF TableInv
<1>2. Merged(q, offset, limit + 1) = rows
  BY MergedIsPage
<1>3. Page(rows, 0, limit) = Page(S, offset, limit)
  BY <1>1, PageOfPage
<1>4. Cardinality(rows) > limit <=> Cardinality(S) > offset + limit
  BY <1>1, PageSize
<1> HIDE DEF S, rows
<1>5. DebugList(q, offset, limit) = [traces |-> Page(rows, 0, limit), more |-> (Cardinality(rows) > limit)]
  BY <1>2 DEF DebugList
<1>6. (Cardinality(rows) > limit) = (Cardinality(S) > offset + limit)
  BY <1>4
<1> QED
  BY <1>3, <1>5, <1>6 DEF S

\* The debug listing, merged from its two tables, is exact: for the pages the run looks
\* at, and for every page of every query.
THEOREM Paging == TracesSpec => []PagesAreExact
<1>1. TracesIInv => PagesAreExact
  <2> SUFFICES ASSUME TracesIInv, NEW q \in Queries, NEW offset \in 0..1
               PROVE  DebugList(q, offset, 1) =
                        [traces |-> Page(Matching(q), offset, 1), more |-> (Cardinality(Matching(q)) > offset + 1)]
    BY DEF PagesAreExact, Matching
  <2> QED
    <3>1. TableInv /\ offset \in Nat /\ 1 \in Nat
      BY DEF TracesIInv
    <3> QED
      BY <3>1, ListIsExact
<1> QED
  BY <1>1, TracesKeep, PTL

\* The same for every query, offset and limit.
THEOREM EveryPage == TracesSpec => []EveryPageIsExact
<1>1. TracesIInv => EveryPageIsExact
  BY ListIsExact DEF TracesIInv, EveryPageIsExact
<1> QED
  BY <1>1, TracesKeep, PTL

-----------------------------------------------------------------------------
(* Metrics and dashboard of a window.                                       *)

\* What MetricsAreWhole says of one window.
Whole(d, cap, bucket) ==
  LET all == {t \in canonical : Takes(d, {t.dialect})}
      board == ComposeDashboard(bucket, Window(d, cap))
      outcome == board.metrics.outcome
      series == board.timeseries
  IN  /\ board.truncated <=> Cardinality(all) > cap
      /\ ~board.truncated => outcome.total = Cardinality(all)
      /\ outcome.completed < outcome.total =>
           \/ board.metrics.errors # {}
           \/ \E t \in all : \E x \in t.last : x.blank
      /\ ~board.cut => /\ SumOf([x \in DOMAIN series |-> series[x].total]) = outcome.total
                       /\ SumOf([x \in DOMAIN series |-> series[x].errors]) = outcome.total - outcome.completed
      /\ \A t \in Page(all, 0, 1) : Floor(bucket, t) \in DOMAIN series

EveryWindowIsWhole ==
  \A d \in SUBSET Dialects, cap \in Nat \ {0}, bucket \in {"hour", "day"} : Whole(d, cap, bucket)

Buckets == {"hour", "day"}

LEMMA FloorIsMonotone ==
  ASSUME NEW bucket \in Buckets, NEW t, NEW u, t.at \in Nat, u.at \in Nat, t.at >= u.at
  PROVE  Floor(bucket, t) \in Nat /\ Floor(bucket, u) \in Nat /\ Floor(bucket, t) >= Floor(bucket, u)
<1> DEFINE a == t.at
           b == u.at
<1>0. a \in Nat /\ b \in Nat /\ a >= b
  OBVIOUS
<1> HIDE DEF a, b
<1>1. a \div 2 \in Nat /\ b \div 2 \in Nat /\ a \div 2 >= b \div 2
  BY <1>0
<1>2. a \div 8 \in Nat /\ b \div 8 \in Nat /\ a \div 8 >= b \div 8
  BY <1>0
<1>3. Floor(bucket, t) = (IF bucket = "hour" THEN a \div 2 ELSE a \div 8)
  BY DEF Floor, a
<1>4. Floor(bucket, u) = (IF bucket = "hour" THEN b \div 2 ELSE b \div 8)
  BY DEF Floor, b
<1> QED
  BY <1>1, <1>2, <1>3, <1>4

\* The window is the newest traces, up to the cap, and knows whether there are more.
LEMMA WindowIsPage ==
  ASSUME TableInv, NEW d, NEW cap \in Nat
  PROVE  LET all == {t \in canonical : Takes(d, {t.dialect})}
         IN  /\ Stamped(all)
             /\ Window(d, cap).used = Page(all, 0, cap)
             /\ Window(d, cap).truncated = (Cardinality(all) > cap)
             /\ Cardinality(all) <= cap => Page(all, 0, cap) = all
<1> DEFINE all == {t \in canonical : Takes(d, {t.dialect})}
           rows == Page(all, 0, cap + 1)
<1>1. Stamped(all)
  <2>1. all \subseteq canonical \cup legacy
    OBVIOUS
  <2> QED
    BY <2>1, StampedSubset DEF TableInv
<1>2. {t \in canonical : /\ Takes({"end_to_end"}, {t.type}) /\ Takes(d, {t.dialect})
                        /\ Takes({}, t.valid)} = all
  BY DEF TableInv, Takes
<1>3. Window(d, cap) = [used |-> Page(rows, 0, cap), truncated |-> (Cardinality(rows) > cap)]
  BY <1>2 DEF Window, ListTraces, Scan
<1> HIDE DEF all
<1>4. Page(rows, 0, cap) = Page(all, 0, cap)
  BY <1>1, PageOfPage
<1>5. Cardinality(rows) > cap <=> Cardinality(all) > 0 + cap
  BY <1>1, PageSize
<1>6. Cardinality(all) \in Nat
  BY <1>1, FromFinite
<1>7. (Cardinality(rows) > cap) = (Cardinality(all) > cap)
  BY <1>5, <1>6
<1>8. ASSUME Cardinality(all) <= cap PROVE Page(all, 0, cap) = all
  <2>1. \A t \in all : Rank(all, t) \in 1..Cardinality(all)
    BY <1>1, RankOnto
  <2>2. \A t \in all : Rank(all, t) \in 0 + 1..0 + cap
    BY <1>6, <1>8, <2>1
  <2> QED
    BY <2>2 DEF Page
<1> HIDE DEF rows
<1>9. Window(d, cap).used = Page(all, 0, cap) /\ Window(d, cap).truncated = (Cardinality(all) > cap)
  BY <1>3, <1>4, <1>7
<1> QED
  BY <1>1, <1>8, <1>9 DEF all

\* Every counted trace is completed or failed.
LEMMA EndedOneWay ==
  ASSUME NEW used, IsFiniteSet(used)
  PROVE  /\ Ended(used, "completed") \in Nat /\ Ended(used, "failed") \in Nat
         /\ Cardinality(used) = Ended(used, "completed") + Ended(used, "failed")
<1> DEFINE good == {t \in used : TerminalStatus(t) = "completed"}
           bad == {t \in used : TerminalStatus(t) = "failed"}
<1>1. good \cup bad = used /\ good \cap bad = {} /\ good \in SUBSET used /\ bad \in SUBSET used
  BY DEF TerminalStatus
<1>2. Ended(used, "completed") = Cardinality(good) /\ Ended(used, "failed") = Cardinality(bad)
  BY DEF Ended
<1> HIDE DEF good, bad
<1>3. IsFiniteSet(good) /\ IsFiniteSet(bad) /\ Cardinality(good) \in Nat /\ Cardinality(bad) \in Nat
  BY <1>1, FS_Subset, FS_CardinalityType
<1>4. Cardinality(good \cap bad) = 0
  BY <1>1, FS_EmptySet
<1>5. Cardinality(good \cup bad) = Cardinality(good) + Cardinality(bad) - Cardinality(good \cap bad)
  BY <1>3, FS_Union
<1>6. Cardinality(good \cup bad) = Cardinality(good) + Cardinality(bad)
  BY <1>3, <1>4, <1>5
<1>7. Cardinality(used) = Cardinality(good) + Cardinality(bad)
  BY <1>1, <1>6
<1> QED
  BY <1>2, <1>3, <1>7

LEMMA SumOfIsSumOver == ASSUME NEW f PROVE SumOf(f) = SumOver(f, DOMAIN f)
BY DEF SumOf, SumOver

\* The buckets, unless cut, are a partition of the traces.
LEMMA BucketsAddUp ==
  ASSUME NEW used, IsFiniteSet(used), NEW bucket,
         NEW series, series = BucketTimeseries(bucket, used),
         DOMAIN series = {Floor(bucket, t) : t \in used}
  PROVE  /\ SumOf([x \in DOMAIN series |-> series[x].total]) = Cardinality(used)
         /\ SumOf([x \in DOMAIN series |-> series[x].errors]) = Ended(used, "failed")
<1> DEFINE D == {Floor(bucket, t) : t \in used}
           bad == {t \in used : TerminalStatus(t) = "failed"}
           In(U, x) == {t \in U : Floor(bucket, t) = x}
           totals == [x \in D |-> series[x].total]
           errors == [x \in D |-> series[x].errors]
<1>1. \A x \in D : series[x] = [total |-> Cardinality(In(used, x)), errors |-> Ended(In(used, x), "failed")]
  BY DEF BucketTimeseries
<1>2. \A x \in D : totals[x] = Cardinality(In(used, x)) /\ errors[x] = Cardinality(In(bad, x))
  <2> SUFFICES ASSUME NEW x \in D
               PROVE  totals[x] = Cardinality(In(used, x)) /\ errors[x] = Cardinality(In(bad, x))
    OBVIOUS
  <2>1. {t \in In(used, x) : TerminalStatus(t) = "failed"} = In(bad, x)
    OBVIOUS
  <2>2. Ended(In(used, x), "failed") = Cardinality(In(bad, x))
    BY <2>1 DEF Ended
  <2>3. series[x].total = Cardinality(In(used, x)) /\ series[x].errors = Cardinality(In(bad, x))
    <3>1. series[x] = [total |-> Cardinality(In(used, x)), errors |-> Ended(In(used, x), "failed")]
      BY <1>1, Zenon
    <3> DEFINE n == Cardinality(In(used, x))
               m == Ended(In(used, x), "failed")
    <3> HIDE DEF n, m
    <3>2. series[x] = [total |-> n, errors |-> m]
      BY <3>1 DEF n, m
    <3>3. series[x].total = n /\ series[x].errors = m
      BY <3>2
    <3> QED
      BY <3>3, <2>2 DEF n, m
  <2>4. totals[x] = series[x].total /\ errors[x] = series[x].errors
    <3> HIDE DEF D
    <3> QED
      OBVIOUS
  <2> HIDE DEF In, D, bad, totals, errors
  <2> QED
    BY <2>3, <2>4
<1>3. IsFiniteSet(D)
  <2> DEFINE g == [t \in used |-> Floor(bucket, t)]
  <2>1. g \in Surjection(used, D)
    BY DEF Surjection
  <2> HIDE DEF g, D
  <2> QED
    BY <2>1, FS_Surjection
<1>4. ASSUME NEW U, U \subseteq used, NEW w, \A x \in D : w[x] = Cardinality(In(U, x)), w = [x \in D |-> w[x]]
      PROVE  SumOver(w, D) = Cardinality(U)
  <2> DEFINE g == [t \in U |-> Floor(bucket, t)]
  <2>1. IsFiniteSet(U) /\ g \in [U -> D]
    BY <1>4, FS_Subset
  <2>2. \A x \in D : {t \in U : g[t] = x} = In(U, x)
    OBVIOUS
  <2>3. \A x \in D : Cardinality(In(U, x)) \in Nat
    BY <2>1, FS_Subset, FS_CardinalityType
  <2>4. w \in [D -> Nat]
    <3> HIDE DEF In, D
    <3> QED
      BY <1>4, <2>3
  <2>5. \A x \in D : w[x] = Cardinality({t \in U : g[t] = x})
    BY <1>4, <2>2
  <2> HIDE DEF g, D, In
  <2> QED
    BY <1>3, <2>1, <2>4, <2>5, SumOfParts
<1>5. SumOver(totals, D) = Cardinality(used)
  <2> HIDE DEF In, D
  <2>1. totals = [x \in D |-> totals[x]]
    OBVIOUS
  <2> HIDE DEF totals
  <2> QED
    BY <1>2, <1>4, <2>1
<1>6. SumOver(errors, D) = Cardinality(bad)
  <2>0. bad \subseteq used
    OBVIOUS
  <2> HIDE DEF In, D, bad
  <2>1. errors = [x \in D |-> errors[x]]
    OBVIOUS
  <2> HIDE DEF errors
  <2> QED
    BY <1>2, <1>4, <2>0, <2>1
<1>7. DOMAIN totals = D /\ DOMAIN errors = D
  OBVIOUS
<1>8. SumOf(totals) = Cardinality(used) /\ SumOf(errors) = Cardinality(bad)
  <2> HIDE DEF totals, errors, D, bad
  <2> QED
    BY <1>5, <1>6, <1>7, SumOfIsSumOver
<1>9. Ended(used, "failed") = Cardinality(bad)
  BY DEF Ended
<1> HIDE DEF bad
<1> QED
  BY <1>8, <1>9

\* What the window's newest trace is, and where it falls.
LEMMA NewestInBuckets ==
  ASSUME NEW S, Stamped(S), NEW cap \in Nat \ {0}, NEW bucket \in Buckets, NEW t \in Page(S, 0, 1)
  PROVE  Floor(bucket, t) \in DOMAIN BucketTimeseries(bucket, Page(S, 0, cap))
<1> DEFINE used == Page(S, 0, cap)
           starts == {Floor(bucket, u) : u \in used}
           x == Floor(bucket, t)
<1>1. t \in S /\ Rank(S, t) = 1 /\ t \in used
  BY FromFinite DEF Page
<1>2. ASSUME NEW u \in S PROVE t.at \in Nat /\ u.at \in Nat /\ t.at >= u.at
  <2>1. t.at \in Nat /\ u.at \in Nat
    BY <1>1 DEF Stamped
  <2>2. Rank(S, u) \in 1..Cardinality(S)
    BY RankOnto
  <2>3. u.at > t.at => Rank(S, u) < 1
    BY <1>1, RankOrder
  <2> QED
    BY <2>1, <2>2, <2>3, FromFinite
<1>3. x \in Nat /\ \A z \in starts : z \in Nat /\ x >= z
  <2>1. \A u \in S : Floor(bucket, u) \in Nat /\ x \in Nat /\ x >= Floor(bucket, u)
    BY <1>2, FloorIsMonotone
  <2>2. \A u \in used : u \in S
    BY DEF Page
  <2> HIDE DEF x, used
  <2> QED
    BY <1>1, <2>1, <2>2
<1>4. x \in starts
  BY <1>1
<1> HIDE DEF x
<1>5. {z \in starts : z >= x} = {x}
  <2> HIDE DEF starts
  <2>1. \A z \in starts : z >= x <=> z = x
    BY <1>3
  <2> QED
    BY <1>4, <2>1
<1>6. Cardinality({z \in starts : z >= x}) <= MaxBuckets
  <2>1. Cardinality({x}) = 1 /\ MaxBuckets \in Nat \ {0}
    BY FS_Singleton, TracesAssumption
  <2> HIDE DEF starts
  <2> QED
    BY <1>5, <2>1
<1>7. DOMAIN BucketTimeseries(bucket, used) = {y \in starts : Cardinality({z \in starts : z >= y}) <= MaxBuckets}
  BY DEF BucketTimeseries
<1>8. x \in DOMAIN BucketTimeseries(bucket, used)
  <2> HIDE DEF starts, used
  <2> QED
    BY <1>4, <1>6, <1>7
<1> QED
  BY <1>8 DEF x

\* What has not completed is told by a code, or ended on an empty answer.
LEMMA FailuresHaveCodes ==
  ASSUME NEW used, IsFiniteSet(used), \A t \in used : Told(t),
         Ended(used, "completed") < Cardinality(used)
  PROVE  \/ UNION {ErrorCodes(t) : t \in used} # {}
         \/ \E t \in used : \E x \in t.last : x.blank
<1>1. PICK t \in used : TerminalStatus(t) # "completed"
  <2> SUFFICES ASSUME \A t \in used : TerminalStatus(t) = "completed" PROVE FALSE
    OBVIOUS
  <2>1. {t \in used : TerminalStatus(t) = "completed"} = used
    OBVIOUS
  <2>2. Ended(used, "completed") = Cardinality(used)
    BY <2>1 DEF Ended
  <2> QED
    BY <2>2, FS_CardinalityType
<1>2. CASE ErrorCodes(t) # {}
  BY <1>1, <1>2
<1>3. CASE ErrorCodes(t) = {}
  <2>1. \E x \in t.last : x.blank
    BY <1>1, <1>3 DEF Told
  <2> QED
    BY <1>1, <2>1
<1> QED
  BY <1>2, <1>3

LEMMA WindowIsWhole ==
  ASSUME TracesIInv, NEW d, NEW cap \in Nat \ {0}, NEW bucket \in Buckets
  PROVE  Whole(d, cap, bucket)
<1> DEFINE all == {t \in canonical : Takes(d, {t.dialect})}
           used == Page(all, 0, cap)
           board == ComposeDashboard(bucket, Window(d, cap))
           series == BucketTimeseries(bucket, used)
<1>1. /\ Stamped(all) /\ Window(d, cap).used = used
      /\ Window(d, cap).truncated = (Cardinality(all) > cap)
      /\ Cardinality(all) <= cap => used = all
  BY WindowIsPage DEF TracesIInv
<1>2. /\ board.truncated = (Cardinality(all) > cap) /\ board.timeseries = series
      /\ board.metrics.outcome.total = Cardinality(used)
      /\ board.metrics.outcome.completed = Ended(used, "completed")
      /\ board.metrics.errors = UNION {ErrorCodes(t) : t \in used}
      /\ board.cut = ({Floor(bucket, t) : t \in used} # DOMAIN series)
  <2> HIDE DEF all, used
  <2> QED
    BY <1>1 DEF ComposeDashboard, ComputeMetrics, OutcomeMetrics, ErrorMetrics
<1>3. used \subseteq all /\ \A t \in all : Told(t)
  BY DEF Page, TracesIInv, ToldInv
<1>4. IsFiniteSet(used) /\ Cardinality(all) \in Nat
  <2> HIDE DEF all
  <2>1. IsFiniteSet(all) /\ Cardinality(all) \in Nat
    BY <1>1, FromFinite DEF Stamped
  <2> QED
    BY <1>3, <2>1, FS_Subset
<1> HIDE DEF all, used, board
<1>5. board.truncated <=> Cardinality(all) > cap
  BY <1>2
<1>6. ~board.truncated => board.metrics.outcome.total = Cardinality(all)
  <2> SUFFICES ASSUME ~board.truncated PROVE board.metrics.outcome.total = Cardinality(all)
    OBVIOUS
  <2>1. Cardinality(all) <= cap
    BY <1>4, <1>5
  <2>2. used = all
    BY <1>1, <2>1
  <2>3. board.metrics.outcome.total = Cardinality(used)
    BY <1>2
  <2> QED
    BY <2>2, <2>3
<1>7. board.metrics.outcome.completed < board.metrics.outcome.total =>
        \/ board.metrics.errors # {}
        \/ \E t \in all : \E x \in t.last : x.blank
  <2>1. Ended(used, "completed") < Cardinality(used) =>
          \/ UNION {ErrorCodes(t) : t \in used} # {}
          \/ \E t \in used : \E x \in t.last : x.blank
    BY <1>3, <1>4, FailuresHaveCodes
  <2> QED
    BY <1>2, <1>3, <2>1
<1> HIDE DEF series
<1>8. ~board.cut => /\ SumOf([x \in DOMAIN series |-> series[x].total]) = board.metrics.outcome.total
                    /\ SumOf([x \in DOMAIN series |-> series[x].errors])
                         = board.metrics.outcome.total - board.metrics.outcome.completed
  <2> SUFFICES ASSUME ~board.cut
               PROVE  /\ SumOf([x \in DOMAIN series |-> series[x].total]) = board.metrics.outcome.total
                      /\ SumOf([x \in DOMAIN series |-> series[x].errors])
                           = board.metrics.outcome.total - board.metrics.outcome.completed
    OBVIOUS
  <2>1. series = BucketTimeseries(bucket, used) /\ DOMAIN series = {Floor(bucket, t) : t \in used}
    BY <1>2 DEF series
  <2>2. /\ SumOf([x \in DOMAIN series |-> series[x].total]) = Cardinality(used)
        /\ SumOf([x \in DOMAIN series |-> series[x].errors]) = Ended(used, "failed")
    BY <1>4, <2>1, BucketsAddUp
  <2>3. /\ Ended(used, "completed") \in Nat /\ Ended(used, "failed") \in Nat
        /\ Cardinality(used) = Ended(used, "completed") + Ended(used, "failed")
    BY <1>4, EndedOneWay
  <2>4. Ended(used, "failed") = Cardinality(used) - Ended(used, "completed")
    BY <2>3
  <2> QED
    BY <1>2, <2>2, <2>4
<1>9. \A t \in Page(all, 0, 1) : Floor(bucket, t) \in DOMAIN series
  BY <1>1, NewestInBuckets DEF series, used
<1> QED
  BY <1>2, <1>5, <1>6, <1>7, <1>8, <1>9 DEF Whole, all, board

\* Metrics and dashboard of a window count every trace in it or say what they leave out:
\* for the windows the run looks at, and for every filter, cap and bucket.
THEOREM Metrics == TracesSpec => []MetricsAreWhole
<1>1. TracesIInv => MetricsAreWhole
  <2>1. ASSUME TracesIInv, NEW d \in SUBSET {job.dialect}, NEW cap \in 1..2, NEW bucket \in {"hour", "day"}
        PROVE  Whole(d, cap, bucket)
    BY <2>1, WindowIsWhole DEF Buckets
  <2> QED
    BY <2>1 DEF MetricsAreWhole, Whole
<1> QED
  BY <1>1, TracesKeep, PTL

\* The same for every filter, cap and bucket width.
THEOREM EveryWindow == TracesSpec => []EveryWindowIsWhole
<1>1. TracesIInv => EveryWindowIsWhole
  BY WindowIsWhole DEF EveryWindowIsWhole, Buckets
<1> QED
  BY <1>1, TracesKeep, PTL
=============================================================================

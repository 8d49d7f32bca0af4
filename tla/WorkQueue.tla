----------------------------- MODULE WorkQueue ------------------------------
(***************************************************************************)
(* What the job queue promises to whoever submits and operates it, with no *)
(* worker, heartbeat, clock or cancel race in sight: a job is leased to at *)
(* most one holder, every lease uses up one of MaxUses, a lease ends in a  *)
(* retry, in a settled job or in a stranded one that is later reclaimed,   *)
(* and only an operator reopens a settled job.                             *)
(***************************************************************************)
EXTENDS Naturals

CONSTANTS Jobs, MaxUses

VARIABLES phase,  \* phase[j]: where job j stands
          uses    \* uses[j]: leases of job j since it was submitted or reopened

vars == <<phase, uses>>

Phases == {"absent", "queued", "leased", "stranded", "settled"}

Init == phase = [j \in Jobs |-> "absent"] /\ uses = [j \in Jobs |-> 0]

Move(j, from, to) == phase[j] \in from /\ phase' = [phase EXCEPT ![j] = to]

Submit(j) == Move(j, {"absent"}, "queued") /\ UNCHANGED uses

Lease(j) ==
  /\ Move(j, {"queued"}, "leased")
  /\ uses[j] < MaxUses
  /\ uses' = [uses EXCEPT ![j] = @ + 1]

GiveBack(j) == Move(j, {"leased"}, "queued") /\ uses[j] < MaxUses /\ UNCHANGED uses

Settle(j) == Move(j, {"leased"}, "settled") /\ UNCHANGED uses

\* The holder is gone and nobody was told.
Strand(j) == Move(j, {"leased"}, "stranded") /\ UNCHANGED uses

\* Recovery takes any number of stranded jobs at once: back into the queue
\* while they have uses left, settled otherwise.
Reclaim(S) ==
  /\ \A j \in S : phase[j] = "stranded"
  /\ phase' = [j \in Jobs |-> IF j \notin S THEN phase[j]
                              ELSE IF uses[j] < MaxUses THEN "queued" ELSE "settled"]
  /\ UNCHANGED uses

Withdraw(j) == Move(j, {"queued", "stranded"}, "settled") /\ UNCHANGED uses

Reopen(j) == Move(j, {"settled"}, "queued") /\ uses' = [uses EXCEPT ![j] = 0]

Next ==
  \/ \E j \in Jobs : \/ Submit(j) \/ Lease(j) \/ GiveBack(j) \/ Settle(j)
                     \/ Strand(j) \/ Withdraw(j) \/ Reopen(j)
  \/ \E S \in SUBSET Jobs : Reclaim(S)

Spec == Init /\ [][Next]_vars
=============================================================================

------------------------------ MODULE WorkPool ------------------------------
(***************************************************************************)
(* What BlockGenerator promises its callers, without the spiral, the       *)
(* counters or the mutex: a finite pool of jobs shared by a set of         *)
(* threads.  A thread that asks is granted one pending job, which leaves   *)
(* the pool in the same instant, or is refused when none is pending.       *)
(* BlockGenerator implements this specification.                           *)
(***************************************************************************)
CONSTANTS Threads,     \* the callers
          Jobs,        \* everything there is to hand out
          NoJob        \* what a thread holds before its first grant, not a job

VARIABLES pending,     \* the jobs nobody has received
          phase,       \* where each thread is in its current request
          held         \* the job each thread was granted last

vars == <<pending, phase, held>>

Phases == {"idle", "asked", "granted", "refused"}

\* The states of a pool of jobs.
TypeOK ==
    /\ pending \subseteq Jobs
    /\ phase \in [Threads -> Phases]
    /\ held \in [Threads -> Jobs \cup {NoJob}]

Init ==
    /\ pending = Jobs
    /\ phase = [t \in Threads |-> "idle"]
    /\ held = [t \in Threads |-> NoJob]

Ask(t) ==
    /\ phase[t] = "idle"
    /\ phase' = [phase EXCEPT ![t] = "asked"]
    /\ UNCHANGED <<pending, held>>

Grant(t) ==
    /\ phase[t] = "asked"
    /\ \E j \in pending :
        /\ pending' = pending \ {j}
        /\ held' = [held EXCEPT ![t] = j]
    /\ phase' = [phase EXCEPT ![t] = "granted"]

\* A refused thread keeps whatever it held before.
Refuse(t) ==
    /\ phase[t] = "asked"
    /\ pending = {}
    /\ phase' = [phase EXCEPT ![t] = "refused"]
    /\ UNCHANGED <<pending, held>>

Return(t) ==
    /\ phase[t] \in {"granted", "refused"}
    /\ phase' = [phase EXCEPT ![t] = "idle"]
    /\ UNCHANGED <<pending, held>>

Next == \E t \in Threads : Ask(t) \/ Grant(t) \/ Refuse(t) \/ Return(t)

Spec == Init /\ [][Next]_vars
=============================================================================

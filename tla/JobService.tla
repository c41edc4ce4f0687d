----------------------------- MODULE JobService -----------------------------
(***************************************************************************)
(* What the worker foundation promises to those who submit jobs and to     *)
(* those who read publications, with no attempts, leases, processes or     *)
(* clocks: an accepted job is either applied, exactly once and together    *)
(* with its effect on the pointer of its source, or abandoned without any  *)
(* effect.  WorkerFoundation implements it.                                *)
(***************************************************************************)
EXTENDS Naturals

CONSTANTS
    Sources, Jobs,
    JobSource,  \* the source of each job
    NoJob       \* not a job

VARIABLES
    outcome,    \* how each job stands for its submitter
    current,    \* the job whose result each source serves
    previous,   \* the job whose result a rollback would restore
    generation  \* how often the pointer of each source moved

serviceVars == <<outcome, current, previous, generation>>

Move(s, j) ==
    /\ current' = [current EXCEPT ![s] = j]
    /\ previous' = [previous EXCEPT ![s] = current[s]]
    /\ generation' = [generation EXCEPT ![s] = @ + 1]

ServiceInit ==
    /\ outcome = [j \in Jobs |-> "absent"]
    /\ current = [s \in Sources |-> NoJob]
    /\ previous = [s \in Sources |-> NoJob]
    /\ generation = [s \in Sources |-> 0]

Accept(j) ==
    /\ outcome[j] = "absent"
    /\ outcome' = [outcome EXCEPT ![j] = "accepted"]
    /\ UNCHANGED <<current, previous, generation>>

\* The effect of a job and its outcome are one step.
Apply(j) ==
    /\ outcome[j] = "accepted"
    /\ outcome' = [outcome EXCEPT ![j] = "applied"]
    /\ \/ Move(JobSource[j], j)
       \/ UNCHANGED <<current, previous, generation>>

\* One sweep may give up several jobs.
Abandon(J) ==
    /\ \A j \in J : outcome[j] = "accepted"
    /\ outcome' = [j \in Jobs |-> IF j \in J THEN "abandoned" ELSE outcome[j]]
    /\ UNCHANGED <<current, previous, generation>>

Rollback(s) ==
    /\ previous[s] # NoJob
    /\ Move(s, previous[s])
    /\ UNCHANGED outcome

ServiceNext ==
    \/ \E j \in Jobs : Accept(j) \/ Apply(j)
    \/ \E J \in SUBSET Jobs : Abandon(J)
    \/ \E s \in Sources : Rollback(s)

ServiceSpec == ServiceInit /\ [][ServiceNext]_serviceVars
=============================================================================

------------------------- MODULE JobRequestLifecycle -------------------------
(***************************************************************************)
(* What the operator promises of a JobRequest, told without reconcilers,   *)
(* copies, caches, queues or restarts: the phases a request goes through,  *)
(* and the one Job that is run for it.  JobRequestOperator is shown to     *)
(* implement it.                                                           *)
(***************************************************************************)
EXTENDS Naturals

CONSTANT Requests

VARIABLES
    phase,  \* of the request; "None" before it is created
    run     \* of the Job made for it

lifecycleVars == <<phase, run>>

LifecycleInit ==
    /\ phase = [n \in Requests |-> "None"]
    /\ run = [n \in Requests |-> "Absent"]

Enter(n, p) == phase' = [phase EXCEPT ![n] = p] /\ UNCHANGED run

Submit(n) == phase[n] = "None" /\ Enter(n, "New")

Accept(n) == phase[n] = "New" /\ Enter(n, "Pending")

(* A review decides, once.                                                  *)
Decide(n, decision) == phase[n] = "Pending" /\ Enter(n, decision)

(* The Job of an Approved request is made once ...                          *)
Launch(n) ==
    /\ phase[n] = "Approved" /\ run[n] = "Absent"
    /\ run' = [run EXCEPT ![n] = "Running"]
    /\ UNCHANGED phase

(* ... and the request is Started after that, never before.                 *)
Start(n) == phase[n] = "Approved" /\ run[n] # "Absent" /\ Enter(n, "Started")

(* The name of its Job is in use when an Approved request is looked at.     *)
Conflict(n) == phase[n] = "Approved" /\ Enter(n, "Conflicted")

Finish(n, outcome) ==
    /\ run[n] = "Running"
    /\ run' = [run EXCEPT ![n] = outcome]
    /\ UNCHANGED phase

(* A Started request ends as its Job ended.                                 *)
Record(n) ==
    /\ phase[n] = "Started" /\ run[n] \in {"Complete", "Failed"}
    /\ Enter(n, run[n])

(* The requester or the target of a request is not (or no longer) known.    *)
Refuse(n) ==
    /\ phase[n] \in {"New", "Pending", "Approved", "Rejected", "Started"}
    /\ Enter(n, "Malformed")

LifecycleNext ==
    \E n \in Requests :
        \/ Submit(n) \/ Accept(n) \/ Launch(n) \/ Start(n) \/ Conflict(n)
        \/ Record(n) \/ Refuse(n)
        \/ \E decision \in {"Approved", "Rejected"} : Decide(n, decision)
        \/ \E outcome \in {"Complete", "Failed"} : Finish(n, outcome)

Spec == LifecycleInit /\ [][LifecycleNext]_lifecycleVars
=============================================================================

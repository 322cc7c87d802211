---------------------------- MODULE JobLifecycle ----------------------------
(***************************************************************************)
(* What the server promises a client about one job: once accepted it is    *)
(* queued, it settles as completed or failed, only then may it go away,    *)
(* and a job that went away never comes back. JobServer implements it.     *)
(***************************************************************************)
CONSTANT Jobs

VARIABLE job

Unfinished == {"queued", "compressing"}
Terminal   == {"completed", "failed"}
States     == {"absent", "gone"} \union Unfinished \union Terminal

Init == job = [j \in Jobs |-> "absent"]

Become(j, s) == job' = [job EXCEPT ![j] = s]

(* 202: the job exists from here on. *)
Accept(j) == job[j] = "absent" /\ Become(j, "queued")

Start(j) == job[j] = "queued" /\ Become(j, "compressing")

(* A job may settle straight out of the queue: an interrupted one does. *)
Settle(j) == job[j] \in Unfinished /\ \E s \in Terminal : Become(j, s)

Forget(j) == job[j] \in Terminal /\ Become(j, "gone")

Next == \E j \in Jobs : Accept(j) \/ Start(j) \/ Settle(j) \/ Forget(j)

Spec == Init /\ [][Next]_job
=============================================================================

---------------------------- MODULE AtomicOutput ----------------------------
(***************************************************************************)
(* What the program promises about one output: a local run that was asked  *)
(* for it replaces it in one step with a whole archive, or gives up and    *)
(* leaves it alone; one asked for another name reaches it through a link   *)
(* or not at all. A remote run empties it first and then fills it, so it   *)
(* may leave it torn. StagedOutput implements it.                          *)
(***************************************************************************)
CONSTANTS
  Runs,
  Earlier,   \* what may be there before
  Torn

VARIABLES
  output,    \* what is there
  said,      \* what each run answered
  asked,     \* the runs that were asked for it
  remote     \* the runs a server does the work of

fixed == <<asked, remote>>

Init ==
  /\ output \in Earlier /\ said = [w \in Runs |-> "working"]
  /\ asked \in SUBSET Runs /\ remote \in SUBSET Runs

Working(w) == said[w] = "working"
Says(w, outcome) == said' = [said EXCEPT ![w] = outcome] /\ UNCHANGED fixed

(* A remote run may end up mixed with another one, or have filled a file that
   a local run replaced meanwhile. *)
Publish(w) ==
  /\ Working(w) /\ Says(w, "ok")
  /\ \/ output' = w
     \/ w \notin asked /\ output' = output
     \/ w \in remote /\ output' \in {output, Torn}

Tear(w) == Working(w) /\ w \in remote /\ output' = Torn /\ UNCHANGED <<said, fixed>>

GiveUp(w) == Working(w) /\ Says(w, "not") /\ UNCHANGED output

(* One stop may end several runs of one process. *)
Stop == /\ \E ws \in SUBSET {w \in Runs : Working(w)} :
             said' = [w \in Runs |-> IF w \in ws THEN "not" ELSE said[w]]
        /\ UNCHANGED <<output, fixed>>

Next == Stop \/ \E w \in Runs : Publish(w) \/ Tear(w) \/ GiveUp(w)

Spec == Init /\ [][Next]_<<output, said, fixed>>
=============================================================================

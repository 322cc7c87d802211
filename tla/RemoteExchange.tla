--------------------------- MODULE RemoteExchange ---------------------------
(***************************************************************************)
(* What a client does with a server: post the folder or file, poll the job *)
(* with a growing delay until it settles, download the archive, delete the *)
(* job. apps/remote does it for the command line and the desktop, api.js   *)
(* for the browser, in the same steps.                                     *)
(*                                                                         *)
(* A call is two steps, what the server does and what the client makes of  *)
(* its answer: anything may happen between them, and either may be the     *)
(* last thing that happens to the call. The server is JobLifecycle, which  *)
(* JobServer implements, with a reaper.                                    *)
(***************************************************************************)
EXTENDS Naturals

CONSTANTS
  Clients, Jobs, None,
  FirstDelay, MaxDelay,  \* FIRST_POLL_DELAY and MAX_POLL_DELAY, in ms
  Faults, MaxFaults      \* the kinds of fault that may happen, and how many

ASSUME NoneAssumption  == None \notin Jobs
ASSUME DelayAssumption == FirstDelay \in Nat /\ MaxDelay \in Nat /\ FirstDelay <= MaxDelay
ASSUME FaultAssumption == Faults \subseteq {"network", "refusal", "foreign"} /\ MaxFaults \in Nat

VARIABLES
  job,     \* the server's: see JobLifecycle
  reaped,  \* history: the jobs the reaper took
  pc,      \* where each client's exchange is
  answer,  \* the server's answer to the call under way, or None
  mine,    \* the job the server made for it
  held,    \* the job whose archive it has in hand
  delay,   \* how long it sleeps next
  late,    \* history: how long it slept on after its job had settled
  faults

server   == <<job, reaped>>
exchange == <<server, pc, answer, mine, held, delay, late, faults>>

Server == INSTANCE JobLifecycle

Calls == {"posting", "polling", "fetching", "deleting"}
Answers == {"accepted", "refused", "unknown", "archive", "removed"}
             \union Server!Unfinished \union Server!Terminal

ASSUME AnswerAssumption == None \notin Answers

ExchangeTypeOK ==
  /\ job \in [Jobs -> Server!States]
  /\ reaped \subseteq Jobs
  /\ pc \in [Clients -> Calls \union {"idle", "sleeping", "done", "failed"}]
  /\ answer \in [Clients -> Answers \union {None}]
  /\ mine \in [Clients -> Jobs \union {None}] /\ held \in [Clients -> Jobs \union {None}]
  /\ delay \in [Clients -> FirstDelay..MaxDelay] /\ late \in [Clients -> Nat]
  /\ faults \in 0..MaxFaults

ExchangeInit ==
  /\ Server!Init /\ reaped = {}
  /\ pc = [c \in Clients |-> "idle"]
  /\ answer = [c \in Clients |-> None]
  /\ mine = [c \in Clients |-> None] /\ held = [c \in Clients |-> None]
  /\ delay = [c \in Clients |-> FirstDelay] /\ late = [c \in Clients |-> 0]
  /\ faults = 0

Fault(kind) == kind \in Faults /\ faults < MaxFaults /\ faults' = faults + 1

-----------------------------------------------------------------------------
(* waiting.rs, protocol.rs *)

\* Mutant: the delay has no ceiling.
NextDelayUncapped(previous) == 2 * previous

\* Mutant: the ceiling is looked at before doubling.
NextDelayUnclipped(previous) == IF previous < MaxDelay THEN 2 * previous ELSE previous

NextDelay(previous) == IF 2 * previous < MaxDelay THEN 2 * previous ELSE MaxDelay

\* Mutant: only a completed job stops the wait.
ProgressOfCompleted(status) == IF status = "completed" THEN "Ready" ELSE "Waiting"

(* Only the two states under way mean wait; what is not known is an error. *)
ProgressOf(status) ==
  CASE status \in {"queued", "compressing"} -> "Waiting"
    [] status = "completed" -> "Ready"
    [] OTHER -> "Error"

-----------------------------------------------------------------------------
(* The client's side of each call. *)

To(c, at) == pc' = [pc EXCEPT ![c] = at] /\ answer' = [answer EXCEPT ![c] = None]

(* The folder is packed, or the file read, and posted. *)
Begin(c) ==
  /\ To(c, "posting")
  /\ mine' = [mine EXCEPT ![c] = None] /\ held' = [held EXCEPT ![c] = None]
  /\ delay' = [delay EXCEPT ![c] = FirstDelay] /\ late' = [late EXCEPT ![c] = 0]
  /\ UNCHANGED <<server, faults>>

Unless(c, wanted, next) == To(c, IF answer[c] = wanted THEN next ELSE "failed")
Answered(c, call) == pc[c] = call /\ answer[c] # None

PostAnswered(c) ==
  /\ Answered(c, "posting") /\ Unless(c, "accepted", "polling")
  /\ UNCHANGED <<server, mine, held, delay, late, faults>>

PollAnswered(c) ==
  /\ Answered(c, "polling")
  /\ LET progress == ProgressOf(answer[c]) IN
       To(c, CASE progress = "Waiting" -> "sleeping"
               [] progress = "Ready" -> "fetching"
               [] OTHER -> "failed")
  /\ UNCHANGED <<server, mine, held, delay, late, faults>>

(* A bound of the model: being late is counted up to twice the ceiling. *)
LateCap(ms) == IF ms < 2 * MaxDelay THEN ms ELSE 2 * MaxDelay

Wake(c) ==
  /\ pc[c] = "sleeping" /\ To(c, "polling")
  /\ late' = [late EXCEPT ![c] =
                IF job[mine[c]] \in Server!Unfinished THEN 0 ELSE LateCap(@ + delay[c])]
  /\ delay' = [delay EXCEPT ![c] = NextDelay(@)]
  /\ UNCHANGED <<server, mine, held, faults>>

DownloadAnswered(c) ==
  /\ Answered(c, "fetching") /\ Unless(c, "archive", "deleting")
  /\ held' = [held EXCEPT ![c] = IF answer[c] = "archive" THEN mine[c] ELSE @]
  /\ UNCHANGED <<server, mine, delay, late, faults>>

(* The archive is in hand: what becomes of the delete does not matter. *)
DeleteAnswered(c) ==
  /\ Answered(c, "deleting") /\ To(c, "done")
  /\ UNCHANGED <<server, mine, held, delay, late, faults>>

\* Mutant: a download that breaks off is cleaned up after like a whole one.
CallFailsTidily(c) ==
  /\ pc[c] \in Calls /\ Fault("network")
  /\ To(c, CASE pc[c] = "deleting" -> "done" [] pc[c] = "fetching" -> "deleting"
             [] OTHER -> "failed")
  /\ UNCHANGED <<server, mine, held, delay, late>>

(* No connection, no answer in time, or a body that breaks off. Nothing is
   tried again, and the job is left to the reaper. *)
CallFails(c) ==
  /\ pc[c] \in Calls /\ Fault("network")
  /\ To(c, IF pc[c] = "deleting" THEN "done" ELSE "failed")
  /\ UNCHANGED <<server, mine, held, delay, late>>

ClientSteps(c) ==
  \/ PostAnswered(c) \/ PollAnswered(c) \/ Wake(c) \/ DownloadAnswered(c) \/ DeleteAnswered(c)

-----------------------------------------------------------------------------
(* The server's side. *)

Called(c, call) == pc[c] = call /\ answer[c] = None
Reply(c, a)    == answer' = [answer EXCEPT ![c] = a]
Rest == <<pc, held, delay, late>>

PostServed(c) ==
  /\ Called(c, "posting") /\ Reply(c, "accepted")
  /\ \E j \in Jobs : Server!Accept(j) /\ mine' = [mine EXCEPT ![c] = j]
  /\ UNCHANGED <<reaped, Rest, faults>>

PollServed(c) ==
  /\ Called(c, "polling")
  /\ Reply(c, IF job[mine[c]] = "gone" THEN "refused" ELSE job[mine[c]])
  /\ UNCHANGED <<server, mine, Rest, faults>>

DownloadServed(c) ==
  /\ Called(c, "fetching")
  /\ Reply(c, IF job[mine[c]] = "completed" THEN "archive" ELSE "refused")
  /\ UNCHANGED <<server, mine, Rest, faults>>

DeleteServed(c) ==
  /\ Called(c, "deleting")
  /\ IF job[mine[c]] \in Server!Terminal
       THEN Server!Forget(mine[c]) /\ Reply(c, "removed")
       ELSE Reply(c, "refused") /\ UNCHANGED job
  /\ UNCHANGED <<reaped, mine, Rest, faults>>

(* A request that is refused whatever it asks, a status of another build. *)
Refuses(c) ==
  /\ pc[c] \in Calls /\ answer[c] = None /\ Fault("refusal") /\ Reply(c, "refused")
  /\ UNCHANGED <<server, mine, Rest>>

AnswersUnknown(c) ==
  /\ Called(c, "polling") /\ Fault("foreign") /\ Reply(c, "unknown")
  /\ UNCHANGED <<server, mine, Rest>>

Serves(c) == PostServed(c) \/ PollServed(c) \/ DownloadServed(c) \/ DeleteServed(c)
Disturbs(c) == CallFails(c) \/ Refuses(c) \/ AnswersUnknown(c)

Works(j) ==
  /\ Server!Start(j) \/ Server!Settle(j)
  /\ UNCHANGED <<reaped, mine, Rest, answer, faults>>

Reaps(j) ==
  /\ Server!Forget(j) /\ reaped' = reaped \union {j}
  /\ UNCHANGED <<mine, Rest, answer, faults>>

-----------------------------------------------------------------------------
(* A job the reaper did not take is only ever gone because a client deleted
   it, and no client does before its bytes are in hand. *)
DeletedOnlyOnceHeld ==
  \A c \in Clients :
    (mine[c] # None /\ job[mine[c]] = "gone" /\ mine[c] \notin reaped)
      => held[c] = mine[c]

(* However long the job took, a client that waits for it sleeps on for at most
   one ceiling after it settled. *)
LatenessIsBounded == \A c \in Clients : late[c] <= MaxDelay
=============================================================================

-------------------------- MODULE JobServerInvariant --------------------------
(***************************************************************************)
(* The inductive invariant of JobServer: why its safety properties hold.   *)
(* Each conjunct names what one actor may rely on.                         *)
(***************************************************************************)
EXTENDS JobServer

(* Nothing knows a job that was not accepted, and its upload is the only one
   to touch its directory; once saved, the input is whole. *)
UnacceptedIsUnknown ==
  \A j \in Jobs :
    /\ upload[j] # "accepted" =>
         row[j] = "none" /\ j \notin condemned /\ j \notin Range(queue)
    /\ upload[j] = "new" => files[j] = "none"
    /\ upload[j] \in Saving => files[j] \in {"none", "partial"}
    /\ upload[j] = "saved" => files[j] = "input"

(* Whoever is about to remove files or a row was let in for that job. *)
RemoversAreAdmitted ==
  /\ reaper.list \subseteq condemned
  /\ reaper.pc \in {"removing", "forgetting"} => reaper.job \in condemned
  /\ \A r \in Requests :
       req[r].pc \in Removing \union {"removed", "unremoved"} => req[r].job \in condemned

(* Nothing but reconcile runs outside "serving". *)
QuietUnlessServing ==
  phase # "serving" =>
    /\ queue = <<>> /\ worker = Idle /\ reaper = Asleep
    /\ \A j \in Jobs : upload[j] \notin Uploading
    /\ \A r \in Requests : req[r].pc \notin InFlight

(* A queued id is queued once, still `queued`, and not in the worker's hands. *)
QueueIsExclusive ==
  /\ IsInjective(queue)
  /\ worker.job \notin Range(queue)
  /\ \A j \in Range(queue) : row[j] = "queued" /\ files[j] = "input"

(* The worker's job is unfinished until the worker itself says otherwise, and
   the archive is there before it says `completed`. *)
WorkerOwnsItsJob ==
  /\ (worker.pc = "idle") <=> (worker.job = NoJob)
  /\ worker.pc # "idle" => row[worker.job] \in Unfinished
  /\ worker.pc = "completed" => files[worker.job] = "archive"

(* What each pass of reconcile has established so far. *)
PassesAdvance ==
  /\ phase \in {"down", "serving"} => known = {}
  /\ \A j \in known : files[j] # "none" /\ row[j] # "none"
  /\ phase = "forgetting" =>
       /\ \A j \in Jobs : row[j] # "none" => j \in todo \union known
       /\ \A j \in todo : row[j] # "none"
  /\ phase \in {"failing", "sweeping"} =>
       \A j \in Jobs : row[j] # "none" => j \in known
  /\ phase = "failing" =>
       \A j \in Jobs : row[j] \in Unfinished => j \in todo
  /\ phase = "sweeping" =>
       \A j \in Jobs :
         /\ row[j] \notin Unfinished
         /\ files[j] # "none" => j \in todo \union known \/ "storage" \in Faults

(* What a removal that succeeded leaves behind for the forget that follows. *)
RemovedIsGone ==
  /\ reaper.pc = "forgetting" => files[reaper.job] = "none"
  /\ \A r \in Requests : req[r].pc = "removed" => files[req[r].job] = "none"

(* Only what was accepted is ever answered as deleted. *)
DeletesWereAccepted ==
  \A r \in Requests :
    req[r].pc \in {"deleted", "forgotten"} => req[r].job \in condemned

IInv ==
  /\ TypeOK
  /\ UnacceptedIsUnknown
  /\ RemoversAreAdmitted
  /\ QuietUnlessServing
  /\ QueueIsExclusive
  /\ WorkerOwnsItsJob
  /\ PassesAdvance
  /\ RemovedIsGone
  /\ DeletesWereAccepted
  /\ UnfinishedKeepsItsInput
  /\ NothingUnfinishedIsCondemned
  /\ CompletedMeansArchive
  /\ DeletedStaysDeleted
  /\ OnlyAToldDeleteOrphans
=============================================================================

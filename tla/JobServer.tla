------------------------------ MODULE JobServer ------------------------------
(***************************************************************************)
(* apps/server-backend: the job registry, the staging directories, the     *)
(* HTTP handlers, the compression worker, the reaper and the startup       *)
(* reconciliation, with one action per stretch of code between two awaits. *)
(*                                                                         *)
(* `row`, `idle` and `garbled` are the SQLite registry and `files` the     *)
(* staging area: they outlive the process. Everything else but the two     *)
(* history variables dies with it. Wall-clock time is abstracted to which  *)
(* rows are older than the reaper's window (`idle`), so what is checked    *)
(* holds for any clock.                                                    *)
(***************************************************************************)
EXTENDS Naturals, Sequences, Functions

CONSTANTS
  Jobs,       \* the job ids the server draws (fresh UUIDs: each is used once)
  Requests,   \* the download and delete requests clients send, one shot each
  NoJob,      \* "no job", for the worker and the reaper
  Faults,     \* the kinds of fault that may happen
  MaxFaults   \* how many of them, over a behaviour

FaultKinds == {"crash", "disconnect", "storage", "registry", "foreign"}

ASSUME JobsAssumption   == NoJob \notin Jobs
ASSUME FaultsAssumption == Faults \subseteq FaultKinds /\ MaxFaults \in Nat

VARIABLES
  phase,      \* of the process: down, the three passes of reconcile, serving
  todo,       \* reconcile: what the current pass has still to look at
  known,      \* reconcile: the ids that have both a row and a directory
  row,        \* registry: each job's status, or "none"
  idle,       \* registry: rows whose updated_at is older than the window
  garbled,    \* registry: rows with a column this build cannot parse
  files,      \* storage: what a job's directory holds
  upload,     \* each job's POST /compress handler
  req,        \* each download or delete handler: [op, job, pc]
  queue,      \* the channel to the worker
  worker,     \* [pc, job]
  reaper,     \* [pc, job, list]
  condemned,  \* history: jobs a DELETE admitted or a sweep listed
  faults      \* how many faults have happened

registry == <<row, idle, garbled>>
boot     == <<phase, todo, known>>
history  == <<condemned, faults>>
vars     == <<boot, registry, files, upload, req, queue, worker, reaper, history>>

-----------------------------------------------------------------------------
(* States and outcomes *)

Unfinished == {"queued", "compressing"}
Terminal   == {"completed", "failed"}
Statuses   == Unfinished \union Terminal

(* "partial": the directory is there, without an archive and without a whole
   input (a save not finished, or a removal that got half way). *)
Staged == {"none", "partial", "input", "archive"}
Phases == {"down", "forgetting", "failing", "sweeping", "serving"}

(* A handler whose client left is dropped at its await, and the blocking
   closure it was waiting for runs on alone. *)
Saving      == {"saving", "saving_alone"}
Uploading   == Saving \union {"saved"}
UploadStates == Uploading \union
                  {"new", "accepted", "refused", "dropped", "lost"}

Removing    == {"removing", "removing_alone"}
InFlight    == Removing \union {"reading", "read", "removed", "unremoved"}
(* "deleted" and "forgotten" are the two 200s of DELETE: deleted true, false. *)
Answers     == {"200", "404", "409", "500", "deleted", "forgotten", "lost"}
RequestStates == InFlight \union Answers \union {"unsent"}
Ops         == {"download", "delete"}

Idle   == [pc |-> "idle", job |-> NoJob]
Asleep == [pc |-> "asleep", job |-> NoJob, list |-> {}]

TypeOK ==
  /\ phase \in Phases
  /\ todo \subseteq Jobs
  /\ known \subseteq Jobs
  /\ row \in [Jobs -> Statuses \union {"none"}]
  /\ idle \subseteq Jobs
  /\ garbled \subseteq Jobs
  /\ files \in [Jobs -> Staged]
  /\ upload \in [Jobs -> UploadStates]
  /\ req \in [Requests -> [op : Ops, job : Jobs \union {NoJob}, pc : RequestStates]]
  /\ queue \in Seq(Jobs)
  /\ worker \in [pc : {"idle", "claimed", "compressing"} \union Terminal,
                 job : Jobs \union {NoJob}]
  /\ reaper \in [pc : {"asleep", "sweeping", "removing", "forgetting"},
                 job : Jobs \union {NoJob}, list : SUBSET Jobs]
  /\ condemned \subseteq Jobs
  /\ faults \in 0..MaxFaults

(* A fresh installation, process not started yet. *)
Init ==
  /\ phase = "down" /\ todo = {} /\ known = {}
  /\ row = [j \in Jobs |-> "none"] /\ idle = {} /\ garbled = {}
  /\ files = [j \in Jobs |-> "none"]
  /\ upload = [j \in Jobs |-> "new"]
  /\ req \in [Requests -> {[op |-> o, job |-> NoJob, pc |-> "unsent"] : o \in Ops}]
  /\ queue = <<>> /\ worker = Idle /\ reaper = Asleep
  /\ condemned = {} /\ faults = 0

Fault(kind) ==
  /\ kind \in Faults
  /\ faults < MaxFaults
  /\ faults' = faults + 1

-----------------------------------------------------------------------------
(* The registry's operations (registry.rs). Each is one SQL statement under
   one mutex, so it is atomic. *)

\* Mutant: the row is written with the answer's word instead of a status.
RegistryAddAccepted(j) ==
  /\ row' = [row EXCEPT ![j] = "accepted"]
  /\ idle' = idle \ {j}
  /\ garbled' = garbled \ {j}

RegistryAdd(j) ==
  /\ row' = [row EXCEPT ![j] = "queued"]
  /\ idle' = idle \ {j}
  /\ garbled' = garbled \ {j}

(* UPDATE ... WHERE job_id: an absent id is a no-op. *)
UpdateStatus(j, status) ==
  /\ row' = IF row[j] = "none" THEN row ELSE [row EXCEPT ![j] = status]
  /\ idle' = idle \ {j}
  /\ UNCHANGED garbled

\* Mutant: touch writes the row back whole, whether it is still there or not.
TouchOrInsert(j) ==
  /\ row' = [row EXCEPT ![j] = "completed"]
  /\ idle' = idle \ {j}
  /\ UNCHANGED garbled

Touch(j) ==
  /\ idle' = idle \ {j}
  /\ UNCHANGED <<row, garbled>>

Forget(j) ==
  /\ row' = [row EXCEPT ![j] = "none"]
  /\ idle' = idle \ {j}
  /\ garbled' = garbled \ {j}

\* Mutants: the sweep looks at any old row, or at completed ones only.
ExpiredAnyStatus == {j \in idle : row[j] # "none"}

ExpiredCompleted == {j \in idle : row[j] = "completed"}

Expired == {j \in idle : row[j] \in Terminal}

RegistryFails == Fault("registry") /\ UNCHANGED registry

(* remove_dir_all on a job's directory: gone, or refused with what is left. *)
Remove(j) == files' = [files EXCEPT ![j] = "none"]

RemovalFails == Fault("storage") /\ UNCHANGED files

-----------------------------------------------------------------------------
(* POST /compress *)

UploadSet(j, from, to) ==
  /\ upload[j] = from
  /\ upload' = [upload EXCEPT ![j] = to]

(* When the blocking save of j ends: on to `next`, unless nobody waits. *)
SaveReturns(j, next) ==
  \/ UploadSet(j, "saving", next)
  \/ UploadSet(j, "saving_alone", "dropped")

Elsewhere == UNCHANGED <<boot, queue, worker, reaper, req>>

UploadArrives(j) ==
  /\ phase = "serving"
  /\ UploadSet(j, "new", "saving")
  /\ Elsewhere /\ UNCHANGED <<registry, files, history>>

SaveStarts(j) ==
  /\ upload[j] \in Saving
  /\ files[j] = "none"
  /\ files' = [files EXCEPT ![j] = "partial"]
  /\ Elsewhere /\ UNCHANGED <<registry, upload, history>>

SaveEnds(j) ==
  /\ files[j] = "partial"
  /\ SaveReturns(j, "saved")
  /\ files' = [files EXCEPT ![j] = "input"]
  /\ Elsewhere /\ UNCHANGED <<registry, history>>

SaveFails(j) ==
  /\ Fault("storage")
  /\ SaveReturns(j, "refused")
  /\ Elsewhere /\ UNCHANGED <<registry, files, condemned>>

\* Mutant: the id never reaches the channel.
RegisterUnsent(j) ==
  /\ UploadSet(j, "saved", "accepted")
  /\ RegistryAdd(j)
  /\ UNCHANGED <<boot, queue, worker, reaper, req, files, history>>

(* The row and the queue entry: no await between the two. *)
Register(j) ==
  /\ UploadSet(j, "saved", "accepted")
  /\ RegistryAdd(j)
  /\ queue' = Append(queue, j)
  /\ UNCHANGED <<boot, worker, reaper, req, files, history>>

RegisterFails(j) ==
  /\ UploadSet(j, "saved", "refused")
  /\ RegistryFails
  /\ Elsewhere /\ UNCHANGED <<files, condemned>>

UploaderLeaves(j) ==
  /\ Fault("disconnect")
  /\ \/ UploadSet(j, "saving", "saving_alone")
     \/ UploadSet(j, "saved", "dropped")
  /\ Elsewhere /\ UNCHANGED <<registry, files, condemned>>

-----------------------------------------------------------------------------
(* The worker (queue.rs): one task, one job at a time *)

WorkerAt(pc) == worker.pc = pc

WorkerElsewhere == UNCHANGED <<boot, upload, req, reaper, condemned>>

(* registry.get: a row that is gone or does not parse is skipped. *)
WorkerTakes ==
  /\ phase = "serving" /\ WorkerAt("idle") /\ queue # <<>>
  /\ queue' = Tail(queue)
  /\ LET j == Head(queue)
     IN worker' = IF row[j] = "none" \/ j \in garbled
                  THEN Idle
                  ELSE [pc |-> "claimed", job |-> j]
  /\ WorkerElsewhere /\ UNCHANGED <<registry, files, faults>>

WorkerCannotRead ==
  /\ phase = "serving" /\ WorkerAt("idle") /\ queue # <<>>
  /\ queue' = Tail(queue)
  /\ RegistryFails
  /\ WorkerElsewhere /\ UNCHANGED <<worker, files>>

(* set_status logs a failed write and goes on. *)
SetStatus(status) ==
  \/ UpdateStatus(worker.job, status) /\ UNCHANGED faults
  \/ RegistryFails

WorkerMarks ==
  /\ WorkerAt("claimed")
  /\ SetStatus("compressing")
  /\ worker' = [worker EXCEPT !.pc = "compressing"]
  /\ WorkerElsewhere /\ UNCHANGED <<queue, files>>

(* compress or unwrap_and_compress: the archive appears whole, by a rename. *)
WorkerCompresses ==
  /\ WorkerAt("compressing")
  /\ files[worker.job] = "input"
  /\ files' = [files EXCEPT ![worker.job] = "archive"]
  /\ worker' = [worker EXCEPT !.pc = "completed"]
  /\ WorkerElsewhere /\ UNCHANGED <<registry, queue, faults>>

\* Mutant: an error of the engine is taken for success.
WorkerSwallows ==
  /\ WorkerAt("compressing")
  /\ worker' = [worker EXCEPT !.pc = "completed"]
  /\ WorkerElsewhere /\ UNCHANGED <<registry, queue, files, faults>>

(* A refused upload, an unreadable input, a full disk, a panic. *)
WorkerGivesUp ==
  /\ WorkerAt("compressing")
  /\ worker' = [worker EXCEPT !.pc = "failed"]
  /\ WorkerElsewhere /\ UNCHANGED <<registry, queue, files, faults>>

\* Mutant: only success is written down.
WorkerRecordsSuccess ==
  /\ worker.pc \in Terminal
  /\ IF WorkerAt("completed") THEN SetStatus(worker.pc) ELSE UNCHANGED <<registry, faults>>
  /\ worker' = Idle
  /\ WorkerElsewhere /\ UNCHANGED <<queue, files>>

WorkerRecords ==
  /\ worker.pc \in Terminal
  /\ SetStatus(worker.pc)
  /\ worker' = Idle
  /\ WorkerElsewhere /\ UNCHANGED <<queue, files>>

-----------------------------------------------------------------------------
(* GET /jobs/{id}/download and DELETE /jobs/{id} *)

Goes(r, pc) == req' = [req EXCEPT ![r].pc = pc]

RequestAt(r, pc) == req[r].pc = pc

RequestElsewhere == UNCHANGED <<boot, upload, queue, worker, reaper>>

\* Mutant: nobody looks at the status.
AdmissionAnyStatus(j, wanted, entry) ==
  IF row[j] = "none" THEN "404" ELSE IF j \in garbled THEN "500" ELSE entry

(* job_or_404, then the status the handler insists on. *)
Admission(j, wanted, entry) ==
  IF row[j] = "none" THEN "404"
  ELSE IF j \in garbled THEN "500"
  ELSE IF row[j] \in wanted THEN entry
  ELSE "409"

Arrives(r, j, op, pc) ==
  /\ phase = "serving"
  /\ RequestAt(r, "unsent") /\ req[r].op = op
  /\ req' = [req EXCEPT ![r].job = j, ![r].pc = pc]
  /\ RequestElsewhere /\ UNCHANGED <<registry, files, faults>>

DownloadArrives(r, j) ==
  /\ Arrives(r, j, "download", Admission(j, {"completed"}, "reading"))
  /\ UNCHANGED condemned

\* The registry cannot be asked: 500, before anything else happened.
RequestCannotRead(r, j) ==
  /\ phase = "serving" /\ RequestAt(r, "unsent")
  /\ Fault("registry")
  /\ req' = [req EXCEPT ![r].job = j, ![r].pc = "500"]
  /\ RequestElsewhere /\ UNCHANGED <<registry, files, condemned>>

DownloadReads(r) ==
  /\ RequestAt(r, "reading")
  /\ Goes(r, IF files[req[r].job] = "archive" THEN "read" ELSE "404")
  /\ RequestElsewhere /\ UNCHANGED <<registry, files, history>>

DownloadTouches(r) ==
  /\ RequestAt(r, "read")
  /\ \/ Touch(req[r].job) /\ Goes(r, "200") /\ UNCHANGED faults
     \/ RegistryFails /\ Goes(r, "500")
  /\ RequestElsewhere /\ UNCHANGED <<files, condemned>>

DeleteArrives(r, j) ==
  LET pc == Admission(j, Terminal, "removing")
  IN /\ Arrives(r, j, "delete", pc)
     /\ condemned' = condemned \union (IF pc = "removing" THEN {j} ELSE {})

(* The blocking removal ends; a handler whose client left stops here. *)
RemovalReturns(r, pc) ==
  \/ RequestAt(r, "removing") /\ Goes(r, pc)
  \/ RequestAt(r, "removing_alone") /\ Goes(r, "lost")

DeleteRemoves(r) ==
  /\ RequestAt(r, "removing") \/ RequestAt(r, "removing_alone")
  /\ Remove(req[r].job)
  /\ RemovalReturns(r, IF files[req[r].job] = "none" THEN "unremoved" ELSE "removed")
  /\ RequestElsewhere /\ UNCHANGED <<registry, history>>

DeleteCannotRemove(r) ==
  /\ RemovalFails
  /\ RemovalReturns(r, "unremoved")
  /\ RequestElsewhere /\ UNCHANGED <<registry, condemned>>

DeleteForgets(r) ==
  /\ RequestAt(r, "removed") \/ RequestAt(r, "unremoved")
  /\ \/ /\ Forget(req[r].job)
        /\ Goes(r, IF RequestAt(r, "removed") THEN "deleted" ELSE "forgotten")
        /\ UNCHANGED faults
     \/ RegistryFails /\ Goes(r, "500")
  /\ RequestElsewhere /\ UNCHANGED <<files, condemned>>

RequesterLeaves(r) ==
  /\ Fault("disconnect")
  /\ req[r].pc \in InFlight \ {"removing_alone"}
  /\ Goes(r, IF RequestAt(r, "removing") THEN "removing_alone" ELSE "lost")
  /\ RequestElsewhere /\ UNCHANGED <<registry, files, condemned>>

-----------------------------------------------------------------------------
(* The reaper (lib.rs start_reaper, maintenance.rs reap) *)

ReaperAt(pc) == reaper.pc = pc

ReaperElsewhere == UNCHANGED <<boot, upload, req, queue, worker>>

(* The pass goes on with the rest of its list, or ends. *)
ReaperGoesOn(list) ==
  reaper' = IF list = {} THEN Asleep
            ELSE [pc |-> "sweeping", job |-> NoJob, list |-> list]

ReaperLists ==
  /\ phase = "serving" /\ ReaperAt("asleep")
  /\ ReaperGoesOn(Expired)
  /\ condemned' = condemned \union Expired
  /\ ReaperElsewhere /\ UNCHANGED <<registry, files, faults>>

ReaperPicks(j) ==
  /\ ReaperAt("sweeping") /\ j \in reaper.list
  /\ reaper' = [pc |-> "removing", job |-> j, list |-> reaper.list \ {j}]
  /\ ReaperElsewhere /\ UNCHANGED <<registry, files, history>>

ReaperRemoves ==
  /\ ReaperAt("removing")
  /\ Remove(reaper.job)
  /\ reaper' = [reaper EXCEPT !.pc = "forgetting"]
  /\ ReaperElsewhere /\ UNCHANGED <<registry, history>>

\* Mutant: the row is forgotten although its files could not be removed.
ReaperForgetsAnyway ==
  /\ ReaperAt("removing")
  /\ RemovalFails
  /\ reaper' = [reaper EXCEPT !.pc = "forgetting"]
  /\ ReaperElsewhere /\ UNCHANGED <<registry, condemned>>

(* The row is kept, for the next sweep to try again. *)
ReaperCannotRemove ==
  /\ ReaperAt("removing")
  /\ RemovalFails
  /\ ReaperGoesOn(reaper.list)
  /\ ReaperElsewhere /\ UNCHANGED <<registry, condemned>>

(* A registry error ends the pass. *)
ReaperForgets ==
  /\ ReaperAt("forgetting")
  /\ \/ Forget(reaper.job) /\ ReaperGoesOn(reaper.list) /\ UNCHANGED faults
     \/ RegistryFails /\ reaper' = Asleep
  /\ ReaperElsewhere /\ UNCHANGED <<files, condemned>>

(* A directory under removal loses its contents one entry at a time. *)
BeingRemoved(j) ==
  \/ ReaperAt("removing") /\ reaper.job = j
  \/ \E r \in Requests : req[r].pc \in Removing /\ req[r].job = j

RemovalEats(j) ==
  /\ BeingRemoved(j)
  /\ files[j] \in {"input", "archive"}
  /\ files' = [files EXCEPT ![j] = "partial"]
  /\ RequestElsewhere /\ UNCHANGED <<registry, req, history>>

-----------------------------------------------------------------------------
(* Startup: reconcile (maintenance.rs), in three passes *)

BootElsewhere == UNCHANGED <<upload, req, queue, worker, reaper, condemned>>

NextPass(from, to, work) ==
  /\ phase = from /\ todo = {}
  /\ phase' = to /\ todo' = work
  /\ BootElsewhere /\ UNCHANGED <<registry, files, faults>>

Boot == NextPass("down", "forgetting", {j \in Jobs : row[j] # "none"})
        /\ known' = {}

(* registry.ids: keep the rows that have a directory, forget the others. *)
ReconcileRow(j) ==
  /\ phase = "forgetting" /\ j \in todo
  /\ todo' = todo \ {j}
  /\ IF files[j] # "none"
     THEN known' = known \union {j} /\ UNCHANGED registry
     ELSE Forget(j) /\ UNCHANGED known
  /\ BootElsewhere /\ UNCHANGED <<phase, files, faults>>

\* Mutant: only the job that was running is taken for interrupted.
StartFailingRunning ==
  /\ NextPass("forgetting", "failing", {j \in Jobs : row[j] = "compressing"})
  /\ UNCHANGED known

StartFailing ==
  /\ NextPass("forgetting", "failing", {j \in Jobs : row[j] \in Unfinished})
  /\ UNCHANGED known

\* Mutant: an interrupted job is put back in line.
RequeueInterrupted(j) ==
  /\ phase = "failing" /\ j \in todo
  /\ todo' = todo \ {j}
  /\ UpdateStatus(j, "queued")
  /\ BootElsewhere /\ UNCHANGED <<phase, known, files, faults>>

FailInterrupted(j) ==
  /\ phase = "failing" /\ j \in todo
  /\ todo' = todo \ {j}
  /\ UpdateStatus(j, "failed")
  /\ BootElsewhere /\ UNCHANGED <<phase, known, files, faults>>

StartSweeping ==
  /\ NextPass("failing", "sweeping", {j \in Jobs : files[j] # "none"})
  /\ UNCHANGED known

(* A directory of a known job stays; any other goes, or is left with a warning. *)
SweepDirectory(j) ==
  /\ phase = "sweeping" /\ j \in todo
  /\ todo' = todo \ {j}
  /\ IF j \in known THEN UNCHANGED <<files, faults>>
     ELSE \/ Remove(j) /\ UNCHANGED faults
          \/ RemovalFails
  /\ BootElsewhere /\ UNCHANGED <<phase, known, registry>>

StartServing ==
  /\ NextPass("sweeping", "serving", {})
  /\ known' = {}

-----------------------------------------------------------------------------
(* The environment *)

(* updated_at falls out of the window: time passes, or the clock jumps. *)
WindowPasses(j) ==
  /\ row[j] # "none" /\ j \notin idle
  /\ idle' = idle \union {j}
  /\ UNCHANGED <<boot, row, garbled, files, upload, req, queue, worker, reaper, history>>

(* Another build, or a hand edit, left a value this build cannot parse. *)
RowTurnsForeign(j) ==
  /\ Fault("foreign")
  /\ row[j] # "none"
  /\ garbled' = garbled \union {j}
  /\ UNCHANGED <<boot, row, idle, files, upload, req, queue, worker, reaper, condemned>>

(* A kill, a stop past its grace, or a startup error: what was in flight is
   cut wherever it was. *)
Crash ==
  /\ Fault("crash")
  /\ phase # "down"
  /\ phase' = "down" /\ todo' = {} /\ known' = {}
  /\ upload' = [j \in Jobs |-> IF upload[j] \in Uploading THEN "lost" ELSE upload[j]]
  /\ req' = [r \in Requests |->
               IF req[r].pc \in InFlight THEN [req[r] EXCEPT !.pc = "lost"] ELSE req[r]]
  /\ queue' = <<>> /\ worker' = Idle /\ reaper' = Asleep
  /\ UNCHANGED <<registry, files, condemned>>

-----------------------------------------------------------------------------

Uploads(j) ==
  \/ UploadArrives(j) \/ SaveStarts(j) \/ SaveEnds(j) \/ SaveFails(j)
  \/ Register(j) \/ RegisterFails(j) \/ UploaderLeaves(j)

Works ==
  \/ WorkerTakes \/ WorkerCannotRead \/ WorkerMarks
  \/ WorkerCompresses \/ WorkerGivesUp \/ WorkerRecords

Handles(r) ==
  \/ DownloadReads(r) \/ DownloadTouches(r)
  \/ DeleteRemoves(r) \/ DeleteCannotRemove(r) \/ DeleteForgets(r)

Reaps ==
  \/ ReaperLists \/ (\E j \in Jobs : ReaperPicks(j))
  \/ ReaperRemoves \/ ReaperCannotRemove \/ ReaperForgets

Boots ==
  \/ Boot \/ StartFailing \/ StartSweeping \/ StartServing
  \/ \E j \in Jobs : ReconcileRow(j) \/ FailInterrupted(j) \/ SweepDirectory(j)

Next ==
  \/ Works \/ Reaps \/ Boots \/ Crash
  \/ \E j \in Jobs : Uploads(j) \/ RemovalEats(j) \/ WindowPasses(j) \/ RowTurnsForeign(j)
  \/ \E r \in Requests :
       \/ Handles(r) \/ RequesterLeaves(r)
       \/ \E j \in Jobs :
            DownloadArrives(r, j) \/ DeleteArrives(r, j) \/ RequestCannotRead(r, j)

Spec == Init /\ [][Next]_vars

(* The runtime polls every task, a supervisor restarts the process, and time
   passes. Clients owe nothing, and nothing needs to fail. *)
Fairness ==
  /\ WF_vars(Works) /\ WF_vars(Reaps) /\ WF_vars(Boots)
  /\ \A j \in Jobs : WF_vars(SaveStarts(j) \/ SaveEnds(j) \/ Register(j))
  /\ \A j \in Jobs : WF_vars(WindowPasses(j))
  /\ \A r \in Requests : WF_vars(Handles(r))

FairSpec == Spec /\ Fairness

-----------------------------------------------------------------------------
(* Properties *)

(* A job that is not finished still has its input (or already its archive):
   routes.rs saves before it registers, and nothing that removes files may
   reach a job the worker owns. *)
UnfinishedKeepsItsInput ==
  \A j \in Jobs : row[j] \in Unfinished => files[j] \in {"input", "archive"}

(* Neither a DELETE nor the reaper ever gets past its check for a job that is
   queued, being worked on or recorded as unfinished, then or later. *)
NothingUnfinishedIsCondemned ==
  \A j \in condemned :
    /\ row[j] \notin Unfinished
    /\ j \notin Range(queue)
    /\ worker.job # j

(* The worker records `completed` only once the archive is in place, so until
   somebody sets out to remove the job its download cannot answer 404. *)
CompletedMeansArchive ==
  \A j \in Jobs \ condemned : row[j] = "completed" => files[j] = "archive"

(* A DELETE that was answered stays done: no late touch, status update or
   restart brings the row back, and `deleted: true` says the files went too. *)
DeletedStaysDeleted ==
  \A r \in Requests :
    /\ req[r].pc \in {"deleted", "forgotten"} => row[req[r].job] = "none"
    /\ req[r].pc = "deleted" => files[req[r].job] = "none"

(* The files of an accepted job outlive its row only when a DELETE said so, by
   `deleted: false`. The reaper keeps the row of what it cannot remove. *)
OnlyAToldDeleteOrphans ==
  \A j \in Jobs :
    upload[j] = "accepted" /\ row[j] = "none" /\ files[j] # "none"
      => \E r \in Requests : req[r].job = j /\ req[r].pc = "forgotten"

(* When the server starts serving, the two stores agree: every row has a
   directory and is finished, and, unless a removal was refused, every
   directory has a row. *)
RestartReconciles ==
  [][ phase # "serving" /\ phase' = "serving" =>
        \A j \in Jobs :
          /\ row'[j] # "none" => row'[j] \in Terminal /\ files'[j] # "none"
          /\ files'[j] # "none" => row'[j] # "none" \/ "storage" \in Faults ]_vars

(* While no registry write is lost and every row can be read, an unfinished
   job is always in the channel or in the worker's hands: nothing is stranded. *)
EveryUnfinishedJobIsOwned ==
  phase = "serving" /\ Faults \intersect {"registry", "foreign"} = {} =>
    \A j \in Jobs :
      row[j] \in Unfinished => j \in Range(queue) \/ worker.job = j

(* What a client can see of a job is JobLifecycle. *)
Lifecycle ==
  INSTANCE JobLifecycle WITH
    job <- [j \in Jobs |->
              IF row[j] # "none" THEN row[j]
              ELSE IF upload[j] = "accepted" THEN "gone" ELSE "absent"]

ImplementsLifecycle == Lifecycle!Spec

(* An accepted job settles, whatever crashes, removals that fail or clients
   that leave do: the worker finishes it, or the next startup fails it. *)
AcceptedJobsSettle ==
  \A j \in Jobs : row[j] \in Unfinished ~> row[j] \notin Unfinished

(* A finished job is eventually collected, although removals may fail and rows
   may not parse: a sweep that was refused is retried, and one bad row stops
   nobody. *)
FinishedJobsAreCollected ==
  \A j \in Jobs : row[j] \in Terminal ~> row[j] = "none"

-----------------------------------------------------------------------------
(* What the documentation says and the code does not do *)

(* docs/server.md: what is on the disk is the jobs of the last window plus
   what is running. *)
DiskIsBounded ==
  phase = "serving" =>
    \A j \in Jobs :
      files[j] # "none" => row[j] # "none" \/ upload[j] \in Uploading

(* docs/server.md and maintenance.rs: downloading restarts the clock, so the
   reaper removes no job that was downloaded within the window. *)
DownloadRestartsTheClock ==
  ReaperAt("removing") /\ row[reaper.job] # "none" => reaper.job \in idle
=============================================================================

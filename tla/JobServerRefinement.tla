------------------------- MODULE JobServerRefinement -------------------------
(***************************************************************************)
(* What a client can see of the jobs is JobLifecycle, and no unfinished    *)
(* job is stranded: the invariant of JobServerSafety, with what startup    *)
(* and the worker have to establish besides.                               *)
(***************************************************************************)
EXTENDS JobServerSafety

(* What reconcile still has to fail is unfinished: it never turns a completed
   job into a failed one. *)
OnlyInterruptedFail == phase = "failing" => \A j \in todo : row[j] \in Unfinished

Seen == [j \in Jobs |-> IF row[j] # "none" THEN row[j]
                        ELSE IF upload[j] = "accepted" THEN "gone" ELSE "absent"]

(* Rows stay, and so does what was accepted: nothing is seen. *)
Unseen == row' = row /\ \A j \in Jobs : upload'[j] = "accepted" <=> upload[j] = "accepted"

(* What is not seen is a stutter of the lifecycle. *)
LEMMA UnseenStutters == ASSUME Unseen PROVE Seen' = Seen
  BY DEF Unseen, Seen

(* One row changes, and no upload. *)
LEMMA OneRowIsSeen ==
  ASSUME TypeOK, NEW j \in Jobs, NEW s, upload' = upload, row' = [row EXCEPT ![j] = s]
  PROVE  /\ s # "none" => Seen' = [Seen EXCEPT ![j] = s]
         /\ s = "none" /\ upload[j] = "accepted" => Seen' = [Seen EXCEPT ![j] = "gone"]
  BY DEF TypeOK, Seen

(* An upload is seen when it is registered, as a job accepted. *)
LEMMA UploadsAreSeen ==
  ASSUME IInv, NEW j \in Jobs, Uploads(j)
  PROVE  [Lifecycle!Next]_Seen
<1> USE DEF boot, registry, history
<1>1. CASE Register(j)
  <2>1. Seen[j] = "absent"
    BY <1>1 DEF IInv, UnacceptedIsUnknown, Register, UploadSet, Seen
  <2>2. Seen' = [Seen EXCEPT ![j] = "queued"]
    BY <1>1 DEF IInv, TypeOK, Register, UploadSet, RegistryAdd, Seen
  <2> QED
    BY <2>1, <2>2 DEF Lifecycle!Next, Lifecycle!Accept, Lifecycle!Become, Seen
<1>2. CASE ~ Register(j)
  <2>1. Unseen
    BY <1>2 DEF Uploads, UploadArrives, SaveStarts, SaveEnds, SaveFails, RegisterFails,
                RegistryFails, UploaderLeaves, SaveReturns, UploadSet, Elsewhere, Unseen,
                IInv, TypeOK
  <2> QED
    BY <2>1, UnseenStutters
<1> QED
  BY <1>1, <1>2

(* The worker starts and settles a job that is still unfinished. *)
LEMMA WorkIsSeen ==
  ASSUME IInv, Works
  PROVE  [Lifecycle!Next]_Seen
<1> USE DEF boot, registry, history
<1> DEFINE j == worker.job
<1>1. CASE row' = row
  <2>1. Unseen
    BY <1>1 DEF Works, WorkerTakes, WorkerCannotRead, WorkerMarks, WorkerCompresses,
                WorkerGivesUp, WorkerRecords, WorkerElsewhere, Unseen
  <2> QED
    BY <2>1, UnseenStutters
<1>2. CASE row' # row
  <2>1. WorkerMarks \/ WorkerRecords
    BY <1>2 DEF Works, WorkerTakes, WorkerCannotRead, WorkerCompresses, WorkerGivesUp,
                RegistryFails
  <2>2. worker.pc # "idle"
    BY <2>1 DEF WorkerMarks, WorkerRecords, WorkerAt, Terminal
  <2>3. j \in Jobs /\ row[j] \in Unfinished /\ Seen[j] = row[j]
    BY <2>2, JobsAssumption DEF IInv, TypeOK, WorkerOwnsItsJob, Unfinished, Seen
  <2>4. upload' = upload
    BY <2>1 DEF WorkerMarks, WorkerRecords, WorkerElsewhere
  <2>5. CASE WorkerMarks
    <3>1. row' = [row EXCEPT ![j] = "compressing"]
      BY <1>2, <2>5, <2>3 DEF WorkerMarks, SetStatus, UpdateStatus, RegistryFails
    <3>2. row[j] = "queued"
      BY <1>2, <2>3, <3>1 DEF IInv, TypeOK, Unfinished
    <3>3. Seen' = [Seen EXCEPT ![j] = "compressing"]
      BY <2>3, <2>4, <3>1, OneRowIsSeen DEF IInv
    <3> QED
      BY <2>3, <3>2, <3>3 DEF Lifecycle!Next, Lifecycle!Start, Lifecycle!Become, Seen
  <2>6. CASE WorkerRecords
    <3>1. PICK s \in Terminal : row' = [row EXCEPT ![j] = s]
      BY <1>2, <2>6, <2>3 DEF WorkerRecords, SetStatus, UpdateStatus, RegistryFails
    <3>2. Seen' = [Seen EXCEPT ![j] = s]
      BY <2>3, <2>4, <3>1, OneRowIsSeen DEF IInv, Terminal
    <3>3. Lifecycle!Become(j, s)
      BY <3>2 DEF Lifecycle!Become, Seen
    <3>4. \E t \in Lifecycle!Terminal : Lifecycle!Become(j, t)
      BY <3>1, <3>3 DEF Lifecycle!Terminal, Terminal
    <3>5. Lifecycle!Settle(j)
      BY <2>3, <3>4 DEF Lifecycle!Settle, Lifecycle!Unfinished, Unfinished, Seen
    <3> QED
      BY <2>3, <3>5 DEF Lifecycle!Next
  <2> QED
    BY <2>1, <2>5, <2>6
<1> QED
  BY <1>1, <1>2

(* A row that is forgotten was a finished job's: it goes away. *)
LEMMA ForgettingIsSeen ==
  ASSUME IInv, NEW j \in Jobs, Forget(j), upload' = upload, row[j] \notin Unfinished,
         upload[j] = "accepted"
  PROVE  [Lifecycle!Next]_Seen
<1>1. CASE row[j] = "none"
  <2>1. Unseen
    BY <1>1 DEF Forget, Unseen, IInv, TypeOK
  <2> QED
    BY <2>1, UnseenStutters
<1>2. CASE row[j] # "none"
  <2>1. Seen[j] = row[j] /\ row[j] \in Terminal
    BY <1>2 DEF Seen, IInv, TypeOK, Statuses
  <2>2. Seen' = [Seen EXCEPT ![j] = "gone"]
    BY OneRowIsSeen DEF Forget, IInv
  <2> QED
    BY <2>1, <2>2
       DEF Lifecycle!Next, Lifecycle!Forget, Lifecycle!Become, Lifecycle!Terminal, Terminal, Seen
<1> QED
  BY <1>1, <1>2

(* What is about to be removed is a finished job, accepted before. *)
LEMMA CondemnedAreFinished ==
  ASSUME IInv
  PROVE  \A j \in condemned : row[j] \notin Unfinished /\ upload[j] = "accepted" /\ j \in Jobs
  BY DEF IInv, TypeOK, NothingUnfinishedIsCondemned, UnacceptedIsUnknown

(* A sweep or a DELETE makes finished jobs go away. *)
LEMMA RemovalsAreSeen ==
  ASSUME IInv, Reaps \/ \E r \in Requests : Handles(r) \/ RequesterLeaves(r)
  PROVE  [Lifecycle!Next]_Seen
<1> USE DEF boot, registry, history
<1>1. CASE row' = row
  <2>1. upload' = upload
    BY DEF Reaps, ReaperLists, ReaperPicks, ReaperRemoves, ReaperCannotRemove, ReaperForgets,
           ReaperElsewhere, Handles, DownloadReads, DownloadTouches, DeleteRemoves,
           DeleteCannotRemove, DeleteForgets, RequesterLeaves, RequestElsewhere
  <2> QED
    BY <1>1, <2>1, UnseenStutters DEF Unseen
<1>2. CASE Reaps /\ row' # row
  <2>1. /\ ReaperAt("forgetting") /\ Forget(reaper.job) /\ upload' = upload
    BY <1>2 DEF Reaps, ReaperLists, ReaperPicks, ReaperRemoves, ReaperCannotRemove,
                ReaperForgets, ReaperElsewhere, RegistryFails
  <2>2. reaper.job \in condemned
    BY <2>1 DEF ReaperAt, IInv, RemoversAreAdmitted
  <2> QED
    BY <2>1, <2>2, CondemnedAreFinished, ForgettingIsSeen
<1>3. ASSUME NEW r \in Requests, Handles(r) \/ RequesterLeaves(r), row' # row
      PROVE  [Lifecycle!Next]_Seen
  <2>1. /\ RequestAt(r, "removed") \/ RequestAt(r, "unremoved")
        /\ Forget(req[r].job) /\ upload' = upload
    BY <1>3 DEF Handles, DownloadReads, DownloadTouches, Touch, DeleteRemoves,
                DeleteCannotRemove, DeleteForgets, RequesterLeaves, RequestElsewhere,
                RegistryFails
  <2>2. req[r].job \in condemned
    BY <2>1 DEF RequestAt, IInv, RemoversAreAdmitted
  <2> QED
    BY <2>1, <2>2, CondemnedAreFinished, ForgettingIsSeen
<1> QED
  BY <1>1, <1>2, <1>3

(* Reconcile forgets finished jobs and settles unfinished ones. *)
LEMMA StartupIsSeen ==
  ASSUME IInv, OnlyInterruptedFail, Boots
  PROVE  [Lifecycle!Next]_Seen
<1> USE DEF boot, registry, history
<1>0. upload' = upload
  BY DEF Boots, Boot, StartFailing, StartSweeping, StartServing, NextPass, ReconcileRow,
         FailInterrupted, SweepDirectory, BootElsewhere
<1>1. CASE row' = row
  BY <1>0, <1>1, UnseenStutters DEF Unseen
<1>2. CASE row' # row
  <2>1. \E j \in Jobs : ReconcileRow(j) \/ FailInterrupted(j)
    BY <1>2 DEF Boots, Boot, StartFailing, StartSweeping, StartServing, NextPass, SweepDirectory
  <2>2. ASSUME NEW j \in Jobs, ReconcileRow(j) PROVE [Lifecycle!Next]_Seen
    <3>1. Forget(j) /\ files[j] = "none"
      BY <1>2, <2>2 DEF ReconcileRow
    <3>2. row[j] \notin Unfinished
      BY <3>1 DEF IInv, UnfinishedKeepsItsInput
    <3>3. upload[j] = "accepted"
      BY <2>2 DEF ReconcileRow, IInv, PassesAdvance, UnacceptedIsUnknown
    <3> QED
      BY <1>0, <3>1, <3>2, <3>3, ForgettingIsSeen
  <2>3. ASSUME NEW j \in Jobs, FailInterrupted(j) PROVE [Lifecycle!Next]_Seen
    <3>1. row[j] \in Unfinished
      BY <2>3 DEF FailInterrupted, OnlyInterruptedFail
    <3>2. row' = [row EXCEPT ![j] = "failed"]
      BY <2>3, <3>1 DEF FailInterrupted, UpdateStatus, Unfinished
    <3>3. Seen[j] = row[j]
      BY <3>1 DEF Seen, Unfinished
    <3>4. Seen' = [Seen EXCEPT ![j] = "failed"]
      BY <1>0, <3>2, OneRowIsSeen DEF IInv
    <3> QED
      BY <3>1, <3>3, <3>4
         DEF Lifecycle!Next, Lifecycle!Settle, Lifecycle!Become, Lifecycle!Unfinished,
             Lifecycle!Terminal, Unfinished, Seen
  <2> QED
    BY <2>1, <2>2, <2>3
<1> QED
  BY <1>1, <1>2

(* Stops, clocks, arrivals and what another build writes are not seen. *)
LEMMA RestIsUnseen ==
  ASSUME IInv,
         \/ Crash \/ UNCHANGED vars
         \/ \E j \in Jobs : RemovalEats(j) \/ WindowPasses(j) \/ RowTurnsForeign(j)
         \/ \E r \in Requests, j \in Jobs :
              DownloadArrives(r, j) \/ DeleteArrives(r, j) \/ RequestCannotRead(r, j)
  PROVE  [Lifecycle!Next]_Seen
<1> USE DEF boot, registry, history
<1>1. CASE Crash
  <2>1. Unseen
    BY <1>1 DEF Crash, Unseen, Uploading, Saving, IInv, TypeOK
  <2> QED
    BY <2>1, UnseenStutters
<1>2. CASE ~ Crash
  <2>1. row' = row /\ upload' = upload
    BY <1>2 DEF vars, RemovalEats, RequestElsewhere, WindowPasses, RowTurnsForeign,
                DownloadArrives, DeleteArrives, Arrives, RequestCannotRead
  <2> QED
    BY <2>1, UnseenStutters DEF Unseen
<1> QED
  BY <1>1, <1>2

(* Every step of the server is one of the lifecycle, or is not seen. *)
LEMMA StepsAreSeen == IInv /\ OnlyInterruptedFail /\ [Next]_vars => [Lifecycle!Next]_Seen
<1> SUFFICES ASSUME IInv, OnlyInterruptedFail, [Next]_vars PROVE [Lifecycle!Next]_Seen
  OBVIOUS
<1>1. \/ Works \/ Reaps \/ Boots
      \/ \E j \in Jobs : Uploads(j)
      \/ \E r \in Requests : Handles(r) \/ RequesterLeaves(r)
      \/ Crash \/ UNCHANGED vars
      \/ \E j \in Jobs : RemovalEats(j) \/ WindowPasses(j) \/ RowTurnsForeign(j)
      \/ \E r \in Requests, j \in Jobs :
           DownloadArrives(r, j) \/ DeleteArrives(r, j) \/ RequestCannotRead(r, j)
  BY DEF Next
<1> QED
  BY <1>1, WorkIsSeen, RemovalsAreSeen, StartupIsSeen, UploadsAreSeen, RestIsUnseen

(* Nothing but reconcile touches a row before the server serves. *)
LEMMA InterruptedStay ==
  IInv /\ OnlyInterruptedFail /\ [Next]_vars => OnlyInterruptedFail'
<1> SUFFICES ASSUME IInv, OnlyInterruptedFail, [Next]_vars, phase' = "failing"
             PROVE  \A j \in todo' : row'[j] \in Unfinished
  BY DEF OnlyInterruptedFail
<1> USE DEF boot, registry, history
<1>1. CASE Boots
  <2>1. CASE StartFailing
    BY <2>1 DEF StartFailing, NextPass
  <2>2. CASE \E j \in Jobs : FailInterrupted(j)
    BY <2>2 DEF FailInterrupted, UpdateStatus, OnlyInterruptedFail, IInv, TypeOK
  <2> QED
    BY <1>1, <2>1, <2>2 DEF Boots, Boot, StartSweeping, StartServing, NextPass, ReconcileRow,
                            SweepDirectory
<1>2. CASE ~ Boots
  <2>1. ~ Crash
    BY DEF Crash
  <2>2. UNCHANGED boot
    BY <1>2, <2>1
       DEF Next, vars, Works, WorkerTakes, WorkerCannotRead, WorkerMarks, WorkerCompresses,
           WorkerGivesUp, WorkerRecords, WorkerElsewhere, Reaps, ReaperLists, ReaperPicks,
           ReaperRemoves, ReaperCannotRemove, ReaperForgets, ReaperElsewhere, Uploads,
           UploadArrives, SaveStarts, SaveEnds, SaveFails, Register, RegisterFails,
           UploaderLeaves, Elsewhere, RemovalEats, RequestElsewhere, WindowPasses,
           RowTurnsForeign, Handles, DownloadReads, DownloadTouches, DeleteRemoves,
           DeleteCannotRemove, DeleteForgets, RequesterLeaves, DownloadArrives, DeleteArrives,
           Arrives, RequestCannotRead
  <2>3. /\ queue = <<>> /\ worker = Idle /\ reaper = Asleep
        /\ \A j \in Jobs : upload[j] \notin Uploading
        /\ \A r \in Requests : req[r].pc \notin InFlight
    BY <2>2 DEF IInv, QuietUnlessServing
  <2>4. row' = row
    BY <1>2, <2>1, <2>2, <2>3
       DEF Next, vars, Works, WorkerTakes, WorkerCannotRead, WorkerMarks, WorkerCompresses,
           WorkerGivesUp, WorkerRecords, WorkerAt, Idle, Terminal, Reaps, ReaperLists,
           ReaperPicks, ReaperRemoves, ReaperCannotRemove, ReaperForgets, ReaperAt, Asleep,
           Uploads, UploadArrives, SaveStarts, SaveEnds, SaveFails, Register, RegisterFails,
           UploaderLeaves, UploadSet, Uploading, Elsewhere, RegistryFails, RemovalEats,
           WindowPasses, RowTurnsForeign, Handles, DownloadReads, DownloadTouches, Touch,
           DeleteRemoves, DeleteCannotRemove, DeleteForgets, RequesterLeaves, RequestAt,
           InFlight, DownloadArrives, DeleteArrives, Arrives, RequestCannotRead
  <2> QED
    BY <2>2, <2>4 DEF OnlyInterruptedFail
<1> QED
  BY <1>1, <1>2

(* A client sees each job queued, then settled, then gone, and never back,
   across crashes, restarts and failed writes. *)
THEOREM ServerImplementsLifecycle == Spec => ImplementsLifecycle
<1>1. Init => OnlyInterruptedFail /\ Lifecycle!Init
  BY DEF Init, OnlyInterruptedFail, Lifecycle!Init
<1>2. IInv /\ OnlyInterruptedFail /\ [Next]_vars => [Lifecycle!Next]_Seen
  BY StepsAreSeen
<1>3. Spec => [](IInv /\ OnlyInterruptedFail)
  BY <1>1, InvariantInitially, InvariantInductive, InterruptedStay, PTL DEF Spec
<1> QED
  BY <1>1, <1>2, <1>3, PTL DEF Spec, ImplementsLifecycle, Lifecycle!Spec, Seen

-----------------------------------------------------------------------------
(* Nothing is stranded *)

(* Every row can be read where no other build leaves one. *)
RowsCanBeRead == "foreign" \notin Faults => garbled = {}

(* No step of this build writes a row it cannot read. *)
LEMMA RowsStayReadable == TypeOK /\ RowsCanBeRead /\ [Next]_vars => RowsCanBeRead'
<1> SUFFICES ASSUME TypeOK, RowsCanBeRead, [Next]_vars, "foreign" \notin Faults
             PROVE  garbled' = {}
  BY DEF RowsCanBeRead
<1> USE DEF boot, registry, history
<1>1. garbled = {}
  BY DEF RowsCanBeRead
<1>2. \A j \in Jobs : ~ RowTurnsForeign(j)
  BY DEF RowTurnsForeign, Fault
<1>3. garbled' \subseteq garbled
  BY <1>2
     DEF Next, vars, Works, WorkerTakes, WorkerCannotRead, WorkerMarks, WorkerCompresses,
         WorkerGivesUp, WorkerRecords, SetStatus, UpdateStatus, RegistryFails, Reaps,
         ReaperLists, ReaperPicks, ReaperRemoves, ReaperCannotRemove, ReaperForgets, Forget,
         Uploads, UploadArrives, SaveStarts, SaveEnds, SaveFails, Register, RegistryAdd,
         RegisterFails, UploaderLeaves, Elsewhere, RemovalEats, WindowPasses, Handles,
         DownloadReads, DownloadTouches, Touch, DeleteRemoves, DeleteCannotRemove,
         DeleteForgets, RequesterLeaves, DownloadArrives, DeleteArrives, Arrives,
         RequestCannotRead, Boots, Boot, StartFailing, StartSweeping, StartServing, NextPass,
         ReconcileRow, FailInterrupted, SweepDirectory, Crash
<1> QED
  BY <1>1, <1>3

(* Owned: in the channel or in the worker's hands. *)
Owned == \A j \in Jobs : row[j] \in Unfinished => j \in Range(queue) \/ worker.job = j

(* The worker takes a job from the channel into its hands, and lets go of it
   only once its row is finished. *)
LEMMA WorkOwns ==
  ASSUME IInv, RowsCanBeRead, Works, Owned, Faults \intersect {"registry", "foreign"} = {}
  PROVE  Owned'
<1> USE DEF boot, registry, history
<1>1. CASE WorkerTakes
  <2>1. /\ Range(queue) = Range(Tail(queue)) \union {Head(queue)}
    BY <1>1, RangeOfTail DEF WorkerTakes, IInv, TypeOK
  <2>2. Head(queue) \in Range(queue) /\ Head(queue) \in Jobs
    BY <1>1, <2>1, QueueHoldsJobs DEF WorkerTakes, IInv
  <2>3. row[Head(queue)] = "queued" /\ garbled = {}
    BY <2>2 DEF IInv, QueueIsExclusive, RowsCanBeRead
  <2>4. worker'.job = Head(queue) /\ row' = row /\ queue' = Tail(queue)
    BY <1>1, <2>3 DEF WorkerTakes
  <2>5. worker.job = NoJob
    BY <1>1 DEF WorkerTakes, WorkerAt, IInv, WorkerOwnsItsJob
  <2> QED
    BY <2>1, <2>4, <2>5, JobsAssumption DEF Owned
<1>2. ~ WorkerCannotRead
  BY DEF WorkerCannotRead, RegistryFails, Fault
<1>3. CASE WorkerMarks
  BY <1>3 DEF WorkerMarks, WorkerElsewhere, SetStatus, UpdateStatus, RegistryFails, Fault,
              Owned, IInv, TypeOK, Unfinished
<1>4. CASE WorkerCompresses \/ WorkerGivesUp
  BY <1>4 DEF WorkerCompresses, WorkerGivesUp, WorkerElsewhere, Owned, IInv, TypeOK
<1>5. CASE WorkerRecords
  <2>1. worker.job \in Jobs /\ row[worker.job] # "none"
    BY <1>5, JobsAssumption
       DEF WorkerRecords, IInv, TypeOK, WorkerOwnsItsJob, Terminal, Unfinished
  <2>2. row' = [row EXCEPT ![worker.job] = worker.pc] /\ queue' = queue
    BY <1>5, <2>1 DEF WorkerRecords, SetStatus, UpdateStatus, RegistryFails, Fault
  <2>3. worker.pc \notin Unfinished
    BY <1>5 DEF WorkerRecords, Terminal, Unfinished
  <2> QED
    BY <2>1, <2>2, <2>3 DEF Owned, IInv, TypeOK
<1> QED
  BY <1>1, <1>2, <1>3, <1>4, <1>5 DEF Works

(* Nobody else touches the channel, but to add the job that was registered. *)
LEMMA OthersOwn ==
  ASSUME IInv, Owned, [Next]_vars, ~ Works, phase = "serving", phase' = "serving"
  PROVE  Owned'
<1> USE DEF boot, registry, history
<1>1. ASSUME NEW j \in Jobs, Register(j) PROVE Owned'
  <2>1. Range(queue') = Range(queue) \union {j}
    BY <1>1, RangeOfAppend DEF Register, IInv, TypeOK
  <2> QED
    BY <1>1, <2>1 DEF Register, RegistryAdd, Owned, IInv, TypeOK
<1>2. CASE \A j \in Jobs : ~ Register(j)
  <2>1. ~ Boots /\ ~ Crash
    BY DEF Boots, Boot, StartFailing, StartSweeping, StartServing, NextPass, ReconcileRow,
           FailInterrupted, SweepDirectory, Crash
  <2>2. queue' = queue /\ worker' = worker
    BY <1>2, <2>1
       DEF Next, vars, Reaps, ReaperLists, ReaperPicks, ReaperRemoves, ReaperCannotRemove,
           ReaperForgets, ReaperElsewhere, Uploads, UploadArrives, SaveStarts, SaveEnds,
           SaveFails, RegisterFails, UploaderLeaves, Elsewhere, RemovalEats, RequestElsewhere,
           WindowPasses, RowTurnsForeign, Handles, DownloadReads, DownloadTouches,
           DeleteRemoves, DeleteCannotRemove, DeleteForgets, RequesterLeaves, DownloadArrives,
           DeleteArrives, Arrives, RequestCannotRead
  <2>3. \A j \in Jobs : row'[j] \in {row[j], "none"}
    BY <1>2, <2>1
       DEF Next, vars, Reaps, ReaperLists, ReaperPicks, ReaperRemoves, ReaperCannotRemove,
           ReaperForgets, Uploads, UploadArrives, SaveStarts, SaveEnds, SaveFails,
           RegisterFails, RegistryFails, UploaderLeaves, Elsewhere, RemovalEats, WindowPasses,
           RowTurnsForeign, Handles, DownloadReads, DownloadTouches, Touch, DeleteRemoves,
           DeleteCannotRemove, DeleteForgets, Forget, RequesterLeaves, DownloadArrives,
           DeleteArrives, Arrives, RequestCannotRead, IInv, TypeOK
  <2> QED
    BY <2>2, <2>3 DEF Owned, Unfinished
<1> QED
  BY <1>1, <1>2

(* Reconcile leaves no unfinished row, so serving starts with nothing to own. *)
LEMMA ServingStartsOwned ==
  ASSUME IInv, [Next]_vars, phase # "serving", phase' = "serving"
  PROVE  Owned'
<1> USE DEF boot, registry, history
<1>1. StartServing
  BY DEF Next, vars, Works, WorkerTakes, WorkerCannotRead, WorkerMarks, WorkerCompresses,
         WorkerGivesUp, WorkerRecords, WorkerElsewhere, Reaps, ReaperLists, ReaperPicks,
         ReaperRemoves, ReaperCannotRemove, ReaperForgets, ReaperElsewhere, Uploads,
         UploadArrives, SaveStarts, SaveEnds, SaveFails, Register, RegisterFails,
         UploaderLeaves, Elsewhere, RemovalEats, RequestElsewhere, WindowPasses,
         RowTurnsForeign, Handles, DownloadReads, DownloadTouches, DeleteRemoves,
         DeleteCannotRemove, DeleteForgets, RequesterLeaves, DownloadArrives, DeleteArrives,
         Arrives, RequestCannotRead, Boots, Boot, ReconcileRow, StartFailing,
         FailInterrupted, StartSweeping, SweepDirectory, NextPass, Crash
<1> QED
  BY <1>1 DEF StartServing, NextPass, IInv, PassesAdvance, Owned

(* While no registry write is lost and every row can be read, the worker has
   every unfinished job in its hands or ahead of it. *)
THEOREM NothingIsStranded == Spec => []EveryUnfinishedJobIsOwned
<1> DEFINE Clean == Faults \intersect {"registry", "foreign"} = {}
<1>1. EveryUnfinishedJobIsOwned <=> (phase = "serving" /\ Clean => Owned)
  BY DEF EveryUnfinishedJobIsOwned, Owned
<1>2. EveryUnfinishedJobIsOwned' <=> (phase' = "serving" /\ Clean => Owned')
  BY DEF EveryUnfinishedJobIsOwned, Owned
<1>3. Init => RowsCanBeRead /\ EveryUnfinishedJobIsOwned
  BY DEF Init, RowsCanBeRead, EveryUnfinishedJobIsOwned
<1>4. IInv /\ RowsCanBeRead /\ EveryUnfinishedJobIsOwned /\ [Next]_vars
        => EveryUnfinishedJobIsOwned'
  BY <1>1, <1>2, WorkOwns, OthersOwn, ServingStartsOwned
<1>5. IInv => TypeOK
  BY DEF IInv
<1> QED
  BY <1>3, <1>4, <1>5, RowsStayReadable, InvariantInitially, InvariantInductive, PTL DEF Spec
=============================================================================

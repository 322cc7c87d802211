-------------------------- MODULE JobServerSafety --------------------------
(***************************************************************************)
(* JobServer's inductive invariant, and the safety properties that follow, *)
(* for any number of jobs, requests and faults.                            *)
(***************************************************************************)
EXTENDS JobServerProofs, SequenceTheorems

-----------------------------------------------------------------------------
(* The channel as the set of what it holds *)

(* Nothing is queued in an empty channel. *)
LEMMA RangeOfEmpty == Range(<<>>) = {} /\ IsInjective(<<>>)
  BY DEF Range, IsInjective

(* Sending an id adds it, and it is queued once if it was not before. *)
LEMMA RangeOfAppend ==
  ASSUME NEW S, NEW s \in Seq(S), NEW e \in S
  PROVE  /\ Range(Append(s, e)) = Range(s) \union {e}
         /\ IsInjective(s) /\ e \notin Range(s) => IsInjective(Append(s, e))
<1>1. /\ DOMAIN s = 1..Len(s) /\ Len(s) \in Nat
      /\ DOMAIN Append(s, e) = 1..(Len(s) + 1)
      /\ \A i \in 1..Len(s) : Append(s, e)[i] = s[i]
      /\ Append(s, e)[Len(s) + 1] = e
  BY AppendProperties
<1>2. Range(Append(s, e)) = Range(s) \union {e}
  BY <1>1 DEF Range
<1>3. ASSUME IsInjective(s), e \notin Range(s) PROVE IsInjective(Append(s, e))
  BY <1>1, <1>3 DEF Range, IsInjective
<1> QED
  BY <1>2, <1>3

(* Receiving takes the head out, for good if it was queued once. *)
LEMMA RangeOfTail ==
  ASSUME NEW S, NEW s \in Seq(S), s # <<>>
  PROVE  /\ Tail(s) \in Seq(S) /\ Head(s) \in S
         /\ Range(s) = Range(Tail(s)) \union {Head(s)}
         /\ IsInjective(s) => IsInjective(Tail(s)) /\ Head(s) \notin Range(Tail(s))
<1>1. /\ Tail(s) \in Seq(S) /\ Head(s) \in S
      /\ DOMAIN s = 1..Len(s) /\ Len(s) \in Nat \ {0}
      /\ DOMAIN Tail(s) = 1..(Len(s) - 1)
      /\ \A i \in 1..(Len(s) - 1) : Tail(s)[i] = s[i + 1]
      /\ Head(s) = s[1]
  BY HeadTailProperties, EmptySeq, LenProperties
<1>2. Range(s) = Range(Tail(s)) \union {Head(s)}
  <2>1. \A i \in 1..Len(s) : i = 1 \/ (i - 1 \in 1..(Len(s) - 1) /\ s[i] = Tail(s)[i - 1])
    BY <1>1
  <2>2. \A i \in 1..(Len(s) - 1) : i + 1 \in 1..Len(s)
    BY <1>1
  <2>3. ASSUME NEW x \in Range(s) PROVE x \in Range(Tail(s)) \union {Head(s)}
    <3>1. PICK i \in 1..Len(s) : x = s[i]
      BY <1>1, <2>3 DEF Range
    <3> QED
      BY <1>1, <2>1, <3>1 DEF Range
  <2>4. ASSUME NEW x \in Range(Tail(s)) PROVE x \in Range(s)
    <3>1. PICK i \in 1..(Len(s) - 1) : x = Tail(s)[i]
      BY <1>1, <2>4 DEF Range
    <3> QED
      BY <1>1, <2>2, <3>1 DEF Range
  <2>5. Head(s) \in Range(s)
    BY <1>1 DEF Range
  <2> QED
    BY <2>3, <2>4, <2>5
<1>3. ASSUME IsInjective(s)
      PROVE  IsInjective(Tail(s)) /\ Head(s) \notin Range(Tail(s))
  BY <1>1, <1>3 DEF Range, IsInjective
<1> QED
  BY <1>1, <1>2, <1>3

(* Only job ids are ever sent. *)
LEMMA QueueHoldsJobs == TypeOK => Range(queue) \subseteq Jobs
  BY LenProperties, ElementOfSeq DEF TypeOK, Range

-----------------------------------------------------------------------------
(* Every action keeps the invariant *)
(* The uploads keep the invariant: nobody else knows their job until it is
   registered, and then its input is whole. *)
LEMMA UploadsKeep ==
  ASSUME NEW j \in Jobs, IInv, TypeOK',
         Uploads(j)
  PROVE  IInv'
<1> USE DEF IInv, boot, registry, history
<1>1. CASE UploadArrives(j)
  <2> USE <1>1 DEF UploadArrives, UploadSet, Elsewhere
  <2>1. /\ RemoversAreAdmitted' /\ QueueIsExclusive' /\ WorkerOwnsItsJob'
        /\ PassesAdvance' /\ RemovedIsGone' /\ DeletesWereAccepted'
        /\ UnfinishedKeepsItsInput' /\ NothingUnfinishedIsCondemned' /\ CompletedMeansArchive'
        /\ DeletedStaysDeleted' /\ UnacceptedIsUnknown' /\ QuietUnlessServing'
        /\ OnlyAToldDeleteOrphans'
    BY DEF RemoversAreAdmitted, QueueIsExclusive, WorkerOwnsItsJob, PassesAdvance,
           RemovedIsGone, DeletesWereAccepted, UnfinishedKeepsItsInput,
           NothingUnfinishedIsCondemned, CompletedMeansArchive, DeletedStaysDeleted,
           UnacceptedIsUnknown, QuietUnlessServing, OnlyAToldDeleteOrphans
  <2> QED
    BY <2>1
<1>2. CASE SaveStarts(j)
  <2> USE <1>2 DEF SaveStarts, Elsewhere
  <2>1. /\ RemoversAreAdmitted' /\ QuietUnlessServing' /\ DeletesWereAccepted'
        /\ NothingUnfinishedIsCondemned' /\ QueueIsExclusive' /\ WorkerOwnsItsJob'
        /\ UnfinishedKeepsItsInput' /\ CompletedMeansArchive'
    BY DEF RemoversAreAdmitted, QuietUnlessServing, DeletesWereAccepted,
           NothingUnfinishedIsCondemned, QueueIsExclusive, WorkerOwnsItsJob,
           UnfinishedKeepsItsInput, CompletedMeansArchive
  <2>2. /\ UnacceptedIsUnknown' /\ OnlyAToldDeleteOrphans'
    BY DEF UnacceptedIsUnknown, OnlyAToldDeleteOrphans, Saving
  <2>3. PassesAdvance'
    BY DEF PassesAdvance, QuietUnlessServing, TypeOK, Unfinished, Uploading, Saving,
           InFlight, Removing, Idle, Asleep
  <2>4. RemovedIsGone'
    BY DEF RemovedIsGone, RemoversAreAdmitted, UnacceptedIsUnknown, TypeOK, Saving, Removing
  <2>5. DeletedStaysDeleted'
    BY DEF DeletedStaysDeleted, DeletesWereAccepted, UnacceptedIsUnknown, TypeOK, Saving
  <2> QED
    BY <2>1, <2>2, <2>3, <2>4, <2>5
<1>3. CASE SaveEnds(j)
  <2> USE <1>3 DEF SaveEnds, SaveReturns, UploadSet, Elsewhere
  <2>1. /\ RemoversAreAdmitted' /\ DeletesWereAccepted' /\ NothingUnfinishedIsCondemned'
        /\ QueueIsExclusive' /\ WorkerOwnsItsJob' /\ PassesAdvance'
        /\ RemovedIsGone' /\ UnfinishedKeepsItsInput' /\ CompletedMeansArchive'
        /\ DeletedStaysDeleted'
    BY DEF RemoversAreAdmitted, DeletesWereAccepted, NothingUnfinishedIsCondemned,
           QueueIsExclusive, WorkerOwnsItsJob, PassesAdvance, RemovedIsGone,
           UnfinishedKeepsItsInput, CompletedMeansArchive, DeletedStaysDeleted
  <2>2. /\ UnacceptedIsUnknown' /\ QuietUnlessServing' /\ OnlyAToldDeleteOrphans'
    BY DEF UnacceptedIsUnknown, QuietUnlessServing, OnlyAToldDeleteOrphans, TypeOK,
           Uploading, Saving, InFlight, Removing, Idle, Asleep
  <2> QED
    BY <2>1, <2>2
<1>4. CASE SaveFails(j)
  <2> USE <1>4 DEF SaveFails, SaveReturns, UploadSet, Elsewhere, Fault
  <2>1. /\ RemoversAreAdmitted' /\ QueueIsExclusive' /\ WorkerOwnsItsJob'
        /\ PassesAdvance' /\ RemovedIsGone' /\ DeletesWereAccepted'
        /\ UnfinishedKeepsItsInput' /\ NothingUnfinishedIsCondemned' /\ CompletedMeansArchive'
        /\ DeletedStaysDeleted'
    BY DEF RemoversAreAdmitted, QueueIsExclusive, WorkerOwnsItsJob, PassesAdvance,
           RemovedIsGone, DeletesWereAccepted, UnfinishedKeepsItsInput,
           NothingUnfinishedIsCondemned, CompletedMeansArchive, DeletedStaysDeleted
  <2>2. /\ UnacceptedIsUnknown' /\ QuietUnlessServing' /\ OnlyAToldDeleteOrphans'
    BY DEF UnacceptedIsUnknown, QuietUnlessServing, OnlyAToldDeleteOrphans, TypeOK,
           Uploading, Saving, InFlight, Removing, Idle, Asleep
  <2> QED
    BY <2>1, <2>2
<1>5. CASE Register(j)
  <2> USE <1>5 DEF Register, UploadSet, RegistryAdd
  <2>1. /\ RemoversAreAdmitted' /\ RemovedIsGone' /\ DeletesWereAccepted'
        /\ CompletedMeansArchive'
    BY DEF RemoversAreAdmitted, RemovedIsGone, DeletesWereAccepted, CompletedMeansArchive
  <2>2. /\ QuietUnlessServing' /\ WorkerOwnsItsJob' /\ OnlyAToldDeleteOrphans'
    BY DEF QuietUnlessServing, WorkerOwnsItsJob, OnlyAToldDeleteOrphans, TypeOK, Unfinished,
           Uploading, Saving, InFlight, Removing, Idle, Asleep
  <2>3. UnacceptedIsUnknown'
    BY RangeOfAppend DEF UnacceptedIsUnknown, TypeOK, Saving
  <2>4. QueueIsExclusive'
    BY QueueHoldsJobs, JobsAssumption, RangeOfAppend
       DEF QueueIsExclusive, UnacceptedIsUnknown, WorkerOwnsItsJob, TypeOK, Unfinished,
           Saving
  <2>5. PassesAdvance'
    BY DEF PassesAdvance, QuietUnlessServing, TypeOK, Unfinished, Uploading, Saving,
           InFlight, Removing, Idle, Asleep
  <2>6. UnfinishedKeepsItsInput'
    BY RangeOfAppend
       DEF UnfinishedKeepsItsInput, UnacceptedIsUnknown, TypeOK, Unfinished, Saving
  <2>7. NothingUnfinishedIsCondemned'
    BY RangeOfAppend
       DEF NothingUnfinishedIsCondemned, UnacceptedIsUnknown, TypeOK, Unfinished, Saving
  <2>8. DeletedStaysDeleted'
    BY DEF DeletedStaysDeleted, DeletesWereAccepted, UnacceptedIsUnknown, TypeOK
  <2> QED
    BY <2>1, <2>2, <2>3, <2>4, <2>5, <2>6, <2>7, <2>8
<1>6. CASE RegisterFails(j)
  <2> USE <1>6 DEF RegisterFails, UploadSet, RegistryFails, Fault, Elsewhere
  <2>1. /\ RemoversAreAdmitted' /\ QueueIsExclusive' /\ WorkerOwnsItsJob'
        /\ PassesAdvance' /\ RemovedIsGone' /\ DeletesWereAccepted'
        /\ UnfinishedKeepsItsInput' /\ NothingUnfinishedIsCondemned' /\ CompletedMeansArchive'
        /\ DeletedStaysDeleted' /\ OnlyAToldDeleteOrphans'
    BY DEF RemoversAreAdmitted, QueueIsExclusive, WorkerOwnsItsJob, PassesAdvance,
           RemovedIsGone, DeletesWereAccepted, UnfinishedKeepsItsInput,
           NothingUnfinishedIsCondemned, CompletedMeansArchive, DeletedStaysDeleted,
           OnlyAToldDeleteOrphans
  <2>2. /\ UnacceptedIsUnknown' /\ QuietUnlessServing'
    BY DEF UnacceptedIsUnknown, QuietUnlessServing, Uploading, Saving, InFlight, Removing,
           Idle, Asleep
  <2> QED
    BY <2>1, <2>2
<1>7. CASE UploaderLeaves(j)
  <2> USE <1>7 DEF UploaderLeaves, UploadSet, Fault, Elsewhere
  <2>1. /\ RemoversAreAdmitted' /\ QueueIsExclusive' /\ WorkerOwnsItsJob'
        /\ PassesAdvance' /\ RemovedIsGone' /\ DeletesWereAccepted'
        /\ UnfinishedKeepsItsInput' /\ NothingUnfinishedIsCondemned' /\ CompletedMeansArchive'
        /\ DeletedStaysDeleted'
    BY DEF RemoversAreAdmitted, QueueIsExclusive, WorkerOwnsItsJob, PassesAdvance,
           RemovedIsGone, DeletesWereAccepted, UnfinishedKeepsItsInput,
           NothingUnfinishedIsCondemned, CompletedMeansArchive, DeletedStaysDeleted
  <2>2. /\ UnacceptedIsUnknown' /\ QuietUnlessServing' /\ OnlyAToldDeleteOrphans'
    BY DEF UnacceptedIsUnknown, QuietUnlessServing, OnlyAToldDeleteOrphans, TypeOK,
           Uploading, Saving, InFlight, Removing, Idle, Asleep
  <2> QED
    BY <2>1, <2>2
<1> QED
  BY <1>1, <1>2, <1>3, <1>4, <1>5, <1>6, <1>7 DEF Uploads

(* The worker keeps it: it works on a job nobody may remove. *)
LEMMA WorkKeeps ==
  ASSUME IInv, TypeOK',
         Works
  PROVE  IInv'
<1> USE DEF IInv, boot, registry, history
<1>1. CASE WorkerTakes
  <2> USE <1>1 DEF WorkerTakes, WorkerAt, WorkerElsewhere
  <2>1. /\ RemoversAreAdmitted' /\ PassesAdvance' /\ RemovedIsGone'
        /\ DeletesWereAccepted' /\ UnfinishedKeepsItsInput' /\ CompletedMeansArchive'
        /\ DeletedStaysDeleted' /\ OnlyAToldDeleteOrphans' /\ QuietUnlessServing'
    BY DEF RemoversAreAdmitted, PassesAdvance, RemovedIsGone, DeletesWereAccepted,
           UnfinishedKeepsItsInput, CompletedMeansArchive, DeletedStaysDeleted,
           OnlyAToldDeleteOrphans, QuietUnlessServing
  <2>2. UnacceptedIsUnknown'
    BY RangeOfTail DEF UnacceptedIsUnknown, TypeOK, Saving, Idle
  <2>3. QueueIsExclusive'
    BY RangeOfTail DEF QueueIsExclusive, WorkerOwnsItsJob, TypeOK, Unfinished, Idle
  <2>4. WorkerOwnsItsJob'
    BY RangeOfTail DEF WorkerOwnsItsJob, QueueIsExclusive, TypeOK, Unfinished, Idle
  <2>5. NothingUnfinishedIsCondemned'
    BY RangeOfTail, JobsAssumption
       DEF NothingUnfinishedIsCondemned, TypeOK, Unfinished, Idle
  <2> QED
    BY <2>1, <2>2, <2>3, <2>4, <2>5
<1>2. CASE WorkerCannotRead
  <2> USE <1>2 DEF WorkerCannotRead, WorkerAt, WorkerElsewhere, RegistryFails, Fault
  <2>1. /\ RemoversAreAdmitted' /\ WorkerOwnsItsJob' /\ PassesAdvance'
        /\ RemovedIsGone' /\ DeletesWereAccepted' /\ UnfinishedKeepsItsInput'
        /\ CompletedMeansArchive' /\ DeletedStaysDeleted' /\ OnlyAToldDeleteOrphans'
        /\ QuietUnlessServing'
    BY DEF RemoversAreAdmitted, WorkerOwnsItsJob, PassesAdvance, RemovedIsGone,
           DeletesWereAccepted, UnfinishedKeepsItsInput, CompletedMeansArchive,
           DeletedStaysDeleted, OnlyAToldDeleteOrphans, QuietUnlessServing
  <2>2. UnacceptedIsUnknown'
    BY RangeOfTail DEF UnacceptedIsUnknown, TypeOK, Saving
  <2>3. QueueIsExclusive'
    BY RangeOfTail DEF QueueIsExclusive, TypeOK
  <2>4. NothingUnfinishedIsCondemned'
    BY RangeOfTail DEF NothingUnfinishedIsCondemned, TypeOK, Unfinished
  <2> QED
    BY <2>1, <2>2, <2>3, <2>4
<1>3. CASE WorkerMarks
  <2> USE <1>3 DEF WorkerMarks, WorkerAt, WorkerElsewhere, SetStatus, UpdateStatus, RegistryFails,
                   Fault
  <2>1. /\ RemoversAreAdmitted' /\ RemovedIsGone' /\ DeletesWereAccepted'
    BY DEF RemoversAreAdmitted, RemovedIsGone, DeletesWereAccepted
  <2>2. UnacceptedIsUnknown'
    BY DEF UnacceptedIsUnknown, TypeOK, Saving
  <2>3. QuietUnlessServing'
    BY DEF QuietUnlessServing, Uploading, Saving, InFlight, Removing, Idle, Asleep
  <2>4. QueueIsExclusive'
    BY QueueHoldsJobs, JobsAssumption DEF QueueIsExclusive, TypeOK
  <2>5. WorkerOwnsItsJob'
    BY DEF WorkerOwnsItsJob, TypeOK, Unfinished
  <2>6. PassesAdvance'
    BY DEF PassesAdvance, QuietUnlessServing, TypeOK, Unfinished, Uploading, Saving,
           InFlight, Removing, Idle, Asleep
  <2>7. UnfinishedKeepsItsInput'
    BY DEF UnfinishedKeepsItsInput, WorkerOwnsItsJob, TypeOK, Unfinished
  <2>8. NothingUnfinishedIsCondemned'
    BY DEF NothingUnfinishedIsCondemned, TypeOK, Unfinished
  <2>9. CompletedMeansArchive'
    BY DEF CompletedMeansArchive, TypeOK
  <2>10. DeletedStaysDeleted'
    BY DEF DeletedStaysDeleted, DeletesWereAccepted, TypeOK
  <2>11. OnlyAToldDeleteOrphans'
    BY DEF OnlyAToldDeleteOrphans, TypeOK
  <2> QED
    BY <2>1, <2>2, <2>3, <2>4, <2>5, <2>6, <2>7, <2>8, <2>9, <2>10, <2>11
<1>4. CASE WorkerCompresses
  <2> USE <1>4 DEF WorkerCompresses, WorkerAt, WorkerElsewhere
  <2>1. /\ RemoversAreAdmitted' /\ DeletesWereAccepted' /\ QueueIsExclusive'
        /\ PassesAdvance' /\ RemovedIsGone' /\ UnfinishedKeepsItsInput'
        /\ NothingUnfinishedIsCondemned' /\ CompletedMeansArchive' /\ DeletedStaysDeleted'
        /\ OnlyAToldDeleteOrphans'
    BY DEF RemoversAreAdmitted, DeletesWereAccepted, QueueIsExclusive, PassesAdvance,
           RemovedIsGone, UnfinishedKeepsItsInput, NothingUnfinishedIsCondemned,
           CompletedMeansArchive, DeletedStaysDeleted, OnlyAToldDeleteOrphans
  <2>2. /\ QuietUnlessServing' /\ WorkerOwnsItsJob'
    BY DEF QuietUnlessServing, WorkerOwnsItsJob, TypeOK, Unfinished, Uploading, Saving,
           InFlight, Removing, Idle, Asleep
  <2>3. UnacceptedIsUnknown'
    BY DEF UnacceptedIsUnknown, WorkerOwnsItsJob, TypeOK, Unfinished, Saving
  <2> QED
    BY <2>1, <2>2, <2>3
<1>5. CASE WorkerGivesUp
  <2> USE <1>5 DEF WorkerGivesUp, WorkerAt, WorkerElsewhere
  <2>1. /\ UnacceptedIsUnknown' /\ RemoversAreAdmitted' /\ PassesAdvance'
        /\ RemovedIsGone' /\ DeletesWereAccepted' /\ UnfinishedKeepsItsInput'
        /\ CompletedMeansArchive' /\ DeletedStaysDeleted' /\ OnlyAToldDeleteOrphans'
        /\ QueueIsExclusive' /\ WorkerOwnsItsJob' /\ NothingUnfinishedIsCondemned'
    BY DEF UnacceptedIsUnknown, RemoversAreAdmitted, PassesAdvance, RemovedIsGone,
           DeletesWereAccepted, UnfinishedKeepsItsInput, CompletedMeansArchive,
           DeletedStaysDeleted, OnlyAToldDeleteOrphans, QueueIsExclusive, WorkerOwnsItsJob,
           NothingUnfinishedIsCondemned
  <2>2. QuietUnlessServing'
    BY DEF QuietUnlessServing, Uploading, Saving, InFlight, Removing, Idle, Asleep
  <2> QED
    BY <2>1, <2>2
<1>6. CASE WorkerRecords
  <2> USE <1>6 DEF WorkerRecords, WorkerElsewhere, SetStatus, UpdateStatus, RegistryFails, Fault
  <2>1. /\ RemoversAreAdmitted' /\ RemovedIsGone' /\ DeletesWereAccepted'
        /\ QuietUnlessServing'
    BY DEF RemoversAreAdmitted, RemovedIsGone, DeletesWereAccepted, QuietUnlessServing
  <2>2. UnacceptedIsUnknown'
    BY DEF UnacceptedIsUnknown, TypeOK, Terminal, Saving, Idle
  <2>3. QueueIsExclusive'
    BY QueueHoldsJobs, JobsAssumption DEF QueueIsExclusive, TypeOK, Terminal, Idle
  <2>4. WorkerOwnsItsJob'
    BY DEF WorkerOwnsItsJob, Unfinished, Terminal, Idle
  <2>5. PassesAdvance'
    BY DEF PassesAdvance, TypeOK, Unfinished, Terminal, Idle
  <2>6. UnfinishedKeepsItsInput'
    BY DEF UnfinishedKeepsItsInput, TypeOK, Unfinished, Terminal, Idle
  <2>7. NothingUnfinishedIsCondemned'
    BY JobsAssumption DEF NothingUnfinishedIsCondemned, TypeOK, Unfinished, Terminal, Idle
  <2>8. CompletedMeansArchive'
    BY DEF CompletedMeansArchive, WorkerOwnsItsJob, TypeOK, Unfinished, Terminal, Idle
  <2>9. DeletedStaysDeleted'
    BY DEF DeletedStaysDeleted, DeletesWereAccepted, TypeOK, Terminal, Idle
  <2>10. OnlyAToldDeleteOrphans'
    BY DEF OnlyAToldDeleteOrphans, TypeOK, Terminal, Idle
  <2> QED
    BY <2>1, <2>2, <2>3, <2>4, <2>5, <2>6, <2>7, <2>8, <2>9, <2>10
<1> QED
  BY <1>1, <1>2, <1>3, <1>4, <1>5, <1>6 DEF Works

(* Downloads and deletes under way keep it: a removal touches a condemned job
   only, and a touch changes no row. *)
LEMMA RequestsKeep ==
  ASSUME NEW r \in Requests, IInv, TypeOK',
         Handles(r) \/ RequesterLeaves(r)
  PROVE  IInv'
<1> USE DEF IInv, boot, registry, history
<1>1. CASE DownloadReads(r)
  <2> USE <1>1 DEF DownloadReads, RequestAt, Goes, RequestElsewhere
  <2>1. /\ UnacceptedIsUnknown' /\ QueueIsExclusive' /\ WorkerOwnsItsJob'
        /\ PassesAdvance' /\ UnfinishedKeepsItsInput' /\ NothingUnfinishedIsCondemned'
        /\ CompletedMeansArchive' /\ RemovedIsGone' /\ DeletesWereAccepted'
        /\ DeletedStaysDeleted' /\ OnlyAToldDeleteOrphans'
    BY DEF UnacceptedIsUnknown, QueueIsExclusive, WorkerOwnsItsJob, PassesAdvance,
           UnfinishedKeepsItsInput, NothingUnfinishedIsCondemned, CompletedMeansArchive,
           RemovedIsGone, DeletesWereAccepted, DeletedStaysDeleted, OnlyAToldDeleteOrphans
  <2>2. /\ RemoversAreAdmitted' /\ QuietUnlessServing'
    BY DEF RemoversAreAdmitted, QuietUnlessServing, Uploading, Saving, InFlight, Removing,
           Idle, Asleep
  <2> QED
    BY <2>1, <2>2
<1>2. CASE DownloadTouches(r)
  <2> USE <1>2 DEF DownloadTouches, RequestAt, Goes, RequestElsewhere, Touch, RegistryFails, Fault
  <2>1. /\ UnacceptedIsUnknown' /\ QueueIsExclusive' /\ WorkerOwnsItsJob'
        /\ PassesAdvance' /\ UnfinishedKeepsItsInput' /\ NothingUnfinishedIsCondemned'
        /\ CompletedMeansArchive'
    BY DEF UnacceptedIsUnknown, QueueIsExclusive, WorkerOwnsItsJob, PassesAdvance,
           UnfinishedKeepsItsInput, NothingUnfinishedIsCondemned, CompletedMeansArchive
  <2>2. RemoversAreAdmitted'
    BY DEF RemoversAreAdmitted, TypeOK, Removing
  <2>3. QuietUnlessServing'
    BY DEF QuietUnlessServing, Uploading, Saving, InFlight, Removing, Idle, Asleep
  <2>4. RemovedIsGone'
    BY DEF RemovedIsGone, TypeOK
  <2>5. DeletesWereAccepted'
    BY DEF DeletesWereAccepted, TypeOK
  <2>6. DeletedStaysDeleted'
    BY JobsAssumption DEF DeletedStaysDeleted, TypeOK
  <2>7. OnlyAToldDeleteOrphans'
    BY DEF OnlyAToldDeleteOrphans, TypeOK
  <2> QED
    BY <2>1, <2>2, <2>3, <2>4, <2>5, <2>6, <2>7
<1>3. CASE DeleteRemoves(r)
  <2> USE <1>3 DEF DeleteRemoves, RequestAt, Goes, RequestElsewhere, Remove, RemovalReturns
  <2>1. NothingUnfinishedIsCondemned'
    BY DEF NothingUnfinishedIsCondemned
  <2>2. UnacceptedIsUnknown'
    BY DEF UnacceptedIsUnknown, RemoversAreAdmitted, TypeOK, Saving, Removing
  <2>3. RemoversAreAdmitted'
    <3>1. \A s \in Requests :
            req'[s].job = req[s].job /\ (s # r => req'[s].pc = req[s].pc)
      BY DEF TypeOK
    <3>2. req[r].job \in condemned
      BY DEF RemoversAreAdmitted, Removing
    <3> QED
      BY <3>1, <3>2 DEF RemoversAreAdmitted
  <2>4. QuietUnlessServing'
    BY DEF QuietUnlessServing, Uploading, Saving, InFlight, Removing, Idle, Asleep
  <2>5. QueueIsExclusive'
    BY QueueHoldsJobs
       DEF QueueIsExclusive, RemoversAreAdmitted, NothingUnfinishedIsCondemned, TypeOK,
           Unfinished, Removing
  <2>6. WorkerOwnsItsJob'
    BY JobsAssumption
       DEF WorkerOwnsItsJob, RemoversAreAdmitted, NothingUnfinishedIsCondemned, TypeOK,
           Unfinished, Removing
  <2>7. PassesAdvance'
    BY DEF PassesAdvance, QuietUnlessServing, TypeOK, Unfinished, Uploading, Saving,
           InFlight, Removing, Idle, Asleep
  <2>8. RemovedIsGone'
    BY JobsAssumption
       DEF RemovedIsGone, TypeOK, Unfinished, Terminal, Statuses, Staged, Uploading, Saving,
           InFlight, Removing, Idle, Asleep
  <2>9. DeletesWereAccepted'
    BY DEF DeletesWereAccepted, TypeOK
  <2>10. UnfinishedKeepsItsInput'
    BY DEF UnfinishedKeepsItsInput, RemoversAreAdmitted, NothingUnfinishedIsCondemned,
           TypeOK, Unfinished, Removing
  <2>11. CompletedMeansArchive'
    BY DEF CompletedMeansArchive, RemoversAreAdmitted, TypeOK, Removing
  <2>12. DeletedStaysDeleted'
    BY DEF DeletedStaysDeleted, TypeOK
  <2>13. OnlyAToldDeleteOrphans'
    BY DEF OnlyAToldDeleteOrphans, TypeOK
  <2> QED
    BY <2>1, <2>2, <2>3, <2>4, <2>5, <2>6, <2>7, <2>8, <2>9, <2>10, <2>11, <2>12, <2>13
<1>4. CASE DeleteCannotRemove(r)
  <2> USE <1>4 DEF DeleteCannotRemove, RequestAt, Goes, RequestElsewhere, RemovalFails,
                   RemovalReturns, Fault
  <2>1. /\ UnacceptedIsUnknown' /\ QueueIsExclusive' /\ WorkerOwnsItsJob'
        /\ PassesAdvance' /\ UnfinishedKeepsItsInput' /\ NothingUnfinishedIsCondemned'
        /\ CompletedMeansArchive'
    BY DEF UnacceptedIsUnknown, QueueIsExclusive, WorkerOwnsItsJob, PassesAdvance,
           UnfinishedKeepsItsInput, NothingUnfinishedIsCondemned, CompletedMeansArchive
  <2>2. RemoversAreAdmitted'
    BY DEF RemoversAreAdmitted, TypeOK, Removing
  <2>3. QuietUnlessServing'
    BY DEF QuietUnlessServing, Uploading, Saving, InFlight, Removing, Idle, Asleep
  <2>4. RemovedIsGone'
    BY DEF RemovedIsGone, TypeOK
  <2>5. DeletesWereAccepted'
    BY DEF DeletesWereAccepted, TypeOK
  <2>6. DeletedStaysDeleted'
    BY DEF DeletedStaysDeleted, TypeOK
  <2>7. OnlyAToldDeleteOrphans'
    BY DEF OnlyAToldDeleteOrphans, TypeOK
  <2> QED
    BY <2>1, <2>2, <2>3, <2>4, <2>5, <2>6, <2>7
<1>5. CASE DeleteForgets(r)
  <2> USE <1>5 DEF DeleteForgets, RequestAt, Goes, RequestElsewhere, Forget, RegistryFails, Fault
  <2>1. UnacceptedIsUnknown'
    BY DEF UnacceptedIsUnknown, TypeOK, Saving
  <2>2. RemoversAreAdmitted'
    BY DEF RemoversAreAdmitted, TypeOK, Removing
  <2>3. QuietUnlessServing'
    BY DEF QuietUnlessServing, Uploading, Saving, InFlight, Removing, Idle, Asleep
  <2>4. QueueIsExclusive'
    BY QueueHoldsJobs
       DEF QueueIsExclusive, RemoversAreAdmitted, NothingUnfinishedIsCondemned, TypeOK
  <2>5. WorkerOwnsItsJob'
    BY JobsAssumption
       DEF WorkerOwnsItsJob, RemoversAreAdmitted, NothingUnfinishedIsCondemned, TypeOK
  <2>6. PassesAdvance'
    BY DEF PassesAdvance, QuietUnlessServing, TypeOK, Unfinished, Uploading, Saving,
           InFlight, Removing, Idle, Asleep
  <2>7. RemovedIsGone'
    BY DEF RemovedIsGone, TypeOK
  <2>8. DeletesWereAccepted'
    BY DEF DeletesWereAccepted, RemoversAreAdmitted, TypeOK
  <2>9. UnfinishedKeepsItsInput'
    BY DEF UnfinishedKeepsItsInput, TypeOK, Unfinished
  <2>10. NothingUnfinishedIsCondemned'
    BY DEF NothingUnfinishedIsCondemned, TypeOK, Unfinished
  <2>11. CompletedMeansArchive'
    BY DEF CompletedMeansArchive, TypeOK
  <2>12. DeletedStaysDeleted'
    <3> DEFINE k == req[r].job
    <3>1. /\ UNCHANGED files
          /\ req'[r].job = k /\ \A s \in Requests \ {r} : req'[s] = req[s]
          /\ req'[r].pc = "deleted" => req[r].pc = "removed"
          /\ k \in Jobs
      BY DEF RemoversAreAdmitted, TypeOK
    <3>2. /\ \A i \in Jobs : row'[i] = row[i] \/ row'[i] = "none"
          /\ req'[r].pc \in {"deleted", "forgotten"} => row'[k] = "none"
      BY <3>1 DEF TypeOK
    <3>3. ASSUME NEW s \in Requests, req'[s].pc \in {"deleted", "forgotten"}
          PROVE  /\ row'[req'[s].job] = "none"
                 /\ req'[s].pc = "deleted" => files'[req'[s].job] = "none"
      <4>1. CASE s = r
        BY <3>1, <3>2, <3>3, <4>1 DEF RemovedIsGone
      <4>2. CASE s # r
        <5>1. req[s].job \in Jobs
          BY <3>1, <3>3, <4>2 DEF DeletesWereAccepted, TypeOK
        <5> QED
          BY <3>1, <3>2, <3>3, <4>2, <5>1 DEF DeletedStaysDeleted
      <4> QED
        BY <4>1, <4>2
    <3> QED
      BY <3>3 DEF DeletedStaysDeleted
  <2>13. OnlyAToldDeleteOrphans'
    <3> DEFINE k == req[r].job
    <3>1. /\ UNCHANGED <<files, upload>>
          /\ req'[r].job = k /\ \A s \in Requests \ {r} : req'[s] = req[s]
          /\ k \in Jobs
      BY DEF RemoversAreAdmitted, TypeOK
    <3>2. \A i \in Jobs : row'[i] # row[i] =>
            i = k /\ (req[r].pc # "removed" => req'[r].pc = "forgotten")
      BY DEF TypeOK
    <3>3. ASSUME NEW i \in Jobs, upload'[i] = "accepted", row'[i] = "none", files'[i] # "none"
          PROVE  \E s \in Requests : req'[s].job = i /\ req'[s].pc = "forgotten"
      <4>1. CASE row'[i] = row[i]
        <5>1. PICK s \in Requests : req[s].job = i /\ req[s].pc = "forgotten"
          BY <3>1, <3>3, <4>1 DEF OnlyAToldDeleteOrphans
        <5> QED
          BY <3>1, <5>1
      <4>2. CASE row'[i] # row[i]
        <5>1. files[k] # "none" /\ i = k
          BY <3>1, <3>2, <3>3, <4>2
        <5> QED
          BY <3>1, <3>2, <4>2, <5>1 DEF RemovedIsGone
      <4> QED
        BY <4>1, <4>2
    <3> QED
      BY <3>3 DEF OnlyAToldDeleteOrphans
  <2> QED
    BY <2>1, <2>2, <2>3, <2>4, <2>5, <2>6, <2>7, <2>8, <2>9, <2>10, <2>11, <2>12, <2>13
<1>6. CASE RequesterLeaves(r)
  <2> USE <1>6 DEF RequesterLeaves, RequestAt, Goes, RequestElsewhere, Fault
  <2>1. /\ UnacceptedIsUnknown' /\ QueueIsExclusive' /\ WorkerOwnsItsJob'
        /\ PassesAdvance' /\ UnfinishedKeepsItsInput' /\ NothingUnfinishedIsCondemned'
        /\ CompletedMeansArchive' /\ QuietUnlessServing' /\ RemovedIsGone'
        /\ DeletesWereAccepted' /\ DeletedStaysDeleted'
    BY DEF UnacceptedIsUnknown, QueueIsExclusive, WorkerOwnsItsJob, PassesAdvance,
           UnfinishedKeepsItsInput, NothingUnfinishedIsCondemned, CompletedMeansArchive,
           QuietUnlessServing, RemovedIsGone, DeletesWereAccepted, DeletedStaysDeleted
  <2>2. /\ RemoversAreAdmitted' /\ OnlyAToldDeleteOrphans'
    BY DEF RemoversAreAdmitted, OnlyAToldDeleteOrphans, InFlight, Removing
  <2> QED
    BY <2>1, <2>2
<1> QED
  BY <1>1, <1>2, <1>3, <1>4, <1>5, <1>6 DEF Handles

(* Requests that arrive keep it: a DELETE gets in for a finished job only. *)
LEMMA ArrivalsKeep ==
  ASSUME NEW r \in Requests, NEW j \in Jobs, IInv, TypeOK',
         DownloadArrives(r, j) \/ DeleteArrives(r, j) \/ RequestCannotRead(r, j)
  PROVE  IInv'
<1> USE DEF IInv, boot, registry, history
<1>1. CASE DownloadArrives(r, j)
  <2> USE <1>1 DEF DownloadArrives, Arrives, Admission, RequestAt, RequestElsewhere
  <2>1. /\ UnacceptedIsUnknown' /\ QueueIsExclusive' /\ WorkerOwnsItsJob'
        /\ PassesAdvance' /\ UnfinishedKeepsItsInput' /\ NothingUnfinishedIsCondemned'
        /\ CompletedMeansArchive' /\ QuietUnlessServing'
    BY DEF UnacceptedIsUnknown, QueueIsExclusive, WorkerOwnsItsJob, PassesAdvance,
           UnfinishedKeepsItsInput, NothingUnfinishedIsCondemned, CompletedMeansArchive,
           QuietUnlessServing
  <2>2. /\ RemoversAreAdmitted' /\ RemovedIsGone' /\ DeletesWereAccepted'
        /\ DeletedStaysDeleted' /\ OnlyAToldDeleteOrphans'
    BY DEF RemoversAreAdmitted, RemovedIsGone, DeletesWereAccepted, DeletedStaysDeleted,
           OnlyAToldDeleteOrphans, TypeOK, Removing
  <2> QED
    BY <2>1, <2>2
<1>2. CASE DeleteArrives(r, j)
  <2> USE <1>2 DEF DeleteArrives, Arrives, Admission, RequestAt, RequestElsewhere
  <2>1. /\ QueueIsExclusive' /\ WorkerOwnsItsJob' /\ PassesAdvance'
        /\ UnfinishedKeepsItsInput' /\ UnacceptedIsUnknown' /\ QuietUnlessServing'
        /\ CompletedMeansArchive'
    BY DEF QueueIsExclusive, WorkerOwnsItsJob, PassesAdvance, UnfinishedKeepsItsInput,
           UnacceptedIsUnknown, QuietUnlessServing, CompletedMeansArchive
  <2>2. /\ RemoversAreAdmitted' /\ RemovedIsGone' /\ DeletesWereAccepted'
    BY DEF RemoversAreAdmitted, RemovedIsGone, DeletesWereAccepted, TypeOK, Terminal,
           Removing
  <2>3. NothingUnfinishedIsCondemned'
    BY DEF NothingUnfinishedIsCondemned, QueueIsExclusive, WorkerOwnsItsJob, TypeOK,
           Unfinished, Terminal
  <2>4. DeletedStaysDeleted' /\ OnlyAToldDeleteOrphans'
    BY DEF DeletedStaysDeleted, OnlyAToldDeleteOrphans, TypeOK, Terminal
  <2> QED
    BY <2>1, <2>2, <2>3, <2>4
<1>3. CASE RequestCannotRead(r, j)
  <2> USE <1>3 DEF RequestCannotRead, RequestAt, RequestElsewhere, Fault
  <2>1. /\ UnacceptedIsUnknown' /\ QueueIsExclusive' /\ WorkerOwnsItsJob'
        /\ PassesAdvance' /\ UnfinishedKeepsItsInput' /\ NothingUnfinishedIsCondemned'
        /\ CompletedMeansArchive' /\ QuietUnlessServing'
    BY DEF UnacceptedIsUnknown, QueueIsExclusive, WorkerOwnsItsJob, PassesAdvance,
           UnfinishedKeepsItsInput, NothingUnfinishedIsCondemned, CompletedMeansArchive,
           QuietUnlessServing
  <2>2. /\ RemoversAreAdmitted' /\ RemovedIsGone' /\ DeletesWereAccepted'
        /\ DeletedStaysDeleted' /\ OnlyAToldDeleteOrphans'
    BY DEF RemoversAreAdmitted, RemovedIsGone, DeletesWereAccepted, DeletedStaysDeleted,
           OnlyAToldDeleteOrphans, TypeOK, Removing
  <2> QED
    BY <2>1, <2>2
<1> QED
  BY <1>1, <1>2, <1>3

(* The reaper keeps it: what it lists is finished and stays so. *)
LEMMA SweepsKeep ==
  ASSUME IInv, TypeOK',
         Reaps
  PROVE  IInv'
<1> USE DEF IInv, boot, registry, history
<1>1. CASE ReaperLists
  <2> USE <1>1 DEF ReaperLists, ReaperAt, ReaperGoesOn, ReaperElsewhere, Expired
  <2>1. /\ QueueIsExclusive' /\ WorkerOwnsItsJob' /\ PassesAdvance'
        /\ UnfinishedKeepsItsInput' /\ DeletedStaysDeleted' /\ OnlyAToldDeleteOrphans'
        /\ QuietUnlessServing' /\ DeletesWereAccepted' /\ CompletedMeansArchive'
    BY DEF QueueIsExclusive, WorkerOwnsItsJob, PassesAdvance, UnfinishedKeepsItsInput,
           DeletedStaysDeleted, OnlyAToldDeleteOrphans, QuietUnlessServing,
           DeletesWereAccepted, CompletedMeansArchive
  <2>2. /\ UnacceptedIsUnknown' /\ RemoversAreAdmitted' /\ RemovedIsGone'
    BY DEF UnacceptedIsUnknown, RemoversAreAdmitted, RemovedIsGone, Terminal, Saving,
           Removing, Asleep
  <2>3. NothingUnfinishedIsCondemned'
    BY JobsAssumption
       DEF NothingUnfinishedIsCondemned, QueueIsExclusive, WorkerOwnsItsJob, TypeOK,
           Unfinished, Terminal, Asleep
  <2> QED
    BY <2>1, <2>2, <2>3
<1>2. ASSUME NEW j \in Jobs, ReaperPicks(j) PROVE IInv'
  <2> USE <1>2 DEF ReaperPicks, ReaperAt, ReaperElsewhere
  <2>1. /\ UnacceptedIsUnknown' /\ QueueIsExclusive' /\ WorkerOwnsItsJob'
        /\ PassesAdvance' /\ DeletesWereAccepted' /\ UnfinishedKeepsItsInput'
        /\ NothingUnfinishedIsCondemned' /\ CompletedMeansArchive' /\ DeletedStaysDeleted'
        /\ OnlyAToldDeleteOrphans' /\ RemoversAreAdmitted' /\ RemovedIsGone'
    BY DEF UnacceptedIsUnknown, QueueIsExclusive, WorkerOwnsItsJob, PassesAdvance,
           DeletesWereAccepted, UnfinishedKeepsItsInput, NothingUnfinishedIsCondemned,
           CompletedMeansArchive, DeletedStaysDeleted, OnlyAToldDeleteOrphans,
           RemoversAreAdmitted, RemovedIsGone
  <2>2. QuietUnlessServing'
    BY DEF QuietUnlessServing, Uploading, Saving, InFlight, Removing, Idle, Asleep
  <2> QED
    BY <2>1, <2>2
<1>3. CASE ReaperRemoves
  <2> USE <1>3 DEF ReaperRemoves, ReaperAt, ReaperElsewhere, Remove
  <2>1. /\ DeletesWereAccepted' /\ NothingUnfinishedIsCondemned' /\ RemoversAreAdmitted'
        /\ DeletedStaysDeleted' /\ OnlyAToldDeleteOrphans'
    BY DEF DeletesWereAccepted, NothingUnfinishedIsCondemned, RemoversAreAdmitted,
           DeletedStaysDeleted, OnlyAToldDeleteOrphans
  <2>2. /\ QuietUnlessServing' /\ RemovedIsGone'
    BY DEF QuietUnlessServing, RemovedIsGone, TypeOK, Uploading, Saving, InFlight, Removing,
           Idle, Asleep
  <2>3. UnacceptedIsUnknown'
    BY DEF UnacceptedIsUnknown, RemoversAreAdmitted, TypeOK, Saving, Removing
  <2>4. QueueIsExclusive'
    BY QueueHoldsJobs
       DEF QueueIsExclusive, RemoversAreAdmitted, NothingUnfinishedIsCondemned, TypeOK
  <2>5. WorkerOwnsItsJob'
    BY JobsAssumption
       DEF WorkerOwnsItsJob, RemoversAreAdmitted, NothingUnfinishedIsCondemned, TypeOK
  <2>6. PassesAdvance'
    BY DEF PassesAdvance, QuietUnlessServing, TypeOK, Unfinished, Uploading, Saving,
           InFlight, Removing, Idle, Asleep
  <2>7. UnfinishedKeepsItsInput'
    BY DEF UnfinishedKeepsItsInput, RemoversAreAdmitted, NothingUnfinishedIsCondemned,
           TypeOK
  <2>8. CompletedMeansArchive'
    BY DEF CompletedMeansArchive, RemoversAreAdmitted, TypeOK, Removing
  <2> QED
    BY <2>1, <2>2, <2>3, <2>4, <2>5, <2>6, <2>7, <2>8
<1>4. CASE ReaperCannotRemove
  <2> USE <1>4 DEF ReaperCannotRemove, ReaperAt, ReaperGoesOn, ReaperElsewhere, RemovalFails,
                   Fault
  <2>1. /\ UnacceptedIsUnknown' /\ QueueIsExclusive' /\ WorkerOwnsItsJob'
        /\ PassesAdvance' /\ DeletesWereAccepted' /\ UnfinishedKeepsItsInput'
        /\ NothingUnfinishedIsCondemned' /\ CompletedMeansArchive' /\ DeletedStaysDeleted'
        /\ OnlyAToldDeleteOrphans'
    BY DEF UnacceptedIsUnknown, QueueIsExclusive, WorkerOwnsItsJob, PassesAdvance,
           DeletesWereAccepted, UnfinishedKeepsItsInput, NothingUnfinishedIsCondemned,
           CompletedMeansArchive, DeletedStaysDeleted, OnlyAToldDeleteOrphans
  <2>2. /\ RemoversAreAdmitted' /\ QuietUnlessServing' /\ RemovedIsGone'
    BY DEF RemoversAreAdmitted, QuietUnlessServing, RemovedIsGone, Uploading, Saving,
           InFlight, Removing, Idle, Asleep
  <2> QED
    BY <2>1, <2>2
<1>5. CASE ReaperForgets
  <2> USE <1>5 DEF ReaperForgets, ReaperAt, ReaperGoesOn, ReaperElsewhere, Forget, RegistryFails,
                   Fault
  <2>1. DeletesWereAccepted'
    BY DEF DeletesWereAccepted
  <2>2. /\ UnacceptedIsUnknown' /\ RemoversAreAdmitted' /\ QuietUnlessServing'
        /\ RemovedIsGone' /\ UnfinishedKeepsItsInput' /\ NothingUnfinishedIsCondemned'
        /\ CompletedMeansArchive'
    BY DEF UnacceptedIsUnknown, RemoversAreAdmitted, QuietUnlessServing, RemovedIsGone,
           UnfinishedKeepsItsInput, NothingUnfinishedIsCondemned, CompletedMeansArchive,
           TypeOK, Unfinished, Uploading, Saving, InFlight, Removing, Idle, Asleep
  <2>3. QueueIsExclusive'
    BY QueueHoldsJobs
       DEF QueueIsExclusive, RemoversAreAdmitted, NothingUnfinishedIsCondemned, TypeOK
  <2>4. WorkerOwnsItsJob'
    BY JobsAssumption
       DEF WorkerOwnsItsJob, RemoversAreAdmitted, NothingUnfinishedIsCondemned, TypeOK
  <2>5. PassesAdvance'
    BY DEF PassesAdvance, QuietUnlessServing, TypeOK, Unfinished, Uploading, Saving,
           InFlight, Removing, Idle, Asleep
  <2>6. DeletedStaysDeleted'
    BY DEF DeletedStaysDeleted, DeletesWereAccepted, TypeOK, Asleep
  <2>7. OnlyAToldDeleteOrphans'
    BY DEF OnlyAToldDeleteOrphans, RemovedIsGone, TypeOK, Asleep
  <2> QED
    BY <2>1, <2>2, <2>3, <2>4, <2>5, <2>6, <2>7
<1> QED
  BY <1>1, <1>2, <1>3, <1>4, <1>5 DEF Reaps

(* Every pass of the startup keeps it, with nothing else running. *)
LEMMA StartupKeeps ==
  ASSUME IInv, TypeOK',
         Boots
  PROVE  IInv'
<1> USE DEF IInv, boot, registry, history
<1>1. CASE Boot
  <2> USE <1>1 DEF Boot, NextPass, BootElsewhere
  <2>1. /\ UnacceptedIsUnknown' /\ RemoversAreAdmitted' /\ QueueIsExclusive'
        /\ WorkerOwnsItsJob' /\ RemovedIsGone' /\ DeletesWereAccepted'
        /\ UnfinishedKeepsItsInput' /\ NothingUnfinishedIsCondemned' /\ CompletedMeansArchive'
        /\ DeletedStaysDeleted' /\ OnlyAToldDeleteOrphans' /\ QuietUnlessServing'
        /\ PassesAdvance'
    BY DEF UnacceptedIsUnknown, RemoversAreAdmitted, QueueIsExclusive, WorkerOwnsItsJob,
           RemovedIsGone, DeletesWereAccepted, UnfinishedKeepsItsInput,
           NothingUnfinishedIsCondemned, CompletedMeansArchive, DeletedStaysDeleted,
           OnlyAToldDeleteOrphans, QuietUnlessServing, PassesAdvance
  <2> QED
    BY <2>1
<1>2. ASSUME NEW j \in Jobs, ReconcileRow(j) PROVE IInv'
  <2> USE <1>2 DEF ReconcileRow, BootElsewhere, Forget
  <2>1. /\ RemoversAreAdmitted' /\ QuietUnlessServing' /\ RemovedIsGone'
        /\ DeletesWereAccepted'
    BY DEF RemoversAreAdmitted, QuietUnlessServing, RemovedIsGone, DeletesWereAccepted
  <2>2. /\ UnacceptedIsUnknown' /\ UnfinishedKeepsItsInput' /\ NothingUnfinishedIsCondemned'
        /\ CompletedMeansArchive' /\ OnlyAToldDeleteOrphans'
    BY DEF UnacceptedIsUnknown, UnfinishedKeepsItsInput, NothingUnfinishedIsCondemned,
           CompletedMeansArchive, OnlyAToldDeleteOrphans, TypeOK, Unfinished, Saving
  <2>3. QueueIsExclusive'
    BY RangeOfEmpty DEF QueueIsExclusive, QuietUnlessServing, TypeOK
  <2>4. WorkerOwnsItsJob'
    BY DEF WorkerOwnsItsJob, QuietUnlessServing, TypeOK, Unfinished, Uploading, Saving,
           InFlight, Removing, Idle, Asleep
  <2>5. PassesAdvance'
    <3>1. CASE files[j] # "none"
      BY <3>1 DEF PassesAdvance
    <3>2. CASE files[j] = "none"
      BY <3>2 DEF PassesAdvance, TypeOK
    <3> QED
      BY <3>1, <3>2
  <2>6. DeletedStaysDeleted'
    BY DEF DeletedStaysDeleted, DeletesWereAccepted, TypeOK
  <2> QED
    BY <2>1, <2>2, <2>3, <2>4, <2>5, <2>6
<1>3. CASE StartFailing
  <2> USE <1>3 DEF StartFailing, NextPass, BootElsewhere
  <2>1. /\ UnacceptedIsUnknown' /\ RemoversAreAdmitted' /\ QueueIsExclusive'
        /\ WorkerOwnsItsJob' /\ RemovedIsGone' /\ DeletesWereAccepted'
        /\ UnfinishedKeepsItsInput' /\ NothingUnfinishedIsCondemned' /\ CompletedMeansArchive'
        /\ DeletedStaysDeleted' /\ OnlyAToldDeleteOrphans' /\ QuietUnlessServing'
        /\ PassesAdvance'
    BY DEF UnacceptedIsUnknown, RemoversAreAdmitted, QueueIsExclusive, WorkerOwnsItsJob,
           RemovedIsGone, DeletesWereAccepted, UnfinishedKeepsItsInput,
           NothingUnfinishedIsCondemned, CompletedMeansArchive, DeletedStaysDeleted,
           OnlyAToldDeleteOrphans, QuietUnlessServing, PassesAdvance
  <2> QED
    BY <2>1
<1>4. ASSUME NEW j \in Jobs, FailInterrupted(j) PROVE IInv'
  <2> USE <1>4 DEF FailInterrupted, BootElsewhere, UpdateStatus
  <2>1. /\ RemoversAreAdmitted' /\ QuietUnlessServing' /\ RemovedIsGone'
        /\ DeletesWereAccepted' /\ UnacceptedIsUnknown' /\ CompletedMeansArchive'
        /\ DeletedStaysDeleted' /\ OnlyAToldDeleteOrphans'
    BY DEF RemoversAreAdmitted, QuietUnlessServing, RemovedIsGone, DeletesWereAccepted,
           UnacceptedIsUnknown, CompletedMeansArchive, DeletedStaysDeleted,
           OnlyAToldDeleteOrphans
  <2>2. /\ PassesAdvance' /\ UnfinishedKeepsItsInput' /\ NothingUnfinishedIsCondemned'
    BY DEF PassesAdvance, UnfinishedKeepsItsInput, NothingUnfinishedIsCondemned, TypeOK,
           Unfinished
  <2>3. QueueIsExclusive'
    BY RangeOfEmpty DEF QueueIsExclusive, QuietUnlessServing, TypeOK
  <2>4. WorkerOwnsItsJob'
    BY DEF WorkerOwnsItsJob, QuietUnlessServing, TypeOK, Unfinished, Uploading, Saving,
           InFlight, Removing, Idle, Asleep
  <2> QED
    BY <2>1, <2>2, <2>3, <2>4
<1>5. CASE StartSweeping
  <2> USE <1>5 DEF StartSweeping, NextPass, BootElsewhere
  <2>1. /\ UnacceptedIsUnknown' /\ RemoversAreAdmitted' /\ QueueIsExclusive'
        /\ WorkerOwnsItsJob' /\ RemovedIsGone' /\ DeletesWereAccepted'
        /\ UnfinishedKeepsItsInput' /\ NothingUnfinishedIsCondemned' /\ CompletedMeansArchive'
        /\ DeletedStaysDeleted' /\ OnlyAToldDeleteOrphans' /\ QuietUnlessServing'
        /\ PassesAdvance'
    BY DEF UnacceptedIsUnknown, RemoversAreAdmitted, QueueIsExclusive, WorkerOwnsItsJob,
           RemovedIsGone, DeletesWereAccepted, UnfinishedKeepsItsInput,
           NothingUnfinishedIsCondemned, CompletedMeansArchive, DeletedStaysDeleted,
           OnlyAToldDeleteOrphans, QuietUnlessServing, PassesAdvance
  <2> QED
    BY <2>1
<1>6. ASSUME NEW j \in Jobs, SweepDirectory(j) PROVE IInv'
  <2> USE <1>6 DEF SweepDirectory, BootElsewhere, Remove, RemovalFails, Fault
  <2>1. /\ RemoversAreAdmitted' /\ QuietUnlessServing' /\ DeletesWereAccepted'
        /\ NothingUnfinishedIsCondemned'
    BY DEF RemoversAreAdmitted, QuietUnlessServing, DeletesWereAccepted,
           NothingUnfinishedIsCondemned
  <2>2. /\ PassesAdvance' /\ OnlyAToldDeleteOrphans'
    BY DEF PassesAdvance, OnlyAToldDeleteOrphans, TypeOK, Unfinished
  <2>3. UnacceptedIsUnknown'
    BY DEF UnacceptedIsUnknown, QuietUnlessServing, TypeOK, Uploading, Saving, InFlight,
           Removing, Idle, Asleep
  <2>4. QueueIsExclusive'
    BY RangeOfEmpty DEF QueueIsExclusive, QuietUnlessServing, TypeOK
  <2>5. WorkerOwnsItsJob'
    BY DEF WorkerOwnsItsJob, QuietUnlessServing, TypeOK, Unfinished, Uploading, Saving,
           InFlight, Removing, Idle, Asleep
  <2>6. RemovedIsGone'
    BY DEF RemovedIsGone, RemoversAreAdmitted, TypeOK, Removing
  <2>7. UnfinishedKeepsItsInput'
    BY DEF UnfinishedKeepsItsInput, PassesAdvance, TypeOK, Unfinished
  <2>8. CompletedMeansArchive'
    BY DEF CompletedMeansArchive, PassesAdvance, TypeOK, Unfinished
  <2>9. DeletedStaysDeleted'
    BY DEF DeletedStaysDeleted, DeletesWereAccepted, TypeOK
  <2> QED
    BY <2>1, <2>2, <2>3, <2>4, <2>5, <2>6, <2>7, <2>8, <2>9
<1>7. CASE StartServing
  <2> USE <1>7 DEF StartServing, NextPass, BootElsewhere
  <2>1. /\ UnacceptedIsUnknown' /\ RemoversAreAdmitted' /\ QueueIsExclusive'
        /\ WorkerOwnsItsJob' /\ RemovedIsGone' /\ DeletesWereAccepted'
        /\ UnfinishedKeepsItsInput' /\ NothingUnfinishedIsCondemned' /\ CompletedMeansArchive'
        /\ DeletedStaysDeleted' /\ OnlyAToldDeleteOrphans' /\ QuietUnlessServing'
        /\ PassesAdvance'
    BY DEF UnacceptedIsUnknown, RemoversAreAdmitted, QueueIsExclusive, WorkerOwnsItsJob,
           RemovedIsGone, DeletesWereAccepted, UnfinishedKeepsItsInput,
           NothingUnfinishedIsCondemned, CompletedMeansArchive, DeletedStaysDeleted,
           OnlyAToldDeleteOrphans, QuietUnlessServing, PassesAdvance
  <2> QED
    BY <2>1
<1> QED
  BY <1>1, <1>2, <1>3, <1>4, <1>5, <1>6, <1>7 DEF Boots

(* Removals half way, time and foreign values keep it. *)
LEMMA EnvironmentKeeps ==
  ASSUME NEW j \in Jobs, IInv, TypeOK',
         RemovalEats(j) \/ WindowPasses(j) \/ RowTurnsForeign(j)
  PROVE  IInv'
<1> USE DEF IInv, boot, registry, history
<1>1. CASE RemovalEats(j)
  <2> USE <1>1 DEF RemovalEats, BeingRemoved, RequestElsewhere
  <2>1. j \in condemned
    BY DEF ReaperAt, Removing, RemoversAreAdmitted
  <2>2. /\ RemoversAreAdmitted' /\ QuietUnlessServing' /\ DeletesWereAccepted'
        /\ NothingUnfinishedIsCondemned' /\ UnacceptedIsUnknown' /\ PassesAdvance'
        /\ RemovedIsGone' /\ CompletedMeansArchive' /\ DeletedStaysDeleted'
        /\ OnlyAToldDeleteOrphans'
    BY <2>1
       DEF RemoversAreAdmitted, QuietUnlessServing, DeletesWereAccepted,
           NothingUnfinishedIsCondemned, UnacceptedIsUnknown, PassesAdvance, RemovedIsGone,
           CompletedMeansArchive, DeletedStaysDeleted, OnlyAToldDeleteOrphans
  <2>3. QueueIsExclusive'
    BY <2>1 DEF QueueIsExclusive, NothingUnfinishedIsCondemned, TypeOK, Unfinished, Removing
  <2>4. WorkerOwnsItsJob'
    BY <2>1 DEF WorkerOwnsItsJob, NothingUnfinishedIsCondemned, TypeOK, Unfinished, Removing
  <2>5. UnfinishedKeepsItsInput'
    BY <2>1
       DEF UnfinishedKeepsItsInput, NothingUnfinishedIsCondemned, TypeOK, Unfinished,
           Removing
  <2> QED
    BY <2>1, <2>2, <2>3, <2>4, <2>5
<1>2. CASE WindowPasses(j)
  <2> USE <1>2 DEF WindowPasses
  <2>1. /\ UnacceptedIsUnknown' /\ RemoversAreAdmitted' /\ QuietUnlessServing'
        /\ QueueIsExclusive' /\ WorkerOwnsItsJob' /\ PassesAdvance'
        /\ RemovedIsGone' /\ DeletesWereAccepted' /\ UnfinishedKeepsItsInput'
        /\ NothingUnfinishedIsCondemned' /\ CompletedMeansArchive' /\ DeletedStaysDeleted'
        /\ OnlyAToldDeleteOrphans'
    BY DEF UnacceptedIsUnknown, RemoversAreAdmitted, QuietUnlessServing, QueueIsExclusive,
           WorkerOwnsItsJob, PassesAdvance, RemovedIsGone, DeletesWereAccepted,
           UnfinishedKeepsItsInput, NothingUnfinishedIsCondemned, CompletedMeansArchive,
           DeletedStaysDeleted, OnlyAToldDeleteOrphans
  <2> QED
    BY <2>1
<1>3. CASE RowTurnsForeign(j)
  <2> USE <1>3 DEF RowTurnsForeign, Fault
  <2>1. /\ UnacceptedIsUnknown' /\ RemoversAreAdmitted' /\ QuietUnlessServing'
        /\ QueueIsExclusive' /\ WorkerOwnsItsJob' /\ PassesAdvance'
        /\ RemovedIsGone' /\ DeletesWereAccepted' /\ UnfinishedKeepsItsInput'
        /\ NothingUnfinishedIsCondemned' /\ CompletedMeansArchive' /\ DeletedStaysDeleted'
        /\ OnlyAToldDeleteOrphans'
    BY DEF UnacceptedIsUnknown, RemoversAreAdmitted, QuietUnlessServing, QueueIsExclusive,
           WorkerOwnsItsJob, PassesAdvance, RemovedIsGone, DeletesWereAccepted,
           UnfinishedKeepsItsInput, NothingUnfinishedIsCondemned, CompletedMeansArchive,
           DeletedStaysDeleted, OnlyAToldDeleteOrphans
  <2> QED
    BY <2>1
<1> QED
  BY <1>1, <1>2, <1>3

(* A crash keeps it: it leaves the two stores alone and stops everybody. *)
LEMMA CrashKeeps ==
  ASSUME IInv, TypeOK',
         Crash
  PROVE  IInv'
<1> USE DEF IInv, boot, registry, history
<1>1. CASE Crash
  <2> USE <1>1 DEF Crash, Fault
  <2>1. /\ UnfinishedKeepsItsInput' /\ CompletedMeansArchive' /\ PassesAdvance'
        /\ DeletesWereAccepted' /\ DeletedStaysDeleted'
    BY DEF UnfinishedKeepsItsInput, CompletedMeansArchive, PassesAdvance,
           DeletesWereAccepted, DeletedStaysDeleted
  <2>2. /\ RemoversAreAdmitted' /\ QuietUnlessServing' /\ WorkerOwnsItsJob'
        /\ RemovedIsGone' /\ OnlyAToldDeleteOrphans'
    BY DEF RemoversAreAdmitted, QuietUnlessServing, WorkerOwnsItsJob, RemovedIsGone,
           OnlyAToldDeleteOrphans, Unfinished, Uploading, Saving, InFlight, Removing, Idle,
           Asleep
  <2>3. UnacceptedIsUnknown'
    BY RangeOfEmpty
       DEF UnacceptedIsUnknown, Uploading, Saving, InFlight, Removing, Idle, Asleep
  <2>4. QueueIsExclusive'
    BY RangeOfEmpty DEF QueueIsExclusive
  <2>5. NothingUnfinishedIsCondemned'
    BY RangeOfEmpty, JobsAssumption
       DEF NothingUnfinishedIsCondemned, TypeOK, Unfinished, Uploading, Saving, InFlight,
           Removing, Idle, Asleep
  <2> QED
    BY <2>1, <2>2, <2>3, <2>4, <2>5
<1> QED
  BY <1>1

-----------------------------------------------------------------------------
(* The invariant holds in the initial states. *)
LEMMA InvariantInitially == Init => IInv
<1> SUFFICES ASSUME Init PROVE IInv
  OBVIOUS
<1>1. TypeOK
  BY JobsAssumption, FaultsAssumption
     DEF Init, TypeOK, Statuses, Phases, Staged, UploadStates, Idle, Asleep, RequestStates
<1>2. /\ UnacceptedIsUnknown /\ QueueIsExclusive /\ WorkerOwnsItsJob /\ PassesAdvance
      /\ UnfinishedKeepsItsInput /\ NothingUnfinishedIsCondemned
      /\ CompletedMeansArchive /\ OnlyAToldDeleteOrphans
  BY RangeOfEmpty
     DEF Init, UnacceptedIsUnknown, QueueIsExclusive, WorkerOwnsItsJob, PassesAdvance,
         UnfinishedKeepsItsInput, NothingUnfinishedIsCondemned, CompletedMeansArchive,
         OnlyAToldDeleteOrphans, Idle, Saving, Unfinished
<1>3. \A r \in Requests : req[r].pc = "unsent"
  BY DEF Init
<1>4. /\ RemoversAreAdmitted /\ QuietUnlessServing /\ RemovedIsGone
      /\ DeletesWereAccepted /\ DeletedStaysDeleted
  BY <1>3
     DEF Init, RemoversAreAdmitted, QuietUnlessServing, RemovedIsGone, DeletesWereAccepted,
         DeletedStaysDeleted, Idle, Asleep, Uploading, Saving, InFlight, Removing
<1> QED
  BY <1>1, <1>2, <1>4 DEF IInv

(* Every step keeps it. *)
LEMMA InvariantInductive == IInv /\ [Next]_vars => IInv'
<1> SUFFICES ASSUME IInv, [Next]_vars PROVE IInv'
  OBVIOUS
<1>1. TypeOK'
  BY TypeOKInductive DEF IInv
<1>2. CASE Next
  <2>1. CASE Works
    BY <1>1, <2>1, WorkKeeps
  <2>2. CASE Reaps
    BY <1>1, <2>2, SweepsKeep
  <2>3. CASE Boots
    BY <1>1, <2>3, StartupKeeps
  <2>4. CASE Crash
    BY <1>1, <2>4, CrashKeeps
  <2>5. ASSUME NEW j \in Jobs, Uploads(j) PROVE IInv'
    BY <1>1, <2>5, UploadsKeep
  <2>6. ASSUME NEW j \in Jobs, RemovalEats(j) \/ WindowPasses(j) \/ RowTurnsForeign(j)
        PROVE  IInv'
    BY <1>1, <2>6, EnvironmentKeeps
  <2>7. ASSUME NEW r \in Requests, Handles(r) \/ RequesterLeaves(r) PROVE IInv'
    BY <1>1, <2>7, RequestsKeep
  <2>8. ASSUME NEW r \in Requests, NEW j \in Jobs,
               DownloadArrives(r, j) \/ DeleteArrives(r, j) \/ RequestCannotRead(r, j)
        PROVE  IInv'
    BY <1>1, <2>8, ArrivalsKeep
  <2> QED
    BY <1>2, <2>1, <2>2, <2>3, <2>4, <2>5, <2>6, <2>7, <2>8 DEF Next
<1>3. CASE UNCHANGED vars
  BY <1>3
     DEF IInv, vars, boot, registry, history, TypeOK, UnacceptedIsUnknown,
         RemoversAreAdmitted, QuietUnlessServing, QueueIsExclusive, WorkerOwnsItsJob,
         PassesAdvance, RemovedIsGone, DeletesWereAccepted, UnfinishedKeepsItsInput,
         NothingUnfinishedIsCondemned, CompletedMeansArchive, DeletedStaysDeleted,
         OnlyAToldDeleteOrphans
<1> QED
  BY <1>2, <1>3

(* The invariant holds in every reachable state. *)
THEOREM InvariantHolds == Spec => []IInv
  BY InvariantInitially, InvariantInductive, PTL DEF Spec

-----------------------------------------------------------------------------
(* What a reader should know *)

(* No sweep, DELETE or restart takes the files of an unfinished job. *)
THEOREM InputsAreKept == Spec => []UnfinishedKeepsItsInput
<1>1. IInv => UnfinishedKeepsItsInput
  BY DEF IInv
<1> QED
  BY <1>1, InvariantHolds, PTL

(* Neither a DELETE nor the reaper gets past its check for a job that is not
   finished, whatever happened between the check and the removal. *)
THEOREM OnlyFinishedJobsAreRemoved == Spec => []NothingUnfinishedIsCondemned
<1>1. IInv => NothingUnfinishedIsCondemned
  BY DEF IInv
<1> QED
  BY <1>1, InvariantHolds, PTL

(* A completed job has its archive until somebody sets out to remove it. *)
THEOREM CompletedJobsCanBeDownloaded == Spec => []CompletedMeansArchive
<1>1. IInv => CompletedMeansArchive
  BY DEF IInv
<1> QED
  BY <1>1, InvariantHolds, PTL

(* No late touch, status update or restart undoes an answered DELETE. *)
THEOREM DeletesAreFinal == Spec => []DeletedStaysDeleted
<1>1. IInv => DeletedStaysDeleted
  BY DEF IInv
<1> QED
  BY <1>1, InvariantHolds, PTL

(* Only a DELETE that says so leaves the files of an accepted job behind. *)
THEOREM SweepsOrphanNothing == Spec => []OnlyAToldDeleteOrphans
<1>1. IInv => OnlyAToldDeleteOrphans
  BY DEF IInv
<1> QED
  BY <1>1, InvariantHolds, PTL

(* A restart that reaches serving has made the two stores agree. *)
THEOREM RestartsReconcile == Spec => RestartReconciles
<1>1. ASSUME Next, phase # "serving", phase' = "serving" PROVE StartServing
  <2> USE DEF boot
  <2>1. Works => UNCHANGED phase
    BY DEF Works, WorkerTakes, WorkerCannotRead, WorkerMarks, WorkerCompresses,
           WorkerGivesUp, WorkerRecords, WorkerElsewhere
  <2>2. Reaps => UNCHANGED phase
    BY DEF Reaps, ReaperLists, ReaperPicks, ReaperRemoves, ReaperCannotRemove,
           ReaperForgets, ReaperElsewhere
  <2>3. ~ Crash
    BY <1>1 DEF Crash
  <2>4. Boots => StartServing
    BY <1>1 DEF Boots, Boot, ReconcileRow, StartFailing, FailInterrupted, StartSweeping,
                SweepDirectory, NextPass
  <2>5. \A j \in Jobs :
          Uploads(j) \/ RemovalEats(j) \/ WindowPasses(j) \/ RowTurnsForeign(j)
            => UNCHANGED phase
    BY DEF Uploads, UploadArrives, SaveStarts, SaveEnds, SaveFails, Register,
           RegisterFails, UploaderLeaves, Elsewhere, RemovalEats, RequestElsewhere,
           WindowPasses, RowTurnsForeign
  <2>6. \A r \in Requests : Handles(r) \/ RequesterLeaves(r) => UNCHANGED phase
    BY DEF Handles, DownloadReads, DownloadTouches, DeleteRemoves, DeleteCannotRemove,
           DeleteForgets, RequesterLeaves, RequestElsewhere
  <2>7. \A r \in Requests, j \in Jobs :
          DownloadArrives(r, j) \/ DeleteArrives(r, j) \/ RequestCannotRead(r, j)
            => UNCHANGED phase
    BY DEF DownloadArrives, DeleteArrives, Arrives, RequestCannotRead, RequestElsewhere
  <2> QED
    BY <1>1, <2>1, <2>2, <2>3, <2>4, <2>5, <2>6, <2>7 DEF Next
<1>2. ASSUME IInv, StartServing, NEW j \in Jobs
      PROVE  /\ row'[j] # "none" => row'[j] \in Terminal /\ files'[j] # "none"
             /\ files'[j] # "none" => row'[j] # "none" \/ "storage" \in Faults
  BY <1>2
     DEF IInv, PassesAdvance, StartServing, NextPass, registry, TypeOK, Statuses
<1>3. IInv /\ [Next]_vars =>
        [ phase # "serving" /\ phase' = "serving" =>
            \A j \in Jobs :
              /\ row'[j] # "none" => row'[j] \in Terminal /\ files'[j] # "none"
              /\ files'[j] # "none" => row'[j] # "none" \/ "storage" \in Faults ]_vars
  BY <1>1, <1>2
<1> QED
  BY <1>3, InvariantHolds, PTL DEF Spec, RestartReconciles
=============================================================================

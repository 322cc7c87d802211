-------------------------- MODULE JobServerProofs --------------------------
(***************************************************************************)
(* JobServer's invariants for any number of jobs, requests and faults.     *)
(***************************************************************************)
EXTENDS JobServerInvariant, TLAPS

-----------------------------------------------------------------------------
(* A handler that moves on keeps the type of the requests (the `Goes` of every
   step of routes.rs). *)
LEMMA GoingKeepsRequests ==
  ASSUME TypeOK, NEW r \in Requests, NEW pc \in RequestStates, Goes(r, pc)
  PROVE  req' \in [Requests -> [op : Ops, job : Jobs \union {NoJob}, pc : RequestStates]]
<1>1. req \in [Requests -> [op : Ops, job : Jobs \union {NoJob}, pc : RequestStates]]
  BY DEF TypeOK
<1>2. [req[r] EXCEPT !.pc = pc] \in [op : Ops, job : Jobs \union {NoJob}, pc : RequestStates]
  BY <1>1
<1>3. req' = [req EXCEPT ![r] = [req[r] EXCEPT !.pc = pc]]
  BY <1>1 DEF Goes
<1> QED
  BY <1>1, <1>2, <1>3

(* So does a request's arrival, which names its job and its first state. *)
LEMMA SendingKeepsRequests ==
  ASSUME TypeOK, NEW r \in Requests, NEW j \in Jobs, NEW pc \in RequestStates,
         req' = [req EXCEPT ![r].job = j, ![r].pc = pc]
  PROVE  req' \in [Requests -> [op : Ops, job : Jobs \union {NoJob}, pc : RequestStates]]
<1> DEFINE sent == [req EXCEPT ![r] = [req[r] EXCEPT !.job = j]]
<1>1. req \in [Requests -> [op : Ops, job : Jobs \union {NoJob}, pc : RequestStates]]
  BY DEF TypeOK
<1>2. [req[r] EXCEPT !.job = j] \in [op : Ops, job : Jobs \union {NoJob}, pc : RequestStates]
  BY <1>1
<1>3. sent \in [Requests -> [op : Ops, job : Jobs \union {NoJob}, pc : RequestStates]]
  BY <1>1, <1>2
<1>4. req' = [sent EXCEPT ![r].pc = pc]
  BY <1>1
<1> HIDE DEF sent
<1>5. [sent[r] EXCEPT !.pc = pc] \in [op : Ops, job : Jobs \union {NoJob}, pc : RequestStates]
  BY <1>3
<1>6. req' = [sent EXCEPT ![r] = [sent[r] EXCEPT !.pc = pc]]
  BY <1>3, <1>4
<1> QED
  BY <1>3, <1>5, <1>6

(* Every step keeps every variable in its type. *)
LEMMA TypeOKInductive == TypeOK /\ [Next]_vars => TypeOK'
<1> SUFFICES ASSUME TypeOK, [Next]_vars PROVE TypeOK'
  OBVIOUS
<1>1. ASSUME NEW j \in Jobs, UploadArrives(j) PROVE TypeOK'
  <2>1. upload' \in [Jobs -> UploadStates]
    BY <1>1
       DEF UploadArrives, UploadSet, Elsewhere, TypeOK, UploadStates, Uploading, Saving
  <2> QED
    BY <1>1, <2>1 DEF UploadArrives, Elsewhere, TypeOK, boot, registry, history
<1>2. ASSUME NEW j \in Jobs, SaveStarts(j) PROVE TypeOK'
  <2>1. files' \in [Jobs -> Staged]
    BY <1>2 DEF SaveStarts, Elsewhere, TypeOK, Staged
  <2> QED
    BY <1>2, <2>1 DEF SaveStarts, Elsewhere, TypeOK, boot, registry, history
<1>3. ASSUME NEW j \in Jobs, SaveEnds(j) PROVE TypeOK'
  <2>1. files' \in [Jobs -> Staged]
    BY <1>3 DEF SaveEnds, SaveReturns, UploadSet, Elsewhere, TypeOK, Staged
  <2>2. upload' \in [Jobs -> UploadStates]
    BY <1>3
       DEF SaveEnds, SaveReturns, UploadSet, Elsewhere, TypeOK, UploadStates, Uploading,
           Saving
  <2> QED
    BY <1>3, <2>1, <2>2 DEF SaveEnds, Elsewhere, TypeOK, boot, registry, history
<1>4. ASSUME NEW j \in Jobs, SaveFails(j) PROVE TypeOK'
  <2>1. upload' \in [Jobs -> UploadStates]
    BY <1>4
       DEF SaveFails, SaveReturns, UploadSet, Elsewhere, Fault, TypeOK, UploadStates,
           Uploading, Saving
  <2>2. faults' \in 0..MaxFaults
    BY <1>4, FaultsAssumption
       DEF SaveFails, SaveReturns, UploadSet, Elsewhere, Fault, TypeOK
  <2> QED
    BY <1>4, <2>1, <2>2 DEF SaveFails, Elsewhere, TypeOK, boot, registry, history
<1>5. ASSUME NEW j \in Jobs, Register(j) PROVE TypeOK'
  <2>1. row' \in [Jobs -> Statuses \union {"none"}]
    BY <1>5 DEF Register, UploadSet, RegistryAdd, TypeOK, Statuses, Unfinished, Terminal
  <2>2. idle' \subseteq Jobs /\ garbled' \subseteq Jobs
    BY <1>5 DEF Register, UploadSet, RegistryAdd, TypeOK
  <2>3. upload' \in [Jobs -> UploadStates]
    BY <1>5 DEF Register, UploadSet, RegistryAdd, TypeOK, UploadStates, Uploading, Saving
  <2>4. queue' \in Seq(Jobs)
    BY <1>5 DEF Register, UploadSet, RegistryAdd, TypeOK
  <2> QED
    BY <1>5, <2>1, <2>2, <2>3, <2>4 DEF Register, TypeOK, boot, registry, history
<1>6. ASSUME NEW j \in Jobs, RegisterFails(j) PROVE TypeOK'
  <2>1. upload' \in [Jobs -> UploadStates]
    BY <1>6
       DEF RegisterFails, UploadSet, RegistryFails, Fault, Elsewhere, TypeOK,
           UploadStates, Uploading, Saving
  <2>2. faults' \in 0..MaxFaults
    BY <1>6, FaultsAssumption
       DEF RegisterFails, UploadSet, RegistryFails, Fault, Elsewhere, TypeOK
  <2> QED
    BY <1>6, <2>1, <2>2
       DEF RegisterFails, RegistryFails, Elsewhere, TypeOK, boot, registry, history
<1>7. ASSUME NEW j \in Jobs, UploaderLeaves(j) PROVE TypeOK'
  <2>1. upload' \in [Jobs -> UploadStates]
    BY <1>7
       DEF UploaderLeaves, UploadSet, Fault, Elsewhere, TypeOK, UploadStates, Uploading,
           Saving
  <2>2. faults' \in 0..MaxFaults
    BY <1>7, FaultsAssumption DEF UploaderLeaves, UploadSet, Fault, Elsewhere, TypeOK
  <2> QED
    BY <1>7, <2>1, <2>2 DEF UploaderLeaves, Elsewhere, TypeOK, boot, registry, history
<1>8. ASSUME NEW j \in Jobs, RemovalEats(j) PROVE TypeOK'
  <2>1. files' \in [Jobs -> Staged]
    BY <1>8 DEF RemovalEats, BeingRemoved, RequestElsewhere, TypeOK, Staged
  <2> QED
    BY <1>8, <2>1 DEF RemovalEats, RequestElsewhere, TypeOK, boot, registry, history
<1>9. ASSUME NEW j \in Jobs, WindowPasses(j) PROVE TypeOK'
  <2>1. row' \in [Jobs -> Statuses \union {"none"}]
    BY <1>9 DEF WindowPasses, TypeOK, Statuses, Unfinished, Terminal
  <2>2. idle' \subseteq Jobs /\ garbled' \subseteq Jobs
    BY <1>9 DEF WindowPasses, TypeOK
  <2> QED
    BY <1>9, <2>1, <2>2 DEF WindowPasses, TypeOK, boot, registry, history
<1>10. ASSUME NEW j \in Jobs, RowTurnsForeign(j) PROVE TypeOK'
  <2>1. row' \in [Jobs -> Statuses \union {"none"}]
    BY <1>10 DEF RowTurnsForeign, Fault, TypeOK, Statuses, Unfinished, Terminal
  <2>2. idle' \subseteq Jobs /\ garbled' \subseteq Jobs
    BY <1>10 DEF RowTurnsForeign, Fault, TypeOK
  <2>3. faults' \in 0..MaxFaults
    BY <1>10, FaultsAssumption DEF RowTurnsForeign, Fault, TypeOK
  <2> QED
    BY <1>10, <2>1, <2>2, <2>3 DEF RowTurnsForeign, TypeOK, boot, registry, history
<1>11. ASSUME WorkerTakes PROVE TypeOK'
  <2>1. queue' \in Seq(Jobs)
    BY <1>11 DEF WorkerTakes, WorkerAt, WorkerElsewhere, TypeOK
  <2>2. worker' \in [pc : {"idle", "claimed", "compressing"} \union Terminal,
                      job : Jobs \union {NoJob}]
    BY <1>11 DEF WorkerTakes, WorkerAt, WorkerElsewhere, TypeOK, Idle
  <2> QED
    BY <1>11, <2>1, <2>2 DEF WorkerTakes, WorkerElsewhere, TypeOK, boot, registry, history
<1>12. ASSUME WorkerCannotRead PROVE TypeOK'
  <2>1. queue' \in Seq(Jobs)
    BY <1>12 DEF WorkerCannotRead, WorkerAt, WorkerElsewhere, RegistryFails, Fault, TypeOK
  <2>2. faults' \in 0..MaxFaults
    BY <1>12, FaultsAssumption
       DEF WorkerCannotRead, WorkerAt, WorkerElsewhere, RegistryFails, Fault, TypeOK
  <2> QED
    BY <1>12, <2>1, <2>2
       DEF WorkerCannotRead, WorkerElsewhere, RegistryFails, TypeOK, boot, registry,
           history
<1>13. ASSUME WorkerMarks PROVE TypeOK'
  <2>1. row' \in [Jobs -> Statuses \union {"none"}]
    BY <1>13
       DEF WorkerMarks, WorkerAt, WorkerElsewhere, SetStatus, UpdateStatus, RegistryFails,
           Fault, TypeOK, Statuses, Unfinished, Terminal, registry
  <2>2. idle' \subseteq Jobs /\ garbled' \subseteq Jobs
    BY <1>13
       DEF WorkerMarks, WorkerAt, WorkerElsewhere, SetStatus, UpdateStatus, RegistryFails,
           Fault, TypeOK, registry
  <2>3. worker' \in [pc : {"idle", "claimed", "compressing"} \union Terminal,
                      job : Jobs \union {NoJob}]
    BY <1>13
       DEF WorkerMarks, WorkerAt, WorkerElsewhere, SetStatus, UpdateStatus, RegistryFails,
           Fault, TypeOK
  <2>4. faults' \in 0..MaxFaults
    BY <1>13, FaultsAssumption
       DEF WorkerMarks, WorkerAt, WorkerElsewhere, SetStatus, UpdateStatus, RegistryFails,
           Fault, TypeOK
  <2> QED
    BY <1>13, <2>1, <2>2, <2>3, <2>4
       DEF WorkerMarks, WorkerElsewhere, SetStatus, UpdateStatus, RegistryFails, TypeOK,
           boot, registry, history
<1>14. ASSUME WorkerCompresses PROVE TypeOK'
  <2>1. files' \in [Jobs -> Staged]
    BY <1>14 DEF WorkerCompresses, WorkerAt, WorkerElsewhere, TypeOK, Staged
  <2>2. worker' \in [pc : {"idle", "claimed", "compressing"} \union Terminal,
                      job : Jobs \union {NoJob}]
    BY <1>14 DEF WorkerCompresses, WorkerAt, WorkerElsewhere, TypeOK,
           Terminal
  <2> QED
    BY <1>14, <2>1, <2>2
       DEF WorkerCompresses, WorkerElsewhere, TypeOK, boot, registry, history
<1>15. ASSUME WorkerGivesUp PROVE TypeOK'
  <2>1. worker' \in [pc : {"idle", "claimed", "compressing"} \union Terminal,
                      job : Jobs \union {NoJob}]
    BY <1>15 DEF WorkerGivesUp, WorkerAt, WorkerElsewhere, TypeOK, Terminal
  <2> QED
    BY <1>15, <2>1 DEF WorkerGivesUp, WorkerElsewhere, TypeOK, boot, registry, history
<1>16. ASSUME WorkerRecords PROVE TypeOK'
  <2>1. row' \in [Jobs -> Statuses \union {"none"}]
    BY <1>16
       DEF WorkerRecords, WorkerElsewhere, SetStatus, UpdateStatus, RegistryFails, Fault,
           TypeOK, Statuses, Unfinished, Terminal, registry
  <2>2. idle' \subseteq Jobs /\ garbled' \subseteq Jobs
    BY <1>16
       DEF WorkerRecords, WorkerElsewhere, SetStatus, UpdateStatus, RegistryFails, Fault,
           TypeOK, registry
  <2>3. worker' \in [pc : {"idle", "claimed", "compressing"} \union Terminal,
                      job : Jobs \union {NoJob}]
    BY <1>16
       DEF WorkerRecords, WorkerElsewhere, SetStatus, UpdateStatus, RegistryFails, Fault,
           TypeOK, Idle
  <2>4. faults' \in 0..MaxFaults
    BY <1>16, FaultsAssumption
       DEF WorkerRecords, WorkerElsewhere, SetStatus, UpdateStatus, RegistryFails, Fault,
           TypeOK
  <2> QED
    BY <1>16, <2>1, <2>2, <2>3, <2>4
       DEF WorkerRecords, WorkerElsewhere, SetStatus, UpdateStatus, RegistryFails, TypeOK,
           boot, registry, history
<1>17. ASSUME NEW r \in Requests, DownloadReads(r) PROVE TypeOK'
  <2>1. \E pc \in RequestStates : Goes(r, pc)
    BY <1>17
       DEF DownloadReads, RequestAt, Goes, RequestElsewhere, RequestStates, InFlight,
           Removing, Answers
  <2>2. req' \in [Requests -> [op : Ops, job : Jobs \union {NoJob}, pc : RequestStates]]
    BY <2>1, GoingKeepsRequests
  <2> QED
    BY <1>17, <2>2 DEF DownloadReads, RequestElsewhere, TypeOK, boot, registry, history
<1>18. ASSUME NEW r \in Requests, DownloadTouches(r) PROVE TypeOK'
  <2>1. row' \in [Jobs -> Statuses \union {"none"}]
    BY <1>18
       DEF DownloadTouches, RequestAt, Goes, RequestElsewhere, Touch, RegistryFails,
           Fault, TypeOK, Statuses, Unfinished, Terminal, registry
  <2>2. idle' \subseteq Jobs /\ garbled' \subseteq Jobs
    BY <1>18
       DEF DownloadTouches, RequestAt, Goes, RequestElsewhere, Touch, RegistryFails,
           Fault, TypeOK, registry
  <2>3. \E pc \in RequestStates : Goes(r, pc)
    BY <1>18
       DEF DownloadTouches, RequestAt, Goes, RequestElsewhere, Touch, RegistryFails,
           Fault, RequestStates, InFlight, Removing, Answers
  <2>4. req' \in [Requests -> [op : Ops, job : Jobs \union {NoJob}, pc : RequestStates]]
    BY <2>3, GoingKeepsRequests
  <2>5. faults' \in 0..MaxFaults
    BY <1>18, FaultsAssumption
       DEF DownloadTouches, RequestAt, Goes, RequestElsewhere, Touch, RegistryFails,
           Fault, TypeOK
  <2> QED
    BY <1>18, <2>1, <2>2, <2>4, <2>5
       DEF DownloadTouches, RequestElsewhere, Touch, RegistryFails, TypeOK, boot,
           registry, history
<1>19. ASSUME NEW r \in Requests, DeleteRemoves(r) PROVE TypeOK'
  <2>1. files' \in [Jobs -> Staged]
    BY <1>19
       DEF DeleteRemoves, RequestAt, Goes, RequestElsewhere, Remove, RemovalReturns,
           TypeOK, Staged
  <2>2. \E pc \in RequestStates : Goes(r, pc)
    BY <1>19
       DEF DeleteRemoves, RequestAt, Goes, RequestElsewhere, Remove, RemovalReturns,
           RequestStates, InFlight, Removing, Answers
  <2>3. req' \in [Requests -> [op : Ops, job : Jobs \union {NoJob}, pc : RequestStates]]
    BY <2>2, GoingKeepsRequests
  <2> QED
    BY <1>19, <2>1, <2>3
       DEF DeleteRemoves, RequestElsewhere, TypeOK, boot, registry, history
<1>20. ASSUME NEW r \in Requests, DeleteCannotRemove(r) PROVE TypeOK'
  <2>1. \E pc \in RequestStates : Goes(r, pc)
    BY <1>20
       DEF DeleteCannotRemove, RequestAt, Goes, RequestElsewhere, RemovalFails,
           RemovalReturns, Fault, RequestStates, InFlight, Removing, Answers
  <2>2. req' \in [Requests -> [op : Ops, job : Jobs \union {NoJob}, pc : RequestStates]]
    BY <2>1, GoingKeepsRequests
  <2>3. faults' \in 0..MaxFaults
    BY <1>20, FaultsAssumption
       DEF DeleteCannotRemove, RequestAt, Goes, RequestElsewhere, RemovalFails,
           RemovalReturns, Fault, TypeOK
  <2> QED
    BY <1>20, <2>2, <2>3
       DEF DeleteCannotRemove, RequestElsewhere, RemovalFails, TypeOK, boot, registry,
           history
<1>21. ASSUME NEW r \in Requests, DeleteForgets(r) PROVE TypeOK'
  <2>1. row' \in [Jobs -> Statuses \union {"none"}]
    BY <1>21
       DEF DeleteForgets, RequestAt, Goes, RequestElsewhere, Forget, RegistryFails, Fault,
           TypeOK, Statuses, Unfinished, Terminal, registry
  <2>2. idle' \subseteq Jobs /\ garbled' \subseteq Jobs
    BY <1>21
       DEF DeleteForgets, RequestAt, Goes, RequestElsewhere, Forget, RegistryFails, Fault,
           TypeOK, registry
  <2>3. \E pc \in RequestStates : Goes(r, pc)
    BY <1>21
       DEF DeleteForgets, RequestAt, Goes, RequestElsewhere, Forget, RegistryFails, Fault,
           RequestStates, InFlight, Removing, Answers
  <2>4. req' \in [Requests -> [op : Ops, job : Jobs \union {NoJob}, pc : RequestStates]]
    BY <2>3, GoingKeepsRequests
  <2>5. faults' \in 0..MaxFaults
    BY <1>21, FaultsAssumption
       DEF DeleteForgets, RequestAt, Goes, RequestElsewhere, Forget, RegistryFails, Fault,
           TypeOK
  <2> QED
    BY <1>21, <2>1, <2>2, <2>4, <2>5
       DEF DeleteForgets, RequestElsewhere, RegistryFails, TypeOK, boot, registry, history
<1>22. ASSUME NEW r \in Requests, RequesterLeaves(r) PROVE TypeOK'
  <2>1. \E pc \in RequestStates : Goes(r, pc)
    BY <1>22
       DEF RequesterLeaves, RequestAt, Goes, RequestElsewhere, Fault, RequestStates,
           InFlight, Removing, Answers
  <2>2. req' \in [Requests -> [op : Ops, job : Jobs \union {NoJob}, pc : RequestStates]]
    BY <2>1, GoingKeepsRequests
  <2>3. faults' \in 0..MaxFaults
    BY <1>22, FaultsAssumption
       DEF RequesterLeaves, RequestAt, Goes, RequestElsewhere, Fault, TypeOK
  <2> QED
    BY <1>22, <2>2, <2>3
       DEF RequesterLeaves, RequestElsewhere, TypeOK, boot, registry, history
<1>23. ASSUME NEW r \in Requests, NEW j \in Jobs, DownloadArrives(r, j) PROVE TypeOK'
  <2>1. \E pc \in RequestStates : req' = [req EXCEPT ![r].job = j, ![r].pc = pc]
    BY <1>23
       DEF DownloadArrives, Arrives, Admission, RequestAt, RequestElsewhere,
           RequestStates, InFlight, Removing, Answers
  <2>2. req' \in [Requests -> [op : Ops, job : Jobs \union {NoJob}, pc : RequestStates]]
    BY <2>1, SendingKeepsRequests
  <2> QED
    BY <1>23, <2>2
       DEF DownloadArrives, Arrives, RequestElsewhere, TypeOK, boot, registry, history
<1>24. ASSUME NEW r \in Requests, NEW j \in Jobs, DeleteArrives(r, j) PROVE TypeOK'
  <2>1. \E pc \in RequestStates : req' = [req EXCEPT ![r].job = j, ![r].pc = pc]
    BY <1>24
       DEF DeleteArrives, Arrives, Admission, RequestAt, RequestElsewhere, RequestStates,
           InFlight, Removing, Answers
  <2>2. req' \in [Requests -> [op : Ops, job : Jobs \union {NoJob}, pc : RequestStates]]
    BY <2>1, SendingKeepsRequests
  <2>3. condemned' \subseteq Jobs
    BY <1>24 DEF DeleteArrives, Arrives, Admission, RequestAt, RequestElsewhere, TypeOK
  <2> QED
    BY <1>24, <2>2, <2>3
       DEF DeleteArrives, Arrives, RequestElsewhere, TypeOK, boot, registry, history
<1>25. ASSUME NEW r \in Requests, NEW j \in Jobs, RequestCannotRead(r, j) PROVE TypeOK'
  <2>1. \E pc \in RequestStates : req' = [req EXCEPT ![r].job = j, ![r].pc = pc]
    BY <1>25
       DEF RequestCannotRead, RequestAt, RequestElsewhere, Fault, RequestStates, InFlight,
           Removing, Answers
  <2>2. req' \in [Requests -> [op : Ops, job : Jobs \union {NoJob}, pc : RequestStates]]
    BY <2>1, SendingKeepsRequests
  <2>3. faults' \in 0..MaxFaults
    BY <1>25, FaultsAssumption
       DEF RequestCannotRead, RequestAt, RequestElsewhere, Fault, TypeOK
  <2> QED
    BY <1>25, <2>2, <2>3
       DEF RequestCannotRead, RequestElsewhere, TypeOK, boot, registry, history
<1>26. ASSUME ReaperLists PROVE TypeOK'
  <2>1. reaper' \in [pc : {"asleep", "sweeping", "removing", "forgetting"},
                      job : Jobs \union {NoJob}, list : SUBSET Jobs]
    BY <1>26
       DEF ReaperLists, ReaperAt, ReaperGoesOn, ReaperElsewhere, Expired, TypeOK, Asleep
  <2>2. condemned' \subseteq Jobs
    BY <1>26 DEF ReaperLists, ReaperAt, ReaperGoesOn, ReaperElsewhere, Expired, TypeOK
  <2> QED
    BY <1>26, <2>1, <2>2 DEF ReaperLists, ReaperElsewhere, TypeOK, boot, registry, history
<1>27. ASSUME NEW j \in Jobs, ReaperPicks(j) PROVE TypeOK'
  <2>1. reaper' \in [pc : {"asleep", "sweeping", "removing", "forgetting"},
                      job : Jobs \union {NoJob}, list : SUBSET Jobs]
    BY <1>27 DEF ReaperPicks, ReaperAt, ReaperElsewhere, TypeOK, Asleep
  <2> QED
    BY <1>27, <2>1 DEF ReaperPicks, ReaperElsewhere, TypeOK, boot, registry, history
<1>28. ASSUME ReaperRemoves PROVE TypeOK'
  <2>1. files' \in [Jobs -> Staged]
    BY <1>28 DEF ReaperRemoves, ReaperAt, ReaperElsewhere, Remove, TypeOK, Staged
  <2>2. reaper' \in [pc : {"asleep", "sweeping", "removing", "forgetting"},
                      job : Jobs \union {NoJob}, list : SUBSET Jobs]
    BY <1>28 DEF ReaperRemoves, ReaperAt, ReaperElsewhere, Remove, TypeOK, Asleep
  <2> QED
    BY <1>28, <2>1, <2>2
       DEF ReaperRemoves, ReaperElsewhere, TypeOK, boot, registry, history
<1>29. ASSUME ReaperCannotRemove PROVE TypeOK'
  <2>1. reaper' \in [pc : {"asleep", "sweeping", "removing", "forgetting"},
                      job : Jobs \union {NoJob}, list : SUBSET Jobs]
    BY <1>29
       DEF ReaperCannotRemove, ReaperAt, ReaperGoesOn, ReaperElsewhere, RemovalFails,
           Fault, TypeOK, Asleep
  <2>2. faults' \in 0..MaxFaults
    BY <1>29, FaultsAssumption
       DEF ReaperCannotRemove, ReaperAt, ReaperGoesOn, ReaperElsewhere, RemovalFails,
           Fault, TypeOK
  <2> QED
    BY <1>29, <2>1, <2>2
       DEF ReaperCannotRemove, ReaperElsewhere, RemovalFails, TypeOK, boot, registry,
           history
<1>30. ASSUME ReaperForgets PROVE TypeOK'
  <2>1. row' \in [Jobs -> Statuses \union {"none"}]
    BY <1>30
       DEF ReaperForgets, ReaperAt, ReaperGoesOn, ReaperElsewhere, Forget, RegistryFails,
           Fault, TypeOK, Statuses, Unfinished, Terminal, registry
  <2>2. idle' \subseteq Jobs /\ garbled' \subseteq Jobs
    BY <1>30
       DEF ReaperForgets, ReaperAt, ReaperGoesOn, ReaperElsewhere, Forget, RegistryFails,
           Fault, TypeOK, registry
  <2>3. reaper' \in [pc : {"asleep", "sweeping", "removing", "forgetting"},
                      job : Jobs \union {NoJob}, list : SUBSET Jobs]
    BY <1>30
       DEF ReaperForgets, ReaperAt, ReaperGoesOn, ReaperElsewhere, Forget, RegistryFails,
           Fault, TypeOK, Asleep
  <2>4. faults' \in 0..MaxFaults
    BY <1>30, FaultsAssumption
       DEF ReaperForgets, ReaperAt, ReaperGoesOn, ReaperElsewhere, Forget, RegistryFails,
           Fault, TypeOK
  <2> QED
    BY <1>30, <2>1, <2>2, <2>3, <2>4
       DEF ReaperForgets, ReaperElsewhere, RegistryFails, TypeOK, boot, registry, history
<1>31. ASSUME Boot PROVE TypeOK'
  <2>1. phase' \in Phases /\ todo' \subseteq Jobs /\ known' \subseteq Jobs
    BY <1>31 DEF Boot, NextPass, BootElsewhere, TypeOK, Phases
  <2> QED
    BY <1>31, <2>1 DEF Boot, NextPass, BootElsewhere, TypeOK, boot, registry, history
<1>32. ASSUME NEW j \in Jobs, ReconcileRow(j) PROVE TypeOK'
  <2>1. phase' \in Phases /\ todo' \subseteq Jobs /\ known' \subseteq Jobs
    BY <1>32 DEF ReconcileRow, BootElsewhere, Forget, TypeOK, Phases
  <2>2. row' \in [Jobs -> Statuses \union {"none"}]
    BY <1>32
       DEF ReconcileRow, BootElsewhere, Forget, TypeOK, Statuses, Unfinished, Terminal,
           registry
  <2>3. idle' \subseteq Jobs /\ garbled' \subseteq Jobs
    BY <1>32 DEF ReconcileRow, BootElsewhere, Forget, TypeOK, registry
  <2> QED
    BY <1>32, <2>1, <2>2, <2>3
       DEF ReconcileRow, BootElsewhere, TypeOK, boot, registry, history
<1>33. ASSUME StartFailing PROVE TypeOK'
  <2>1. phase' \in Phases /\ todo' \subseteq Jobs /\ known' \subseteq Jobs
    BY <1>33 DEF StartFailing, NextPass, BootElsewhere, TypeOK, Phases
  <2> QED
    BY <1>33, <2>1
       DEF StartFailing, NextPass, BootElsewhere, TypeOK, boot, registry, history
<1>34. ASSUME NEW j \in Jobs, FailInterrupted(j) PROVE TypeOK'
  <2>1. phase' \in Phases /\ todo' \subseteq Jobs /\ known' \subseteq Jobs
    BY <1>34 DEF FailInterrupted, BootElsewhere, UpdateStatus, TypeOK, Phases
  <2>2. row' \in [Jobs -> Statuses \union {"none"}]
    BY <1>34
       DEF FailInterrupted, BootElsewhere, UpdateStatus, TypeOK, Statuses, Unfinished,
           Terminal
  <2>3. idle' \subseteq Jobs /\ garbled' \subseteq Jobs
    BY <1>34 DEF FailInterrupted, BootElsewhere, UpdateStatus, TypeOK
  <2> QED
    BY <1>34, <2>1, <2>2, <2>3
       DEF FailInterrupted, BootElsewhere, UpdateStatus, TypeOK, boot, registry, history
<1>35. ASSUME StartSweeping PROVE TypeOK'
  <2>1. phase' \in Phases /\ todo' \subseteq Jobs /\ known' \subseteq Jobs
    BY <1>35 DEF StartSweeping, NextPass, BootElsewhere, TypeOK, Phases
  <2> QED
    BY <1>35, <2>1
       DEF StartSweeping, NextPass, BootElsewhere, TypeOK, boot, registry, history
<1>36. ASSUME NEW j \in Jobs, SweepDirectory(j) PROVE TypeOK'
  <2>1. phase' \in Phases /\ todo' \subseteq Jobs /\ known' \subseteq Jobs
    BY <1>36
       DEF SweepDirectory, BootElsewhere, Remove, RemovalFails, Fault, TypeOK, Phases
  <2>2. files' \in [Jobs -> Staged]
    BY <1>36
       DEF SweepDirectory, BootElsewhere, Remove, RemovalFails, Fault, TypeOK, Staged
  <2>3. faults' \in 0..MaxFaults
    BY <1>36, FaultsAssumption
       DEF SweepDirectory, BootElsewhere, Remove, RemovalFails, Fault, TypeOK
  <2> QED
    BY <1>36, <2>1, <2>2, <2>3
       DEF SweepDirectory, BootElsewhere, RemovalFails, TypeOK, boot, registry, history
<1>37. ASSUME StartServing PROVE TypeOK'
  <2>1. phase' \in Phases /\ todo' \subseteq Jobs /\ known' \subseteq Jobs
    BY <1>37 DEF StartServing, NextPass, BootElsewhere, TypeOK, Phases
  <2> QED
    BY <1>37, <2>1
       DEF StartServing, NextPass, BootElsewhere, TypeOK, boot, registry, history
<1>38. ASSUME Crash PROVE TypeOK'
  <2>1. phase' \in Phases /\ todo' \subseteq Jobs /\ known' \subseteq Jobs
    BY <1>38 DEF Crash, Fault, TypeOK, Phases
  <2>2. upload' \in [Jobs -> UploadStates]
    BY <1>38 DEF Crash, Fault, TypeOK, UploadStates, Uploading, Saving
  <2>3. req' \in [Requests -> [op : Ops, job : Jobs \union {NoJob}, pc : RequestStates]]
    <3>1. \A r \in Requests : [req[r] EXCEPT !.pc = "lost"]
                                  \in [op : Ops, job : Jobs \union {NoJob}, pc : RequestStates]
      BY DEF TypeOK, RequestStates, Answers
    <3>2. \A r \in Requests : req[r] \in [op : Ops, job : Jobs \union {NoJob}, pc : RequestStates]
      BY DEF TypeOK
    <3> QED
      BY <1>38, <3>1, <3>2 DEF Crash
  <2>4. queue' \in Seq(Jobs)
    BY <1>38 DEF Crash, Fault, TypeOK
  <2>5. worker' \in [pc : {"idle", "claimed", "compressing"} \union Terminal,
                      job : Jobs \union {NoJob}]
    BY <1>38 DEF Crash, Fault, TypeOK, Idle
  <2>6. reaper' \in [pc : {"asleep", "sweeping", "removing", "forgetting"},
                      job : Jobs \union {NoJob}, list : SUBSET Jobs]
    BY <1>38 DEF Crash, Fault, TypeOK, Asleep
  <2>7. faults' \in 0..MaxFaults
    BY <1>38, FaultsAssumption DEF Crash, Fault, TypeOK
  <2> QED
    BY <1>38, <2>1, <2>2, <2>3, <2>4, <2>5, <2>6, <2>7
       DEF Crash, TypeOK, boot, registry, history
<1>39. CASE UNCHANGED vars
  BY <1>39 DEF vars, TypeOK, boot, registry, history
<1> QED
  BY <1>1, <1>2, <1>3, <1>4, <1>5, <1>6, <1>7, <1>8, <1>9, <1>10, <1>11, <1>12, <1>13,
     <1>14, <1>15, <1>16, <1>17, <1>18, <1>19, <1>20, <1>21, <1>22, <1>23, <1>24, <1>25,
     <1>26, <1>27, <1>28, <1>29, <1>30, <1>31, <1>32, <1>33, <1>34, <1>35, <1>36, <1>37,
     <1>38, <1>39
     DEF Next, Uploads, Works, Handles, Reaps, Boots

(* Every variable of JobServer keeps its type. *)
THEOREM TypeCorrect == Spec => []TypeOK
<1>1. Init => TypeOK
  BY JobsAssumption, FaultsAssumption
     DEF Init, TypeOK, Statuses, Phases, Staged, UploadStates, Idle, Asleep, RequestStates
<1>2. QED
  BY <1>1, TypeOKInductive, PTL DEF Spec
=============================================================================

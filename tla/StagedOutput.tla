---------------------------- MODULE StagedOutput ----------------------------
(***************************************************************************)
(* One archive being written: the guards of the command line and of the    *)
(* desktop (run_compress, compress_path) over the path predicates of       *)
(* core/paths.rs, then compress and compress_dir of the core: walk, stage  *)
(* beside the output, build, verify, rename; or, with a server, write the  *)
(* archive it returned straight over the output.                           *)
(*                                                                         *)
(* Several runs go on at once, in one process or in several, over one      *)
(* folder whose files come and go. A name is a directory entry, an inode   *)
(* is what it leads to: two names may share one, and the output may be a   *)
(* symbolic link. Bytes are abstracted to who wrote them and, of an        *)
(* archive, to the names in it.                                            *)
(***************************************************************************)
EXTENDS Naturals, FiniteSets

CONSTANTS
  Members,   \* the files of the folder
  Linked,    \* those the output may be a link to
  Dest,      \* an output name that is not one of them
  Folder,    \* the folder, as a source
  Old,       \* the file that may be at Dest before
  Runs,      \* the compressions
  Requests,  \* what may be asked of a run
  Procs, Pids,       \* processes, and the ids the system gives them
  Nothing, User,
  Faults, MaxFaults, \* the kinds of fault that may happen, and how many
  MaxChanges         \* how many times a member comes or goes

FaultKinds == {"crash", "disk", "damage"}
Formats    == {"zip", "tar", "7z"}

Places  == Members \union {Dest}
(* A file made by a run is named after it; the others were there before. *)
Inodes  == Members \union {Old} \union Runs
Serials == 0..Cardinality(Runs)
Temps   == [dir : {"folder", "elsewhere"}, pid : Pids, serial : Serials]
Entries == Places \union Temps

ASSUME NamesAssumption ==
  /\ Linked \subseteq Members /\ Dest \notin Members /\ Folder \notin Places
  /\ Old \notin Members \union Runs /\ Runs \intersect Members = {}
  /\ Nothing \notin Inodes \union Temps /\ User \notin Runs
ASSUME PidAssumption == Pids \intersect {"unborn", "dead"} = {}
ASSUME RequestsAssumption ==
  Requests \subseteq [front : {"cli", "desktop"}, source : Members \union {Folder},
                      output : Places, format : Formats \union {Nothing},
                      named : Formats \union {Nothing},
                      force : BOOLEAN, verify : BOOLEAN, remote : BOOLEAN]
ASSUME BoundsAssumption ==
  /\ Faults \subseteq FaultKinds /\ MaxFaults \in Nat /\ MaxChanges \in Nat
  /\ IsFiniteSet(Runs)

VARIABLES
  nested,    \* whether Dest is in the folder
  names,     \* the inode each place leads to, or Nothing
  link,      \* the member Dest is a symbolic link to, or Nothing
  file,      \* each inode: [by, state, holds, damaged]
  temps,     \* the inode at each temporary name, or Nothing
  ask,       \* what each run was asked
  pc,        \* where each run is
  host,      \* the process of each run
  pid,       \* of each process: Nothing before and after its life
  serial,    \* STAGED_SERIAL of each process
  seen,      \* history: the members a run's guards saw
  expected,  \* the names the first walk of a run found
  temp,      \* the staged name of each run
  handle,    \* the inode each run writes to
  todo,      \* what a run's backend has still to read
  faults, changes

disk == <<nested, names, link, file, temps>>
proc == <<host, pid, serial>>
work == <<expected, temp, handle, todo>>
vars == <<disk, proc, work, ask, pc, seen, faults, changes>>

Blank(by) == [by |-> by, state |-> "open", holds |-> {}, damaged |-> FALSE]

Staging  == {"staged", "building", "built", "verified", "failing"}
Fetching == {"fetching", "fetched", "filling"}
Busy     == Staging \union Fetching \union {"admitted"}
Ended    == {"refused", "ok", "failed", "leaked", "killed"}

TypeOK ==
  /\ nested \in BOOLEAN /\ link \in Linked \union {Nothing}
  /\ names \in [Places -> Inodes \union {Nothing}]
  /\ file \in [Inodes -> [by : Runs \union {User}, state : {"none", "open", "whole"},
                          holds : SUBSET Entries, damaged : BOOLEAN]]
  /\ temps \in [Temps -> Inodes \union {Nothing}]
  /\ ask \in [Runs -> Requests]
  /\ pc \in [Runs -> Busy \union Ended \union {"new"}]
  /\ host \in [Runs -> Procs \union {Nothing}]
  /\ pid \in [Procs -> Pids \union {"unborn", "dead"}]
  /\ serial \in [Procs -> Serials]
  /\ seen \in [Runs -> SUBSET Members]
  /\ expected \in [Runs -> SUBSET Entries]
  /\ temp \in [Runs -> Temps \union {Nothing}]
  /\ handle \in [Runs -> Inodes \union {Nothing}]
  /\ todo \in [Runs -> SUBSET Entries]
  /\ faults \in 0..MaxFaults /\ changes \in 0..MaxChanges

(* A folder with some of its members, and at Dest nothing, an older file, a
   hard link or a symbolic link to a member that is there. *)
Init ==
  /\ nested \in BOOLEAN
  /\ \E there \in SUBSET Members, at \in Linked \union {Old, Nothing} :
       /\ Linked \subseteq there
       /\ names = [p \in Places |-> IF p = Dest THEN at ELSE IF p \in there THEN p ELSE Nothing]
  /\ link \in Linked \union {Nothing} /\ (link # Nothing => names[Dest] = Nothing)
  /\ file = [i \in Inodes |->
               IF i \in Runs THEN [Blank(User) EXCEPT !.state = "none"]
                             ELSE [Blank(User) EXCEPT !.state = "whole"]]
  /\ temps = [t \in Temps |-> Nothing]
  /\ ask \in [Runs -> Requests]
  /\ pc = [w \in Runs |-> "new"]
  /\ host = [w \in Runs |-> Nothing]
  /\ pid = [p \in Procs |-> "unborn"] /\ serial = [p \in Procs |-> 0]
  /\ seen = [w \in Runs |-> {}]
  /\ expected = [w \in Runs |-> {}] /\ todo = [w \in Runs |-> {}]
  /\ temp = [w \in Runs |-> Nothing] /\ handle = [w \in Runs |-> Nothing]
  /\ faults = 0 /\ changes = 0

Fault(kind) == kind \in Faults /\ faults < MaxFaults /\ faults' = faults + 1

Go(w, from, to) == pc[w] = from /\ pc' = [pc EXCEPT ![w] = to]

-----------------------------------------------------------------------------
(* core/paths.rs *)

Leads(p)  == IF p = Dest /\ link # Nothing THEN link ELSE p
Inode(p)  == names[Leads(p)]
Exists(p) == Inode(p) # Nothing

\* Mutant: resolved paths are compared and nothing else.
SameFileByPath(p, q) == Exists(p) /\ Exists(q) /\ Leads(p) = Leads(q)

(* By identity: two names of one inode are one file. *)
SameFile(p, q) ==
  Exists(p) /\ Exists(q) /\ (Leads(p) = Leads(q) \/ Inode(p) = Inode(q))

SharesAFileWithTree(p) ==
  \E m \in Members : names[m] # Nothing /\ SameFile(m, p)

InFolder(p) == p \in Members \/ nested

Inside(p) == Exists(p) /\ (InFolder(Leads(p)) \/ SharesAFileWithTree(p))

-----------------------------------------------------------------------------
(* The guards of the two front ends. *)

ContradictsOutput(a) ==
  a.format # Nothing /\ a.named # Nothing /\ a.format # a.named

ResolveFormat(a) ==
  CASE a.format # Nothing -> a.format
    [] a.format = Nothing /\ a.named # Nothing -> a.named
    [] OTHER -> "zip"

Refused(a) ==
  \/ a.front = "cli" /\ ((a.verify /\ a.remote) \/ ContradictsOutput(a))
  \/ a.source # Folder /\ ~Exists(a.source)
  \/ /\ Exists(a.output)
     /\ \/ a.source # Folder /\ SameFile(a.source, a.output)
        \/ a.source = Folder /\ Inside(a.output)
        \/ ~a.force

(* A run starts in a process that lives, or starts one: no two living
   processes have one id. *)
HostedBy(w, p) ==
  /\ host' = [host EXCEPT ![w] = p]
  /\ \/ pid[p] \in Pids /\ UNCHANGED pid
     \/ /\ pid[p] = "unborn"
        /\ \E id \in Pids \ {pid[q] : q \in Procs} : pid' = [pid EXCEPT ![p] = id]

Begin(w) ==
  /\ \E p \in Procs : HostedBy(w, p)
  /\ seen' = [seen EXCEPT ![w] = {m \in Members : names[m] # Nothing}]
  /\ IF Refused(ask[w]) THEN Go(w, "new", "refused")
     ELSE IF ask[w].remote THEN Go(w, "new", "fetching")
     ELSE Go(w, "new", "admitted")
  /\ UNCHANGED <<disk, serial, ask, work, faults, changes>>

-----------------------------------------------------------------------------
(* core: walk.rs, StagedOutput, compress and compress_dir *)

Present(e) == IF e \in Temps THEN temps[e] # Nothing ELSE names[e] # Nothing

(* Regular files only: a symbolic link is skipped. *)
Walk == {m \in Members : Present(m)}
          \union {d \in {Dest} : nested /\ link = Nothing /\ Present(d)}
          \union {t \in Temps : t.dir = "folder" /\ Present(t)}

Wanted(w) == IF ask[w].source = Folder THEN Walk ELSE {ask[w].source}

\* Mutant: named after the serial number alone.
StagedBesideNoPid(w) ==
  [dir |-> IF InFolder(ask[w].output) THEN "folder" ELSE "elsewhere",
   serial |-> serial[host[w]]]

StagedBeside(w) ==
  [dir |-> IF InFolder(ask[w].output) THEN "folder" ELSE "elsewhere",
   pid |-> pid[host[w]], serial |-> serial[host[w]]]

\* Mutant: the serial number stays where it is.
StageUnnumbered(w) ==
  /\ Go(w, "admitted", "staged")
  /\ expected' = [expected EXCEPT ![w] = Wanted(w)]
  /\ temp' = [temp EXCEPT ![w] = StagedBeside(w)]
  /\ UNCHANGED <<disk, proc, ask, seen, handle, todo, faults, changes>>

(* What is expected is walked first; naming the temporary creates nothing. *)
Stage(w) ==
  /\ Go(w, "admitted", "staged")
  /\ expected' = [expected EXCEPT ![w] = Wanted(w)]
  /\ temp' = [temp EXCEPT ![w] = StagedBeside(w)]
  /\ serial' = [serial EXCEPT ![host[w]] = @ + 1]
  /\ UNCHANGED <<disk, host, pid, ask, seen, handle, todo, faults, changes>>

(* File::create truncates the inode a name leads to, or makes one. *)
Made(w, found) == IF found = Nothing THEN w ELSE found

Opens(w, inode) ==
  /\ handle' = [handle EXCEPT ![w] = inode]
  /\ file' = [file EXCEPT ![inode] = Blank(w)]

SourceIsThere(w) == ask[w].source # Folder => Exists(ask[w].source)

(* The backend walks again, or opens the one file, before it creates. What a
   dead process left at the staged name is truncated. *)
Create(w) ==
  /\ Go(w, "staged", "building")
  /\ SourceIsThere(w)
  /\ todo' = [todo EXCEPT ![w] = Wanted(w)]
  /\ LET inode == Made(w, temps[temp[w]]) IN
       Opens(w, inode) /\ temps' = [temps EXCEPT ![temp[w]] = inode]
  /\ UNCHANGED <<nested, names, link, proc, ask, seen, expected, temp, faults, changes>>

CreateFails(w) ==
  /\ Go(w, "staged", "failing")
  /\ IF SourceIsThere(w) THEN Fault("disk") ELSE UNCHANGED faults
  /\ UNCHANGED <<disk, proc, work, ask, seen, changes>>

Building(w) == pc[w] = "building"
Written(w, f) == file' = [file EXCEPT ![handle[w]] = f]

(* One file is read through a handle opened before: only a walked member can
   be gone by now. *)
WriteMember(w) ==
  /\ Building(w)
  /\ \E e \in todo[w] :
       /\ ask[w].source = Folder => Present(e)
       /\ Written(w, [file[handle[w]] EXCEPT !.holds = @ \union {e}])
       /\ todo' = [todo EXCEPT ![w] = @ \ {e}]
  /\ UNCHANGED <<nested, names, link, temps, proc, ask, pc, seen, expected, temp,
                 handle, faults, changes>>

(* An early return drops the writer: zip and tar finalise, 7z does not. *)
MemberIsGone(w) ==
  /\ Go(w, "building", "failing")
  /\ ask[w].source = Folder /\ \E e \in todo[w] : ~Present(e)
  /\ Written(w, [file[handle[w]] EXCEPT
                   !.state = IF ResolveFormat(ask[w]) = "7z" THEN "open" ELSE "whole"])
  /\ UNCHANGED <<nested, names, link, temps, proc, work, ask, seen, faults, changes>>

BuildFails(w) ==
  /\ Go(w, "building", "failing")
  /\ Fault("disk")
  /\ \E s \in {"open", "whole"} : Written(w, [file[handle[w]] EXCEPT !.state = s])
  /\ UNCHANGED <<nested, names, link, temps, proc, work, ask, seen, changes>>

(* What is written is not what was meant, and no call says so. *)
Damage(w) ==
  /\ Building(w) /\ Fault("damage")
  /\ Written(w, [file[handle[w]] EXCEPT !.damaged = TRUE])
  /\ UNCHANGED <<nested, names, link, temps, proc, work, ask, pc, seen, changes>>

Loses(w) ==
  /\ Building(w) /\ Fault("damage")
  /\ \E e \in todo[w] : todo' = [todo EXCEPT ![w] = @ \ {e}]
  /\ UNCHANGED <<disk, proc, expected, temp, handle, ask, pc, seen, changes>>

Finish(w) ==
  /\ Go(w, "building", "built")
  /\ todo[w] = {}
  /\ Written(w, [file[handle[w]] EXCEPT !.state = "whole"])
  /\ UNCHANGED <<nested, names, link, temps, proc, work, ask, seen, faults, changes>>

(* The data of a tar has no checksum, and the index of an archive no data. *)
DamageShows(w) == ask[w].verify /\ ResolveFormat(ask[w]) # "tar"

\* Mutant: whether the archive parses is all that is asked.
VerifiesParsing(w) ==
  temps[temp[w]] # Nothing /\ file[temps[temp[w]]].state = "whole"

(* verify_archive: the file at the staged name reads back, and names exactly
   what the first walk found. *)
Verifies(w) ==
  /\ temps[temp[w]] # Nothing
  /\ LET f == file[temps[temp[w]]] IN
       /\ f.state = "whole"
       /\ f.damaged => ~DamageShows(w)
       /\ f.holds = expected[w]

Verify(w) ==
  /\ pc[w] = "built"
  /\ pc' = [pc EXCEPT ![w] = IF Verifies(w) THEN "verified" ELSE "failing"]
  /\ UNCHANGED <<disk, proc, work, ask, seen, faults, changes>>

(* A rename replaces the name, a symbolic link included. *)
Commit(w) ==
  /\ Go(w, "verified", "ok")
  /\ temps[temp[w]] # Nothing
  /\ names' = [names EXCEPT ![ask[w].output] = temps[temp[w]]]
  /\ temps' = [temps EXCEPT ![temp[w]] = Nothing]
  /\ link' = IF ask[w].output = Dest THEN Nothing ELSE link
  /\ UNCHANGED <<nested, file, proc, work, ask, seen, faults, changes>>

CommitFails(w) ==
  /\ Go(w, "verified", "failing")
  /\ IF temps[temp[w]] = Nothing THEN UNCHANGED faults ELSE Fault("disk")
  /\ UNCHANGED <<disk, proc, work, ask, seen, changes>>

\* Mutant: a failed run leaves its temporary.
CleanUpNothing(w) ==
  Go(w, "failing", "failed")
  /\ UNCHANGED <<disk, proc, work, ask, seen, faults, changes>>

\* Mutant: a failed run removes what is at the output too.
CleanUpOutput(w) ==
  /\ Go(w, "failing", "failed")
  /\ temps' = [temps EXCEPT ![temp[w]] = Nothing]
  /\ names' = [names EXCEPT ![ask[w].output] = Nothing]
  /\ UNCHANGED <<nested, link, file, proc, work, ask, seen, faults, changes>>

(* StagedOutput's drop. *)
CleanUp(w) ==
  /\ Go(w, "failing", "failed")
  /\ temps' = [temps EXCEPT ![temp[w]] = Nothing]
  /\ UNCHANGED <<nested, names, link, file, proc, work, ask, seen, faults, changes>>

CleanUpFails(w) ==
  /\ Go(w, "failing", "leaked")
  /\ Fault("disk")
  /\ UNCHANGED <<disk, proc, work, ask, seen, changes>>

-----------------------------------------------------------------------------
(* With a server: the archive comes back whole, then fs::write. *)

Fetch(w) ==
  /\ Go(w, "fetching", "fetched")
  /\ SourceIsThere(w)
  /\ expected' = [expected EXCEPT ![w] = Wanted(w)]
  /\ UNCHANGED <<disk, proc, temp, handle, todo, ask, seen, faults, changes>>

FetchFails(w) ==
  /\ Go(w, "fetching", "failed")
  /\ UNCHANGED <<disk, proc, work, ask, seen, faults, changes>>

Truncate(w) ==
  /\ Go(w, "fetched", "filling")
  /\ LET inode == Made(w, Inode(ask[w].output)) IN
       Opens(w, inode) /\ names' = [names EXCEPT ![Leads(ask[w].output)] = inode]
  /\ UNCHANGED <<nested, link, temps, proc, expected, temp, todo, ask, seen, faults, changes>>

(* If another run opened the same file meanwhile, the two may end up mixed. *)
Fill(w) ==
  /\ Go(w, "filling", "ok")
  /\ \E s \in {"whole"} \union (IF file[handle[w]].by = w THEN {} ELSE {"open"}) :
       Written(w, [Blank(w) EXCEPT !.state = s, !.holds = expected[w]])
  /\ UNCHANGED <<nested, names, link, temps, proc, work, ask, seen, faults, changes>>

FillFails(w) ==
  /\ Go(w, "filling", "failed")
  /\ Fault("disk")
  /\ UNCHANGED <<disk, proc, work, ask, seen, changes>>

-----------------------------------------------------------------------------
(* The world around the runs *)

Moves(m, from, to) ==
  /\ names[m] = from /\ names' = [names EXCEPT ![m] = to]
  /\ changes < MaxChanges /\ changes' = changes + 1
  /\ UNCHANGED <<nested, link, file, temps, proc, work, ask, pc, seen, faults>>

Goes(m)  == m # link /\ Moves(m, m, Nothing)
Comes(m) == Moves(m, Nothing, m)

Crash(p) ==
  /\ pid[p] \in Pids /\ Fault("crash")
  /\ pid' = [pid EXCEPT ![p] = "dead"]
  /\ pc' = [w \in Runs |->
              IF host[w] = p /\ pc[w] \in Busy THEN "killed" ELSE pc[w]]
  /\ UNCHANGED <<disk, host, serial, work, ask, seen, changes>>

Compresses(w) ==
  \/ Begin(w) \/ Stage(w) \/ Create(w) \/ CreateFails(w) \/ WriteMember(w)
  \/ MemberIsGone(w) \/ BuildFails(w) \/ Damage(w) \/ Loses(w) \/ Finish(w)
  \/ Verify(w) \/ Commit(w) \/ CommitFails(w) \/ CleanUp(w) \/ CleanUpFails(w)

Fetches(w) == Fetch(w) \/ FetchFails(w) \/ Truncate(w) \/ Fill(w) \/ FillFails(w)

AllEnded == \A w \in Runs : pc[w] \in Ended

Next ==
  \/ \E w \in Runs : Compresses(w) \/ Fetches(w)
  \/ \E m \in Members : Goes(m) \/ Comes(m)
  \/ \E p \in Procs : Crash(p)

Spec == Init /\ [][Next]_vars

-----------------------------------------------------------------------------
(* What must hold *)

MadeBy(p) == file[Inode(p)].by
Local(w)  == ~ask[w].remote

(* Whatever interleaves or stops, a name a person knows leads to a whole file;
   only the write of a remote result is ever seen half done. *)
OutputIsWhole ==
  \A p \in Places : Exists(p) =>
     \/ file[Inode(p)].state = "whole"
     \/ MadeBy(p) \in Runs /\ ~Local(MadeBy(p))

(* A locally made archive at its output is one whose run said so, that names
   exactly what its first walk found, and whose data is sound where the depth
   asked for and the format can tell. *)
PublishedIsWhatWasAsked ==
  \A p \in Places : Exists(p) =>
    \A w \in Runs : (MadeBy(p) = w /\ Local(w)) =>
      /\ pc[w] = "ok"
      /\ file[Inode(p)].holds = expected[w]
      /\ file[Inode(p)].damaged => ~DamageShows(w)

(* A temporary belongs to a run under way, unless a crash took the run or the
   removal itself failed. *)
TempsAreNotLeaked ==
  \A t \in Temps : temps[t] # Nothing =>
    \E w \in Runs : temp[w] = t
                 /\ pc[w] \in {"building", "built", "verified", "failing", "leaked", "killed"}

(* No run's bytes ever take the place of what it was reading, not even through
   a link and not even with consent to overwrite. *)
SourceSurvives ==
  \A w \in Runs, m \in Members :
    (m \in seen[w] /\ ask[w].source \in {m, Folder} /\ names[m] # Nothing) => MadeBy(m) # w

(* The promise of the two front ends: a run that failed left the destination
   exactly as it was. It does not hold of a remote one. *)
FailedRunsLeaveTheDestination ==
  \A p \in Places : Exists(p) =>
    \A w \in Runs : MadeBy(p) = w => pc[w] # "failed"

(* At Dest the runs do what AtomicOutput promises. *)
Shown == IF ~Exists(Dest) THEN Nothing
         ELSE IF MadeBy(Dest) = User THEN Inode(Dest)
         ELSE IF file[Inode(Dest)].state = "whole" THEN MadeBy(Dest) ELSE "torn"

Said(w) == IF pc[w] \notin Ended THEN "working"
           ELSE IF pc[w] = "ok" THEN "ok" ELSE "not"

Atomic == INSTANCE AtomicOutput WITH
  Earlier <- Members \union {Old, Nothing}, Torn <- "torn",
  asked <- {w \in Runs : ask[w].output = Dest}, remote <- {w \in Runs : ask[w].remote},
  output <- Shown, said <- [w \in Runs |-> Said(w)]

ImplementsAtomicOutput == Atomic!Spec
=============================================================================

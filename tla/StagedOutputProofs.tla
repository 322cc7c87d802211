--------------------------- MODULE StagedOutputProofs ---------------------------
(***************************************************************************)
(* StagedOutput, for any folder, any requests, any number of runs in any   *)
(* number of processes, and any faults.                                    *)
(***************************************************************************)
EXTENDS StagedOutput, FiniteSetTheorems, TLAPS

-----------------------------------------------------------------------------
(* Staged names. *)

(* A run has named its temporary from Stage on. *)
NamesTypeOK ==
  /\ temps \in [Temps -> Runs \union {Nothing}]
  /\ temp \in [Runs -> Temps \union {Nothing}]
  /\ host \in [Runs -> Procs \union {Nothing}]
  /\ pid \in [Procs -> Pids \union {"unborn", "dead"}]
  /\ serial \in [Procs -> Nat]
  /\ pc \in [Runs -> Busy \union Ended \union {"new"}]

Named == {w \in Runs : temp[w] # Nothing}

(* Each number given out was given to a run: they cannot run out. *)
SerialsAreGiven == \A p \in Procs : serial[p] <= Cardinality(Named)

(* No two living processes have one id. *)
PidsAreApart ==
  \A p, q \in Procs : pid[p] \in Pids /\ pid[p] = pid[q] => p = q

(* A run under way is in a living process; until it is staged it has no
   temporary, and from then on its name carries the id of the process and a
   number the process does not give again. *)
RunsAreHosted ==
  \A w \in Runs :
    /\ pc[w] \in Busy => host[w] \in Procs /\ pid[host[w]] \in Pids
    /\ pc[w] \in {"new", "admitted"} \union Fetching => temp[w] = Nothing
    /\ pc[w] \in Staging => /\ temp[w] \in Temps
                            /\ temp[w].pid = pid[host[w]]
                            /\ temp[w].serial < serial[host[w]]

(* What each run stages under is its own. *)
StagedApart ==
  \A v, w \in Runs : pc[v] \in Staging /\ pc[w] \in Staging /\ temp[v] = temp[w] => v = w

NamesInv ==
  /\ NamesTypeOK /\ SerialsAreGiven /\ PidsAreApart /\ RunsAreHosted
  /\ StagedApart /\ TempsAreNotLeaked

(* The steps that matter to the names, and all the others. *)
Unnamed == UNCHANGED <<temps, temp, host, pid, serial>>

Proceeds(w) ==
  /\ Unnamed
  /\ \E s \in Busy \union Ended :
       /\ Go(w, pc[w], s)
       /\ \/ pc[w] \in Staging \ {"failing"} /\ s \in Staging \ {"staged"}
          \/ pc[w] = "failing" /\ s = "leaked"
          \/ pc[w] \in Fetching /\ s \in Fetching \union {"ok", "failed"}

Removes(w) ==
  /\ \/ Go(w, "verified", "ok")
     \/ Go(w, "failing", "failed")
  /\ temps' = [temps EXCEPT ![temp[w]] = Nothing]
  /\ UNCHANGED <<temp, host, pid, serial>>

Naming ==
  \/ Unnamed /\ pc' = pc
  \/ \E w \in Runs : Begin(w) \/ Stage(w) \/ Create(w) \/ Removes(w) \/ Proceeds(w)
  \/ \E p \in Procs : Crash(p)

(* Every step is one of these. *)
LEMMA StepsName == NamesTypeOK /\ [Next]_vars => Naming
<1> SUFFICES ASSUME NamesTypeOK, [Next]_vars PROVE Naming
  OBVIOUS
<1> USE DEF Naming, Busy, Staging, Fetching, Ended
<1>1. CASE UNCHANGED vars
  BY <1>1 DEF vars, disk, proc, work, Unnamed
<1>2. ASSUME NEW m \in Members, Goes(m) \/ Comes(m) PROVE Naming
  BY <1>2 DEF Goes, Comes, Moves, proc, work, Unnamed
<1>3. ASSUME NEW w \in Runs, Begin(w) \/ Stage(w) \/ Create(w) PROVE Naming
  BY <1>3
<1>4. ASSUME NEW w \in Runs, Commit(w) \/ CleanUp(w) PROVE Naming
  BY <1>4 DEF Commit, CleanUp, Removes, proc, work
<1>5. ASSUME NEW w \in Runs, WriteMember(w) \/ Damage(w) \/ Loses(w) PROVE Naming
  BY <1>5 DEF WriteMember, Damage, Loses, Unnamed, disk, proc, work
<1>6. ASSUME NEW w \in Runs,
             CreateFails(w) \/ MemberIsGone(w) \/ BuildFails(w) \/ Finish(w) \/ Verify(w)
               \/ CommitFails(w) \/ CleanUpFails(w)
      PROVE  Proceeds(w)
  BY <1>6
     DEF CreateFails, MemberIsGone, BuildFails, Finish, Verify, CommitFails, CleanUpFails,
         Proceeds, Go, Unnamed, disk, proc, work
<1>7. ASSUME NEW w \in Runs, Fetches(w) PROVE Proceeds(w)
  BY <1>7
     DEF Fetches, Fetch, FetchFails, Truncate, Fill, FillFails, Proceeds, Go, Unnamed, disk,
         proc, work
<1>8. ASSUME NEW p \in Procs, Crash(p) PROVE Naming
  BY <1>8
<1> QED
  BY <1>1, <1>2, <1>3, <1>4, <1>5, <1>6, <1>7, <1>8 DEF Next, Compresses

(* A serial number that is given out finds a run that had none. *)
LEMMA NumbersSuffice ==
  ASSUME NamesTypeOK, SerialsAreGiven
  PROVE  /\ IsFiniteSet(Runs) /\ IsFiniteSet(Named)
         /\ Cardinality(Named) \in Nat /\ Cardinality(Runs) \in Nat
         /\ \A p \in Procs : serial[p] \in Serials
         /\ \A w \in Runs \ Named : Cardinality(Named \union {w}) = Cardinality(Named) + 1
<1>1. IsFiniteSet(Runs) /\ Named \subseteq Runs
  BY BoundsAssumption DEF Named
<1>2. IsFiniteSet(Named) /\ Cardinality(Named) <= Cardinality(Runs)
  BY <1>1, FS_Subset
<1>3. Cardinality(Named) \in Nat /\ Cardinality(Runs) \in Nat
  BY <1>1, <1>2, FS_CardinalityType
<1>4. \A p \in Procs : serial[p] \in Serials
  BY <1>2, <1>3 DEF NamesTypeOK, SerialsAreGiven, Serials
<1>5. \A w \in Runs \ Named : Cardinality(Named \union {w}) = Cardinality(Named) + 1
  BY <1>2, FS_AddElement
<1> QED
  BY <1>1, <1>2, <1>3, <1>4, <1>5

(* A run that is staged has a living process, and gets a name nobody has. *)
LEMMA StagingNames ==
  ASSUME NamesInv, NEW w \in Runs, Stage(w)
  PROVE  /\ host[w] \in Procs /\ pid[host[w]] \in Pids /\ temp[w] = Nothing
         /\ StagedBeside(w) \in Temps
         /\ StagedBeside(w).pid = pid[host[w]] /\ StagedBeside(w).serial = serial[host[w]]
         /\ \A v \in Runs : pc[v] \in Staging => temp[v] # StagedBeside(w)
<1> USE DEF NamesInv
<1>1. pc[w] = "admitted"
  BY DEF Stage, Go
<1>2. host[w] \in Procs /\ pid[host[w]] \in Pids /\ temp[w] = Nothing
  BY <1>1 DEF RunsAreHosted, Busy
<1>3. serial[host[w]] \in Serials
  BY <1>2, NumbersSuffice
<1>4. /\ StagedBeside(w) \in Temps
      /\ StagedBeside(w).pid = pid[host[w]] /\ StagedBeside(w).serial = serial[host[w]]
  BY <1>2, <1>3 DEF StagedBeside, Temps
<1>5. ASSUME NEW v \in Runs, pc[v] \in Staging, temp[v] = StagedBeside(w) PROVE FALSE
  <2>1. /\ host[v] \in Procs /\ pid[host[v]] \in Pids
        /\ temp[v].pid = pid[host[v]] /\ temp[v].serial < serial[host[v]]
    BY <1>5 DEF RunsAreHosted, Busy
  <2>2. host[v] = host[w]
    BY <1>2, <1>4, <1>5, <2>1 DEF PidsAreApart
  <2> QED
    BY <1>2, <1>4, <1>5, <2>1, <2>2 DEF NamesTypeOK
<1> QED
  BY <1>2, <1>4, <1>5

(* Staged names stay typed, numbered, hosted, apart, and without a leak. *)
LEMMA NamesKeep == NamesInv /\ [Next]_vars => NamesInv'
<1> SUFFICES ASSUME NamesInv, [Next]_vars PROVE NamesInv'
  OBVIOUS
<1>0. /\ NamesTypeOK /\ SerialsAreGiven /\ PidsAreApart /\ RunsAreHosted /\ StagedApart
      /\ TempsAreNotLeaked /\ Naming
  BY StepsName DEF NamesInv
<1>1. CASE Unnamed /\ pc' = pc
  BY <1>0, <1>1
     DEF Unnamed, NamesInv, NamesTypeOK, SerialsAreGiven, Named, PidsAreApart, RunsAreHosted,
         StagedApart, TempsAreNotLeaked
<1>2. ASSUME NEW w \in Runs, Begin(w) PROVE NamesInv'
  <2>1. PICK p \in Procs, s \in {"refused", "fetching", "admitted"} :
          HostedBy(w, p) /\ Go(w, "new", s)
    BY <1>2 DEF Begin
  <2>2. temp' = temp /\ temps' = temps /\ serial' = serial
    BY <1>2 DEF Begin, disk, work
  <2>3. host' = [host EXCEPT ![w] = p] /\ pc[w] = "new" /\ pc' = [pc EXCEPT ![w] = s]
    BY <2>1 DEF HostedBy, Go
  <2>4. /\ pid' \in [Procs -> Pids \union {"unborn", "dead"}]
        /\ pid'[p] \in Pids /\ \A q \in Procs \ {p} : pid'[q] = pid[q]
        /\ \/ pid' = pid
           \/ \A q \in Procs : pid[q] # pid'[p]
    BY <1>0, <2>1 DEF HostedBy, NamesTypeOK
  <2>5. NamesTypeOK'
    BY <1>0, <2>2, <2>3, <2>4 DEF NamesTypeOK, Busy, Fetching, Ended
  <2>6. SerialsAreGiven' /\ PidsAreApart'
    BY <1>0, <2>2, <2>4 DEF SerialsAreGiven, Named, PidsAreApart
  <2>7. RunsAreHosted'
    <3>1. \A v \in Runs \ {w} : pc[v] \in Busy => pid'[host[v]] = pid[host[v]]
      BY <1>0, <2>1, PidAssumption DEF RunsAreHosted, HostedBy, NamesTypeOK
    <3> QED
      BY <1>0, <2>2, <2>3, <2>4, <3>1
         DEF RunsAreHosted, NamesTypeOK, Busy, Staging, Fetching
  <2>8. StagedApart' /\ TempsAreNotLeaked'
    BY <1>0, <2>2, <2>3 DEF StagedApart, TempsAreNotLeaked, NamesTypeOK, Staging
  <2> QED
    BY <2>5, <2>6, <2>7, <2>8 DEF NamesInv
<1>3. ASSUME NEW w \in Runs, Stage(w) PROVE NamesInv'
  <2> DEFINE t == StagedBeside(w)
  <2>1. /\ host[w] \in Procs /\ pid[host[w]] \in Pids /\ temp[w] = Nothing
        /\ t \in Temps /\ t.pid = pid[host[w]] /\ t.serial = serial[host[w]]
        /\ \A v \in Runs : pc[v] \in Staging => temp[v] # t
    BY <1>3, StagingNames
  <2>2. /\ pc[w] = "admitted" /\ pc' = [pc EXCEPT ![w] = "staged"]
        /\ temp' = [temp EXCEPT ![w] = t]
        /\ serial' = [serial EXCEPT ![host[w]] = @ + 1]
        /\ temps' = temps /\ host' = host /\ pid' = pid
    BY <1>3 DEF Stage, Go, disk
  <2> HIDE DEF t
  <2>3. NamesTypeOK'
    BY <1>0, <2>1, <2>2 DEF NamesTypeOK, Busy, Staging
  <2>4. SerialsAreGiven'
    <3>1. Named' = Named \union {w} /\ w \in Runs \ Named
      BY <1>0, <2>1, <2>2, NamesAssumption DEF Named, NamesTypeOK
    <3>2. Cardinality(Named') = Cardinality(Named) + 1 /\ Cardinality(Named) \in Nat
      BY <1>0, <3>1, NumbersSuffice
    <3>3. \A p \in Procs : serial'[p] <= serial[p] + 1 /\ serial[p] \in Nat
      BY <1>0, <2>1, <2>2 DEF NamesTypeOK
    <3>4. \A p \in Procs : serial'[p] \in Nat
      BY <2>3 DEF NamesTypeOK
    <3> HIDE DEF Named
    <3> QED
      BY <1>0, <3>2, <3>3, <3>4 DEF SerialsAreGiven
  <2>5. PidsAreApart'
    BY <1>0, <2>2 DEF PidsAreApart
  <2>6. RunsAreHosted'
    <3>1. /\ temp'[w] = t /\ pc'[w] = "staged"
          /\ serial'[host[w]] = serial[host[w]] + 1 /\ serial[host[w]] \in Nat
      BY <1>0, <2>1, <2>2 DEF NamesTypeOK
    <3>2. \A p \in Procs : serial[p] \in Nat /\ serial[p] <= serial'[p] /\ serial'[p] \in Nat
      BY <1>0, <2>1, <2>2 DEF NamesTypeOK
    <3>3. \A v \in Runs \ {w} : temp'[v] = temp[v] /\ pc'[v] = pc[v]
      BY <1>0, <2>2 DEF NamesTypeOK
    <3>4. \A u \in Temps : u.serial \in Nat
      BY BoundsAssumption, FS_CardinalityType DEF Temps, Serials
    <3> QED
      BY <1>0, <2>1, <2>2, <3>1, <3>2, <3>3, <3>4
         DEF RunsAreHosted, Busy, Staging, Fetching
  <2>7. StagedApart'
    BY <1>0, <2>1, <2>2 DEF StagedApart, NamesTypeOK, Staging
  <2>8. TempsAreNotLeaked'
    BY <1>0, <2>1, <2>2, NamesAssumption DEF TempsAreNotLeaked, NamesTypeOK
  <2> QED
    BY <2>3, <2>4, <2>5, <2>6, <2>7, <2>8 DEF NamesInv
<1>4. ASSUME NEW w \in Runs, Create(w) PROVE NamesInv'
  <2>1. /\ pc[w] = "staged" /\ pc' = [pc EXCEPT ![w] = "building"]
        /\ temps' = [temps EXCEPT ![temp[w]] = Made(w, temps[temp[w]])]
        /\ temp' = temp /\ host' = host /\ pid' = pid /\ serial' = serial
    BY <1>4 DEF Create, Go, Opens, proc
  <2>2. temp[w] \in Temps
    BY <1>0, <2>1 DEF RunsAreHosted, Staging
  <2>3. Made(w, temps[temp[w]]) \in Runs
    BY <1>0, <2>2 DEF Made, NamesTypeOK
  <2>4. NamesTypeOK'
    BY <1>0, <2>1, <2>3 DEF NamesTypeOK, Busy, Staging
  <2>5. SerialsAreGiven' /\ PidsAreApart'
    BY <1>0, <2>1 DEF SerialsAreGiven, Named, PidsAreApart
  <2>6. RunsAreHosted'
    BY <1>0, <2>1 DEF RunsAreHosted, NamesTypeOK, Busy, Staging, Fetching
  <2>7. StagedApart'
    BY <1>0, <2>1 DEF StagedApart, NamesTypeOK, Staging
  <2>8. TempsAreNotLeaked'
    BY <1>0, <2>1, <2>2 DEF TempsAreNotLeaked, NamesTypeOK
  <2> QED
    BY <2>4, <2>5, <2>6, <2>7, <2>8 DEF NamesInv
<1>5. ASSUME NEW w \in Runs, Removes(w) PROVE NamesInv'
  <2>1. PICK s \in {"ok", "failed"} :
          /\ pc[w] \in {"verified", "failing"} /\ pc' = [pc EXCEPT ![w] = s]
          /\ temps' = [temps EXCEPT ![temp[w]] = Nothing]
          /\ temp' = temp /\ host' = host /\ pid' = pid /\ serial' = serial
    BY <1>5 DEF Removes, Go
  <2>2. NamesTypeOK'
    BY <1>0, <2>1 DEF NamesTypeOK, Ended
  <2>3. SerialsAreGiven' /\ PidsAreApart'
    BY <1>0, <2>1 DEF SerialsAreGiven, Named, PidsAreApart
  <2>4. RunsAreHosted'
    BY <1>0, <2>1 DEF RunsAreHosted, NamesTypeOK, Busy, Staging, Fetching
  <2>5. StagedApart'
    BY <1>0, <2>1 DEF StagedApart, NamesTypeOK, Staging
  <2>6. TempsAreNotLeaked'
    BY <1>0, <2>1 DEF TempsAreNotLeaked, NamesTypeOK
  <2> QED
    BY <2>2, <2>3, <2>4, <2>5, <2>6 DEF NamesInv
<1>6. ASSUME NEW w \in Runs, Proceeds(w) PROVE NamesInv'
  <2>1. PICK s \in Busy \union Ended :
          /\ pc' = [pc EXCEPT ![w] = s]
          /\ \/ pc[w] \in Staging \ {"failing"} /\ s \in Staging \ {"staged"}
             \/ pc[w] = "failing" /\ s = "leaked"
             \/ pc[w] \in Fetching /\ s \in Fetching \union {"ok", "failed"}
    BY <1>6 DEF Proceeds, Go
  <2>2. temps' = temps /\ temp' = temp /\ host' = host /\ pid' = pid /\ serial' = serial
    BY <1>6 DEF Proceeds, Unnamed
  <2>3. NamesTypeOK'
    BY <1>0, <2>1, <2>2 DEF NamesTypeOK
  <2>4. SerialsAreGiven' /\ PidsAreApart'
    BY <1>0, <2>2 DEF SerialsAreGiven, Named, PidsAreApart
  <2>5. RunsAreHosted'
    BY <1>0, <2>1, <2>2 DEF RunsAreHosted, NamesTypeOK, Busy, Staging, Fetching
  <2>6. StagedApart'
    BY <1>0, <2>1, <2>2 DEF StagedApart, NamesTypeOK, Staging, Fetching
  <2>7. TempsAreNotLeaked'
    BY <1>0, <2>1, <2>2 DEF TempsAreNotLeaked, NamesTypeOK, Staging, Fetching
  <2> QED
    BY <2>3, <2>4, <2>5, <2>6, <2>7 DEF NamesInv
<1>7. ASSUME NEW p \in Procs, Crash(p) PROVE NamesInv'
  <2>1. /\ pid' = [pid EXCEPT ![p] = "dead"]
        /\ pc' = [w \in Runs |-> IF host[w] = p /\ pc[w] \in Busy THEN "killed" ELSE pc[w]]
        /\ temps' = temps /\ temp' = temp /\ host' = host /\ serial' = serial
    BY <1>7 DEF Crash, disk, work
  <2>2. NamesTypeOK'
    BY <1>0, <2>1 DEF NamesTypeOK, Ended
  <2>3. SerialsAreGiven' /\ PidsAreApart'
    BY <1>0, <2>1, PidAssumption DEF SerialsAreGiven, Named, PidsAreApart, NamesTypeOK
  <2>4. RunsAreHosted'
    BY <1>0, <2>1 DEF RunsAreHosted, NamesTypeOK, Busy, Staging, Fetching
  <2>5. StagedApart'
    BY <1>0, <2>1 DEF StagedApart, NamesTypeOK, Staging
  <2>6. TempsAreNotLeaked'
    BY <1>0, <2>1 DEF TempsAreNotLeaked, NamesTypeOK
  <2> QED
    BY <2>2, <2>3, <2>4, <2>5, <2>6 DEF NamesInv
<1> QED
  BY <1>0, <1>1, <1>2, <1>3, <1>4, <1>5, <1>6, <1>7 DEF Naming

(* Staged names, over a whole behaviour. *)
LEMMA NamesInvHolds == Spec => []NamesInv
<1>1. Init => NamesInv
  <2> SUFFICES ASSUME Init PROVE NamesInv
    OBVIOUS
  <2> USE DEF Init
  <2>1. NamesTypeOK /\ Named = {}
    BY DEF NamesTypeOK, Named
  <2>2. SerialsAreGiven
    BY <2>1, FS_EmptySet DEF SerialsAreGiven
  <2>3. PidsAreApart /\ RunsAreHosted /\ StagedApart /\ TempsAreNotLeaked
    BY PidAssumption
       DEF PidsAreApart, RunsAreHosted, StagedApart, TempsAreNotLeaked, Busy, Staging, Fetching
  <2> QED
    BY <2>1, <2>2, <2>3 DEF NamesInv
<1> QED
  BY <1>1, NamesKeep, PTL DEF Spec

(* Whatever crashes and whatever fails, a temporary is some run's, under way,
   killed or unable to remove it. *)
THEOREM TempsHaveOwners == Spec => []TempsAreNotLeaked
<1>1. NamesInv => TempsAreNotLeaked
  BY DEF NamesInv
<1> QED
  BY <1>1, NamesInvHolds, PTL

-----------------------------------------------------------------------------
(* Bytes. *)

Files == [by : Runs \union {User}, state : {"none", "open", "whole"},
          holds : SUBSET Entries, damaged : BOOLEAN]

BytesTypeOK ==
  /\ nested \in BOOLEAN
  /\ names \in [Places -> Inodes \union {Nothing}]
  /\ link \in Linked \union {Nothing}
  /\ file \in [Inodes -> Files]
  /\ handle \in [Runs -> Inodes \union {Nothing}]
  /\ ask \in [Runs -> Requests]
  /\ expected \in [Runs -> SUBSET Entries]
  /\ todo \in [Runs -> SUBSET Entries]
  /\ seen \in [Runs -> SUBSET Members]
  /\ faults \in 0..MaxFaults /\ changes \in 0..MaxChanges

Placed(i) == \E p \in Places : names[p] = i

(* Until a run opens a file, nothing leads to the one it may make. *)
Fresh ==
  \A v \in Runs : handle[v] = Nothing =>
    /\ ~Placed(v)
    /\ \A t \in Temps : temps[t] # v
    /\ \A u \in Runs : handle[u] # v

OpenedLate ==
  \A w \in Runs : pc[w] \in {"new", "admitted", "staged", "fetching", "fetched"}
                    => handle[w] = Nothing

(* A temporary leads to a file of its own. *)
TempsApart ==
  \A t \in Temps : temps[t] # Nothing =>
    /\ ~Placed(temps[t])
    /\ \A u \in Temps : temps[u] = temps[t] => u = t

(* Local runs stage, remote ones fetch. *)
Sides ==
  \A w \in Runs :
    /\ pc[w] \in Staging \union {"admitted"} => Local(w)
    /\ pc[w] \in Fetching => ~Local(w)

(* What a local run writes is at its staged name, and nobody else's. *)
LocalsHold ==
  \A w \in Runs : pc[w] \in {"building", "built", "verified"} =>
    /\ handle[w] # Nothing /\ temps[temp[w]] = handle[w]
    /\ file[handle[w]].by = w

(* What a remote run writes is at no staged name. *)
RemotesApart ==
  \A w \in Runs : pc[w] = "filling" =>
    handle[w] # Nothing /\ \A t \in Temps : temps[t] # handle[w]

(* The archive is the one asked for, as far as the run could tell. *)
Promised(w, f) ==
  /\ f.state = "whole" /\ f.holds = expected[w]
  /\ f.damaged => ~DamageShows(w)

VerifiedIsPromised ==
  \A w \in Runs : pc[w] = "verified" => Promised(w, file[handle[w]])

(* A file that a name leads to, or may lead to again. *)
Sound(i) ==
  LET f == file[i] IN
    \/ f.by = User /\ f.state = "whole"
    \/ f.by \in Runs /\ ~Local(f.by)
    \/ f.by \in Runs /\ Local(f.by) /\ pc[f.by] = "ok" /\ Promised(f.by, f)

PlacesAreSound == \A i \in Inodes : (i \notin Runs \/ Placed(i)) => Sound(i)

HandlesInv == Fresh /\ OpenedLate /\ TempsApart /\ Sides /\ LocalsHold /\ RemotesApart
BytesInv   == BytesTypeOK /\ HandlesInv /\ VerifiedIsPromised /\ PlacesAreSound

(* The steps that write to a file or move a name, and all the others. *)
Writes(w) ==
  /\ pc[w] = "building"
  /\ \E s \in {"building", "built", "failing"} : pc' = [pc EXCEPT ![w] = s]
  /\ \E f \in Files : f.by = file[handle[w]].by /\ file' = [file EXCEPT ![handle[w]] = f]
  /\ UNCHANGED <<names, temps, temp, handle, expected, ask>>

Turn(w, s) ==
  \/ /\ pc[w] = "new"
     /\ s = "refused" \/ (s = "fetching" /\ ~Local(w)) \/ (s = "admitted" /\ Local(w))
  \/ pc[w] = "admitted" /\ s = "staged"
  \/ pc[w] = "fetching" /\ s \in {"fetched", "failed"}
  \/ pc[w] \in {"staged", "built", "verified"} /\ s = "failing"
  \/ pc[w] = "built" /\ s = "verified" /\ Verifies(w)
  \/ pc[w] = "failing" /\ s = "leaked"
  \/ pc[w] = "filling" /\ s = "failed"

Turns(w) ==
  /\ UNCHANGED <<names, file, temps, handle, ask>>
  /\ \E s \in Busy \union Ended : Turn(w, s) /\ pc' = [pc EXCEPT ![w] = s]
  /\ \/ expected' = expected
     \/ pc[w] \in {"admitted", "fetching"} /\ \E e : expected' = [expected EXCEPT ![w] = e]
  /\ \/ temp' = temp
     \/ pc[w] = "admitted" /\ \E t : temp' = [temp EXCEPT ![w] = t]

Idles == UNCHANGED <<names, file, temps, temp, handle, ask, pc, expected>>

Byting ==
  \/ Idles
  \/ \E m \in Members : Goes(m) \/ Comes(m)
  \/ \E w \in Runs : Writes(w) \/ Turns(w) \/ Create(w) \/ Commit(w) \/ CleanUp(w) \/ Truncate(w)
                       \/ Fill(w)
  \/ \E p \in Procs : Crash(p)

(* What a walk finds, or a request names, are entries. *)
LEMMA WantedAreEntries ==
  ASSUME BytesTypeOK, NEW w \in Runs
  PROVE  Wanted(w) \in SUBSET Entries
<1>1. Walk \subseteq Entries
  BY DEF Walk, Entries, Places
<1>2. ask[w].source \in Members \union {Folder}
  BY RequestsAssumption DEF BytesTypeOK
<1> QED
  BY <1>1, <1>2 DEF Wanted, Entries, Places

(* The steps of the backend write to the file the run opened. *)
LEMMA WritersWrite ==
  ASSUME NamesInv, BytesInv, NEW w \in Runs,
         WriteMember(w) \/ MemberIsGone(w) \/ BuildFails(w) \/ Damage(w) \/ Finish(w)
  PROVE  Writes(w)
<1>0. BytesTypeOK /\ LocalsHold /\ NamesTypeOK
  BY DEF NamesInv, BytesInv, HandlesInv
<1>1. pc[w] = "building"
  BY DEF WriteMember, MemberIsGone, BuildFails, Damage, Finish, Building, Go
<1>2. handle[w] \in Inodes /\ file[handle[w]] \in Files
  BY <1>0, <1>1 DEF LocalsHold, BytesTypeOK
<1>3. /\ UNCHANGED <<names, temps, temp, handle, expected, ask>>
      /\ \E s \in {"building", "built", "failing"} : pc' = [pc EXCEPT ![w] = s]
  BY <1>0, <1>1
     DEF WriteMember, MemberIsGone, BuildFails, Damage, Finish, Go, work, NamesTypeOK
<1>4. \E f \in Files : f.by = file[handle[w]].by /\ file' = [file EXCEPT ![handle[w]] = f]
  <2>1. CASE WriteMember(w)
    <3>1. PICK e \in todo[w] :
            file' = [file EXCEPT ![handle[w]] = [file[handle[w]] EXCEPT !.holds = @ \union {e}]]
      BY <2>1 DEF WriteMember, Written
    <3>2. e \in Entries
      BY <1>0, <3>1 DEF BytesTypeOK
    <3>3. [file[handle[w]] EXCEPT !.holds = @ \union {e}] \in Files
      BY <1>2, <3>2 DEF Files
    <3> QED
      BY <1>2, <3>1, <3>3 DEF Files
  <2>2. CASE MemberIsGone(w) \/ BuildFails(w) \/ Finish(w)
    <3>1. PICK s \in {"open", "whole"} :
            file' = [file EXCEPT ![handle[w]] = [file[handle[w]] EXCEPT !.state = s]]
      BY <2>2 DEF MemberIsGone, BuildFails, Finish, Written
    <3>2. [file[handle[w]] EXCEPT !.state = s] \in Files
      BY <1>2, <3>1 DEF Files
    <3> QED
      BY <1>2, <3>1, <3>2 DEF Files
  <2>3. CASE Damage(w)
    <3>1. file' = [file EXCEPT ![handle[w]] = [file[handle[w]] EXCEPT !.damaged = TRUE]]
      BY <2>3 DEF Damage, Written
    <3>2. [file[handle[w]] EXCEPT !.damaged = TRUE] \in Files
      BY <1>2 DEF Files
    <3> QED
      BY <1>2, <3>1, <3>2 DEF Files
  <2> QED
    BY <2>1, <2>2, <2>3
<1> QED
  BY <1>1, <1>3, <1>4 DEF Writes

(* Every step is one of these. *)
LEMMA StepsByte == NamesInv /\ BytesInv /\ [Next]_vars => Byting
<1> SUFFICES ASSUME NamesInv, BytesInv, [Next]_vars PROVE Byting
  OBVIOUS
<1>0. BytesTypeOK /\ LocalsHold /\ NamesTypeOK
  BY DEF NamesInv, BytesInv, HandlesInv
<1> USE DEF Byting
<1>1. CASE UNCHANGED vars
  BY <1>1 DEF vars, disk, proc, work, Idles
<1>2. ASSUME NEW m \in Members, Goes(m) \/ Comes(m) PROVE Byting
  BY <1>2
<1>3. ASSUME NEW w \in Runs,
             Create(w) \/ Commit(w) \/ CleanUp(w) \/ Truncate(w) \/ Fill(w)
      PROVE  Byting
  BY <1>3
<1>4. ASSUME NEW w \in Runs, Loses(w) PROVE Byting
  BY <1>4 DEF Loses, disk, Idles
<1>5. ASSUME NEW w \in Runs,
             WriteMember(w) \/ MemberIsGone(w) \/ BuildFails(w) \/ Damage(w) \/ Finish(w)
      PROVE  Writes(w)
  BY <1>5, WritersWrite
<1>6. ASSUME NEW w \in Runs, Begin(w) PROVE Turns(w)
  BY <1>6 DEF Begin, Go, Turns, Turn, Local, Busy, Ended, Fetching, disk, work
<1>7. ASSUME NEW w \in Runs, Stage(w) PROVE Turns(w)
  BY <1>7 DEF Stage, Go, Turns, Turn, Busy, Staging, disk
<1>8. ASSUME NEW w \in Runs, Fetch(w) \/ FetchFails(w) \/ FillFails(w) PROVE Turns(w)
  BY <1>8 DEF Fetch, FetchFails, FillFails, Go, Turns, Turn, Busy, Fetching, Ended, disk, work
<1>9. ASSUME NEW w \in Runs, CreateFails(w) \/ Verify(w) \/ CommitFails(w) \/ CleanUpFails(w)
      PROVE  Turns(w)
  BY <1>9
     DEF CreateFails, Verify, CommitFails, CleanUpFails, Go, Turns, Turn, Busy, Staging, Ended,
         disk, work
<1>10. ASSUME NEW p \in Procs, Crash(p) PROVE Byting
  BY <1>10
<1> QED
  BY <1>1, <1>2, <1>3, <1>4, <1>5, <1>6, <1>7, <1>8, <1>9, <1>10 DEF Next, Compresses, Fetches

(* What runs are asked never changes; bytes, names and handles stay typed. *)
LEMMA BytesTypes == NamesInv /\ BytesInv /\ [Next]_vars => ask' = ask /\ BytesTypeOK'
<1> SUFFICES ASSUME NamesInv, BytesInv, [Next]_vars PROVE ask' = ask /\ BytesTypeOK'
  OBVIOUS
<1>0. BytesTypeOK /\ NamesTypeOK
  BY DEF NamesInv, BytesInv
<1>1. CASE UNCHANGED vars
  BY <1>0, <1>1 DEF vars, disk, work, BytesTypeOK
<1>2. ASSUME NEW m \in Members, Goes(m) \/ Comes(m) PROVE ask' = ask /\ BytesTypeOK'
  <2>1. m \in Inodes /\ m \in Places
    BY DEF Inodes, Places
  <2>2. names' \in [Places -> Inodes \union {Nothing}]
    BY <1>0, <1>2, <2>1 DEF Goes, Comes, Moves, BytesTypeOK
  <2>3. changes' \in 0..MaxChanges
    BY <1>0, <1>2, BoundsAssumption DEF Goes, Comes, Moves, BytesTypeOK
  <2> QED
    BY <1>0, <1>2, <2>2, <2>3 DEF Goes, Comes, Moves, work, BytesTypeOK
<1>3. ASSUME NEW w \in Runs, Begin(w) PROVE ask' = ask /\ BytesTypeOK'
  BY <1>0, <1>3 DEF Begin, disk, work, BytesTypeOK
<1>4. ASSUME NEW w \in Runs, Stage(w) \/ Fetch(w) PROVE ask' = ask /\ BytesTypeOK'
  <2>1. Wanted(w) \in SUBSET Entries
    BY <1>0, WantedAreEntries
  <2> QED
    BY <1>0, <1>4, <2>1 DEF Stage, Fetch, disk, BytesTypeOK
<1>5. ASSUME NEW kind, Fault(kind) PROVE faults' \in 0..MaxFaults
  BY <1>0, <1>5, BoundsAssumption DEF Fault, BytesTypeOK
<1>6. ASSUME NEW w \in Runs,
             CreateFails(w) \/ Verify(w) \/ CommitFails(w) \/ CleanUp(w) \/ CleanUpFails(w)
               \/ FetchFails(w) \/ FillFails(w)
      PROVE  ask' = ask /\ BytesTypeOK'
  <2>1. faults' \in 0..MaxFaults
    BY <1>0, <1>5, <1>6
       DEF CreateFails, Verify, CommitFails, CleanUp, CleanUpFails, FetchFails, FillFails,
           BytesTypeOK
  <2> QED
    BY <1>0, <1>6, <2>1
       DEF CreateFails, Verify, CommitFails, CleanUp, CleanUpFails, FetchFails, FillFails, disk,
           work, BytesTypeOK
<1>7. \A w \in Runs : Blank(w) \in Files
  BY DEF Blank, Files
<1>8. ASSUME NEW w \in Runs, Create(w) PROVE ask' = ask /\ BytesTypeOK'
  <2>1. temp[w] \in Temps
    BY <1>8 DEF Create, Go, NamesInv, RunsAreHosted, Staging
  <2>2. Made(w, temps[temp[w]]) \in Inodes
    BY <1>0, <2>1 DEF Made, NamesTypeOK, Inodes
  <2>3. Wanted(w) \in SUBSET Entries
    BY <1>0, WantedAreEntries
  <2> QED
    BY <1>0, <1>7, <1>8, <2>2, <2>3 DEF Create, Opens, BytesTypeOK
<1>9. ASSUME NEW w \in Runs, Truncate(w) PROVE ask' = ask /\ BytesTypeOK'
  <2>1. ask[w].output \in Places
    BY <1>0, RequestsAssumption DEF BytesTypeOK
  <2>2. Leads(ask[w].output) \in Places
    BY <1>0, <2>1, NamesAssumption DEF Leads, BytesTypeOK, Places
  <2>3. Made(w, Inode(ask[w].output)) \in Inodes
    BY <1>0, <2>2 DEF Made, Inode, BytesTypeOK, Inodes
  <2> QED
    BY <1>0, <1>7, <1>9, <2>2, <2>3 DEF Truncate, Opens, BytesTypeOK
<1>10. ASSUME NEW w \in Runs, Fill(w) PROVE ask' = ask /\ BytesTypeOK'
  <2>1. PICK s \in {"whole", "open"} :
          file' = [file EXCEPT ![handle[w]] = [Blank(w) EXCEPT !.state = s, !.holds = expected[w]]]
    BY <1>10 DEF Fill, Written
  <2>2. [Blank(w) EXCEPT !.state = s, !.holds = expected[w]] \in Files
    BY <1>0 DEF Blank, Files, BytesTypeOK
  <2> QED
    BY <1>0, <1>10, <2>1, <2>2 DEF Fill, work, BytesTypeOK
<1>11. ASSUME NEW w \in Runs, Commit(w) PROVE ask' = ask /\ BytesTypeOK'
  <2>1. temp[w] \in Temps
    BY <1>11 DEF Commit, Go, NamesInv, RunsAreHosted, Staging
  <2>2. temps[temp[w]] \in Inodes
    BY <1>0, <1>11, <2>1 DEF Commit, NamesTypeOK, Inodes
  <2> QED
    BY <1>0, <1>11, <2>2 DEF Commit, work, BytesTypeOK
<1>12. ASSUME NEW w \in Runs, Loses(w) PROVE ask' = ask /\ BytesTypeOK'
  <2>1. todo' \in [Runs -> SUBSET Entries]
    BY <1>0, <1>12 DEF Loses, BytesTypeOK
  <2>2. faults' \in 0..MaxFaults
    BY <1>5, <1>12 DEF Loses
  <2> QED
    BY <1>0, <1>12, <2>1, <2>2 DEF Loses, disk, BytesTypeOK
<1>13. ASSUME NEW w \in Runs, Writes(w),
              WriteMember(w) \/ MemberIsGone(w) \/ BuildFails(w) \/ Damage(w) \/ Finish(w)
       PROVE  ask' = ask /\ BytesTypeOK'
  <2>1. file' \in [Inodes -> Files]
    BY <1>0, <1>13 DEF Writes, BytesTypeOK
  <2>2. todo' \in [Runs -> SUBSET Entries]
    BY <1>0, <1>13 DEF WriteMember, MemberIsGone, BuildFails, Damage, Finish, work, BytesTypeOK
  <2>3. faults' \in 0..MaxFaults
    BY <1>0, <1>5, <1>13 DEF WriteMember, MemberIsGone, BuildFails, Damage, Finish, BytesTypeOK
  <2> QED
    BY <1>0, <1>13, <2>1, <2>2, <2>3
       DEF WriteMember, MemberIsGone, BuildFails, Damage, Finish, work, BytesTypeOK
<1>14. ASSUME NEW p \in Procs, Crash(p) PROVE ask' = ask /\ BytesTypeOK'
  BY <1>0, <1>5, <1>14 DEF Crash, disk, work, BytesTypeOK
<1>15. ASSUME NEW w \in Runs,
              WriteMember(w) \/ MemberIsGone(w) \/ BuildFails(w) \/ Damage(w) \/ Finish(w)
       PROVE  Writes(w)
  BY <1>15, WritersWrite
<1> QED
  BY <1>1, <1>2, <1>3, <1>4, <1>6, <1>8, <1>9, <1>10, <1>11, <1>12, <1>13, <1>14, <1>15
     DEF Next, Compresses, Fetches

(* A run that creates its temporary finds the file of a dead one there, or
   makes its own: nothing else leads to it. *)
LEMMA CreatedApart ==
  ASSUME NamesInv, BytesInv, NEW w \in Runs, Create(w)
  PROVE  /\ temp[w] \in Temps /\ pc[w] = "staged" /\ handle[w] = Nothing
         /\ Made(w, temps[temp[w]]) \in Runs /\ ~Placed(Made(w, temps[temp[w]]))
         /\ \A t \in Temps : temps[t] = Made(w, temps[temp[w]]) => t = temp[w]
         /\ \A v \in Runs : pc[v] \in {"building", "built", "verified", "filling"}
                              => handle[v] # Made(w, temps[temp[w]])
         /\ \A v \in Runs : v # w /\ handle[v] = Nothing => v # Made(w, temps[temp[w]])
<1>0. /\ NamesTypeOK /\ RunsAreHosted /\ StagedApart
      /\ Fresh /\ OpenedLate /\ TempsApart /\ LocalsHold /\ RemotesApart
  BY DEF NamesInv, BytesInv, HandlesInv
<1>1. pc[w] = "staged"
  BY DEF Create, Go
<1>2. temp[w] \in Temps /\ handle[w] = Nothing
  BY <1>0, <1>1 DEF RunsAreHosted, OpenedLate, Staging
<1>3. CASE temps[temp[w]] = Nothing
  <2>1. Made(w, temps[temp[w]]) = w
    BY <1>3 DEF Made
  <2> QED
    BY <1>0, <1>1, <1>2, <2>1 DEF Fresh
<1>4. CASE temps[temp[w]] # Nothing
  <2>1. Made(w, temps[temp[w]]) = temps[temp[w]] /\ temps[temp[w]] \in Runs
    BY <1>0, <1>2, <1>4 DEF Made, NamesTypeOK
  <2>2. ~Placed(temps[temp[w]]) /\ \A t \in Temps : temps[t] = temps[temp[w]] => t = temp[w]
    BY <1>0, <1>2, <1>4 DEF TempsApart
  <2>3. ASSUME NEW v \in Runs, pc[v] \in {"building", "built", "verified"}
        PROVE  handle[v] # temps[temp[w]]
    <3>1. temp[v] \in Temps /\ handle[v] = temps[temp[v]]
      BY <1>0, <2>3 DEF RunsAreHosted, LocalsHold, Staging
    <3>2. temp[v] # temp[w]
      BY <1>0, <1>1, <2>3 DEF StagedApart, Staging
    <3> QED
      BY <2>2, <3>1, <3>2
  <2>4. \A v \in Runs : pc[v] = "filling" => handle[v] # temps[temp[w]]
    BY <1>0, <1>2 DEF RemotesApart
  <2>5. \A v \in Runs : handle[v] = Nothing => v # temps[temp[w]]
    BY <1>0, <1>2 DEF Fresh
  <2> QED
    BY <1>1, <1>2, <2>1, <2>2, <2>3, <2>4, <2>5
<1> QED
  BY <1>3, <1>4

(* Likewise the file that is opened at the output for a remote result is at no
   staged name. *)
LEMMA TruncatedApart ==
  ASSUME NamesInv, BytesInv, NEW w \in Runs, Truncate(w)
  PROVE  LET p == Leads(ask[w].output)
             i == Made(w, Inode(ask[w].output)) IN
         /\ p \in Places /\ i \in Inodes /\ i # Nothing
         /\ pc[w] = "fetched" /\ handle[w] = Nothing
         /\ i = w \/ Placed(i)
         /\ \A t \in Temps : temps[t] # i
         /\ \A v \in Runs : v # w /\ handle[v] = Nothing => v # i
<1> DEFINE p == Leads(ask[w].output)
           i == Made(w, Inode(ask[w].output))
<1>0. BytesTypeOK /\ Fresh /\ OpenedLate /\ TempsApart
  BY DEF BytesInv, HandlesInv
<1>1. pc[w] = "fetched" /\ handle[w] = Nothing
  BY <1>0 DEF Truncate, Go, OpenedLate
<1>2. ask[w].output \in Places
  BY <1>0, RequestsAssumption DEF BytesTypeOK
<1>3. p \in Places
  BY <1>0, <1>2, NamesAssumption DEF Leads, BytesTypeOK, Places
<1>4. i = w \/ (i = names[p] /\ names[p] # Nothing)
  BY DEF Made, Inode
<1>5. i \in Inodes /\ i # Nothing
  BY <1>0, <1>3, <1>4, NamesAssumption DEF BytesTypeOK, Inodes
<1>6. i = w \/ Placed(i)
  BY <1>3, <1>4 DEF Placed
<1>7. \A t \in Temps : temps[t] # i
  BY <1>0, <1>1, <1>5, <1>6 DEF Fresh, TempsApart
<1>8. \A v \in Runs : v # w /\ handle[v] = Nothing => v # i
  BY <1>0, <1>6 DEF Fresh
<1> QED
  BY <1>1, <1>3, <1>5, <1>6, <1>7, <1>8

(* What a run has open stays its own. *)
LEMMA HandlesKeep == NamesInv /\ BytesInv /\ [Next]_vars => HandlesInv'
<1> SUFFICES ASSUME NamesInv, BytesInv, [Next]_vars PROVE HandlesInv'
  OBVIOUS
<1>0. /\ NamesTypeOK /\ RunsAreHosted /\ StagedApart /\ BytesTypeOK
      /\ Fresh /\ OpenedLate /\ TempsApart /\ Sides /\ LocalsHold /\ RemotesApart
      /\ Byting /\ ask' = ask
  BY StepsByte, BytesTypes DEF NamesInv, BytesInv, HandlesInv
<1> USE DEF HandlesInv
<1>1. CASE Idles
  BY <1>0, <1>1
     DEF Idles, Fresh, OpenedLate, TempsApart, Sides, LocalsHold, RemotesApart, Placed, Local
<1>2. ASSUME NEW m \in Members, Goes(m) \/ Comes(m) PROVE HandlesInv'
  <2>1. /\ UNCHANGED <<file, temps, temp, handle, pc>>
        /\ \E i \in {m, Nothing} : names' = [names EXCEPT ![m] = i]
    BY <1>2 DEF Goes, Comes, Moves, work
  <2>2. m \notin Runs /\ Nothing \notin Runs
    BY NamesAssumption DEF Inodes
  <2>3. \A i \in Runs : Placed(i)' => Placed(i)
    BY <1>0, <2>1, <2>2 DEF Placed, BytesTypeOK
  <2>4. Fresh'
    BY <1>0, <2>1, <2>3 DEF Fresh
  <2>5. TempsApart'
    BY <1>0, <2>1, <2>3 DEF TempsApart, NamesTypeOK
  <2>6. OpenedLate' /\ Sides' /\ LocalsHold' /\ RemotesApart'
    BY <1>0, <2>1 DEF OpenedLate, Sides, LocalsHold, RemotesApart, Local
  <2> QED
    BY <2>4, <2>5, <2>6
<1>3. ASSUME NEW w \in Runs, Writes(w) PROVE HandlesInv'
  <2>1. PICK s \in {"building", "built", "failing"}, f \in Files :
          /\ pc[w] = "building" /\ pc' = [pc EXCEPT ![w] = s]
          /\ f.by = file[handle[w]].by /\ file' = [file EXCEPT ![handle[w]] = f]
    BY <1>3 DEF Writes
  <2>2. UNCHANGED <<names, temps, temp, handle>>
    BY <1>3 DEF Writes
  <2>3. Fresh' /\ TempsApart' /\ RemotesApart' /\ OpenedLate'
    BY <1>0, <2>1, <2>2 DEF Fresh, TempsApart, Placed, RemotesApart, OpenedLate, NamesTypeOK
  <2>4. Sides'
    BY <1>0, <2>1 DEF Sides, Local, NamesTypeOK, Staging, Fetching
  <2>5. LocalsHold'
    BY <1>0, <2>1, <2>2 DEF LocalsHold, NamesTypeOK, BytesTypeOK
  <2> QED
    BY <2>3, <2>4, <2>5
<1>4. ASSUME NEW w \in Runs, Turns(w) PROVE HandlesInv'
  <2>1. PICK s \in Busy \union Ended : Turn(w, s) /\ pc' = [pc EXCEPT ![w] = s]
    BY <1>4 DEF Turns
  <2>2. UNCHANGED <<names, file, temps, handle>>
    BY <1>4 DEF Turns
  <2>3. \A v \in Runs : pc[v] # "admitted" => temp'[v] = temp[v]
    BY <1>0, <1>4 DEF Turns, NamesTypeOK
  <2>4. Fresh' /\ TempsApart'
    BY <1>0, <2>2 DEF Fresh, TempsApart, Placed
  <2>5. OpenedLate'
    BY <1>0, <2>1, <2>2 DEF OpenedLate, Turn, NamesTypeOK
  <2>6. RemotesApart'
    BY <1>0, <2>1, <2>2 DEF RemotesApart, Turn, NamesTypeOK
  <2>7. Sides'
    BY <1>0, <2>1 DEF Sides, Turn, Local, NamesTypeOK, Staging, Fetching
  <2>8. LocalsHold'
    BY <1>0, <2>1, <2>2, <2>3 DEF LocalsHold, Turn, NamesTypeOK
  <2> QED
    BY <2>4, <2>5, <2>6, <2>7, <2>8
<1>5. ASSUME NEW w \in Runs, Create(w) PROVE HandlesInv'
  <2> DEFINE i == Made(w, temps[temp[w]])
  <2>1. /\ temp[w] \in Temps /\ pc[w] = "staged" /\ handle[w] = Nothing
        /\ i \in Runs /\ ~Placed(i)
        /\ \A t \in Temps : temps[t] = i => t = temp[w]
        /\ \A v \in Runs : pc[v] \in {"building", "built", "verified", "filling"} => handle[v] # i
        /\ \A v \in Runs : v # w /\ handle[v] = Nothing => v # i
    BY <1>5, CreatedApart
  <2>2. /\ pc' = [pc EXCEPT ![w] = "building"] /\ names' = names /\ temp' = temp
        /\ handle' = [handle EXCEPT ![w] = i] /\ file' = [file EXCEPT ![i] = Blank(w)]
        /\ temps' = [temps EXCEPT ![temp[w]] = i]
    BY <1>5 DEF Create, Go, Opens
  <2>3. i # Nothing /\ i \in Inodes
    BY <2>1, NamesAssumption DEF Inodes
  <2> HIDE DEF i
  <2>4. handle'[w] = i /\ \A v \in Runs \ {w} : handle'[v] = handle[v] /\ pc'[v] = pc[v]
    BY <1>0, <2>2 DEF BytesTypeOK, NamesTypeOK
  <2>5. temps'[temp[w]] = i /\ \A t \in Temps \ {temp[w]} : temps'[t] = temps[t]
    BY <1>0, <2>1, <2>2 DEF NamesTypeOK
  <2>6. Fresh'
    BY <1>0, <2>1, <2>2, <2>3, <2>4, <2>5 DEF Fresh, Placed
  <2>7. OpenedLate' /\ Sides'
    BY <1>0, <2>1, <2>2, <2>4 DEF OpenedLate, Sides, Local, NamesTypeOK, Staging, Fetching
  <2>8. TempsApart'
    BY <1>0, <2>1, <2>2, <2>5 DEF TempsApart, Placed
  <2>9. \A v \in Runs \ {w} : pc[v] \in {"building", "built", "verified"} => temp[v] # temp[w]
    BY <1>0, <2>1 DEF StagedApart, Staging
  <2>10. LocalsHold'
    <3>1. file'[i] = Blank(w) /\ \A j \in Inodes \ {i} : file'[j] = file[j]
      BY <1>0, <2>2, <2>3 DEF BytesTypeOK
    <3>2. ASSUME NEW v \in Runs \ {w}, pc[v] \in {"building", "built", "verified"}
          PROVE  handle[v] # Nothing /\ temps'[temp[v]] = handle[v] /\ file'[handle[v]].by = v
      <4>1. temp[v] \in Temps /\ handle[v] \in Inodes /\ handle[v] # i
        BY <1>0, <2>1, <3>2 DEF RunsAreHosted, LocalsHold, BytesTypeOK, Staging
      <4> QED
        BY <1>0, <2>5, <2>9, <3>1, <3>2, <4>1 DEF LocalsHold
    <3>3. handle'[w] # Nothing /\ temps'[temp'[w]] = handle'[w] /\ file'[handle'[w]].by = w
      BY <2>2, <2>3, <2>4, <2>5, <3>1 DEF Blank
    <3> QED
      BY <2>2, <2>4, <3>2, <3>3 DEF LocalsHold
  <2>11. RemotesApart'
    BY <1>0, <2>1, <2>2, <2>4, <2>5 DEF RemotesApart, NamesTypeOK
  <2> QED
    BY <2>6, <2>7, <2>8, <2>10, <2>11
<1>6. ASSUME NEW w \in Runs, Commit(w) \/ CleanUp(w) PROVE HandlesInv'
  <2>1. PICK s \in {"ok", "failed"} :
          /\ pc[w] \in {"verified", "failing"} /\ pc' = [pc EXCEPT ![w] = s]
          /\ temps' = [temps EXCEPT ![temp[w]] = Nothing]
          /\ temp' = temp /\ handle' = handle /\ file' = file
    BY <1>6 DEF Commit, CleanUp, Go, work
  <2>2. temp[w] \in Temps
    BY <1>0, <2>1 DEF RunsAreHosted, Staging
  <2>3. temps'[temp[w]] = Nothing /\ \A t \in Temps \ {temp[w]} : temps'[t] = temps[t]
    BY <1>0, <2>1, <2>2 DEF NamesTypeOK
  <2>4. \A i \in Runs : Placed(i)' => Placed(i) \/ (i = temps[temp[w]])
    BY <1>0, <1>6 DEF Commit, CleanUp, Placed, BytesTypeOK
  <2>5. Nothing \notin Runs
    BY NamesAssumption DEF Inodes
  <2>6. Fresh'
    BY <1>0, <2>1, <2>2, <2>3, <2>4, <2>5 DEF Fresh
  <2>7. OpenedLate' /\ Sides'
    BY <1>0, <2>1 DEF OpenedLate, Sides, Local, NamesTypeOK, Staging, Fetching
  <2>8. TempsApart'
    BY <1>0, <2>2, <2>3, <2>4 DEF TempsApart, NamesTypeOK
  <2>9. LocalsHold'
    <3>1. \A v \in Runs \ {w} : pc[v] \in {"building", "built", "verified"}
            => temp[v] \in Temps /\ temp[v] # temp[w]
      BY <1>0, <2>1 DEF StagedApart, RunsAreHosted, Staging
    <3> QED
      BY <1>0, <2>1, <2>3, <3>1 DEF LocalsHold, NamesTypeOK
  <2>10. RemotesApart'
    BY <1>0, <2>1, <2>3 DEF RemotesApart, NamesTypeOK
  <2> QED
    BY <2>6, <2>7, <2>8, <2>9, <2>10
<1>7. ASSUME NEW w \in Runs, Truncate(w) PROVE HandlesInv'
  <2> DEFINE p == Leads(ask[w].output)
             i == Made(w, Inode(ask[w].output))
  <2>1. /\ p \in Places /\ i \in Inodes /\ i # Nothing
        /\ pc[w] = "fetched" /\ handle[w] = Nothing
        /\ i = w \/ Placed(i)
        /\ \A t \in Temps : temps[t] # i
        /\ \A v \in Runs : v # w /\ handle[v] = Nothing => v # i
    BY <1>7, TruncatedApart
  <2>2. /\ pc' = [pc EXCEPT ![w] = "filling"] /\ temps' = temps /\ temp' = temp
        /\ handle' = [handle EXCEPT ![w] = i] /\ file' = [file EXCEPT ![i] = Blank(w)]
        /\ names' = [names EXCEPT ![p] = i]
    BY <1>7 DEF Truncate, Go, Opens
  <2> HIDE DEF p, i
  <2>3. handle'[w] = i /\ \A v \in Runs \ {w} : handle'[v] = handle[v] /\ pc'[v] = pc[v]
    BY <1>0, <2>2 DEF BytesTypeOK, NamesTypeOK
  <2>4. \A j : Placed(j)' => Placed(j) \/ j = i
    BY <1>0, <2>1, <2>2 DEF Placed, BytesTypeOK
  <2>5. Fresh'
    BY <1>0, <2>1, <2>2, <2>3, <2>4 DEF Fresh
  <2>6. OpenedLate' /\ Sides'
    BY <1>0, <2>1, <2>2, <2>3 DEF OpenedLate, Sides, Local, NamesTypeOK, Staging, Fetching
  <2>7. TempsApart'
    BY <1>0, <2>1, <2>2, <2>4 DEF TempsApart
  <2>8. LocalsHold'
    <3>1. \A j \in Inodes \ {i} : file'[j] = file[j]
      BY <1>0, <2>1, <2>2 DEF BytesTypeOK
    <3>2. ASSUME NEW v \in Runs \ {w}, pc[v] \in {"building", "built", "verified"}
          PROVE  handle[v] \in Inodes \ {i}
      <4>1. temp[v] \in Temps /\ handle[v] \in Inodes /\ handle[v] = temps[temp[v]]
        BY <1>0, <3>2 DEF RunsAreHosted, LocalsHold, BytesTypeOK, Staging
      <4> QED
        BY <2>1, <4>1
    <3> QED
      BY <1>0, <2>2, <2>3, <3>1, <3>2 DEF LocalsHold, NamesTypeOK
  <2>9. RemotesApart'
    BY <1>0, <2>1, <2>2, <2>3 DEF RemotesApart, NamesTypeOK
  <2> QED
    BY <2>5, <2>6, <2>7, <2>8, <2>9
<1>8. ASSUME NEW w \in Runs, Fill(w) PROVE HandlesInv'
  <2>1. /\ pc[w] = "filling" /\ pc' = [pc EXCEPT ![w] = "ok"]
        /\ UNCHANGED <<names, temps, temp, handle>>
        /\ \E f : file' = [file EXCEPT ![handle[w]] = f]
    BY <1>8 DEF Fill, Go, Written, work
  <2>2. Fresh' /\ TempsApart' /\ RemotesApart' /\ OpenedLate'
    BY <1>0, <2>1 DEF Fresh, TempsApart, Placed, RemotesApart, OpenedLate, NamesTypeOK
  <2>3. Sides'
    BY <1>0, <2>1 DEF Sides, Local, NamesTypeOK, Staging, Fetching
  <2>4. LocalsHold'
    <3>1. \A v \in Runs \ {w} : pc[v] \in {"building", "built", "verified"}
            => handle[v] # handle[w]
      BY <1>0, <2>1 DEF RunsAreHosted, LocalsHold, RemotesApart, Staging
    <3>2. \A j \in Inodes : j # handle[w] => file'[j] = file[j]
      BY <1>0, <2>1 DEF BytesTypeOK
    <3> QED
      BY <1>0, <2>1, <3>1, <3>2 DEF LocalsHold, NamesTypeOK, BytesTypeOK
  <2> QED
    BY <2>2, <2>3, <2>4
<1>9. ASSUME NEW p \in Procs, Crash(p) PROVE HandlesInv'
  <2>1. /\ UNCHANGED <<names, file, temps, temp, handle>>
        /\ pc' = [w \in Runs |-> IF host[w] = p /\ pc[w] \in Busy THEN "killed" ELSE pc[w]]
    BY <1>9 DEF Crash, disk, work
  <2> QED
    BY <1>0, <2>1
       DEF Fresh, OpenedLate, TempsApart, Sides, LocalsHold, RemotesApart, Placed, Local, Staging,
           Fetching
<1> QED
  BY <1>0, <1>1, <1>2, <1>3, <1>4, <1>5, <1>6, <1>7, <1>8, <1>9 DEF Byting

(* What a run that said so made is not taken back. *)
LEMMA DoneStaysDone ==
  ASSUME NamesInv, BytesInv, Byting, NEW w \in Runs, pc[w] = "ok"
  PROVE  pc'[w] = "ok" /\ expected'[w] = expected[w]
<1>0. NamesTypeOK /\ BytesTypeOK
  BY DEF NamesInv, BytesInv
<1>1. CASE Idles
  BY <1>1 DEF Idles
<1>2. ASSUME NEW m \in Members, Goes(m) \/ Comes(m)
      PROVE  pc'[w] = "ok" /\ expected'[w] = expected[w]
  BY <1>2 DEF Goes, Comes, Moves, work
<1>3. ASSUME NEW v \in Runs, Writes(v) PROVE pc'[w] = "ok" /\ expected'[w] = expected[w]
  BY <1>0, <1>3 DEF Writes, NamesTypeOK
<1>4. ASSUME NEW v \in Runs, Turns(v) PROVE pc'[w] = "ok" /\ expected'[w] = expected[w]
  BY <1>0, <1>4 DEF Turns, Turn, NamesTypeOK, BytesTypeOK
<1>5. ASSUME NEW v \in Runs, Create(v) \/ Commit(v) \/ CleanUp(v) \/ Truncate(v) \/ Fill(v)
      PROVE  pc'[w] = "ok" /\ expected'[w] = expected[w]
  BY <1>0, <1>5 DEF Create, Commit, CleanUp, Truncate, Fill, Go, work, NamesTypeOK
<1>6. ASSUME NEW p \in Procs, Crash(p) PROVE pc'[w] = "ok" /\ expected'[w] = expected[w]
  BY <1>6 DEF Crash, work, Busy, Staging, Fetching
<1> QED
  BY <1>1, <1>2, <1>3, <1>4, <1>5, <1>6 DEF Byting

(* Files that are not written to stay sound. *)
LEMMA UntouchedIsSound ==
  ASSUME NamesInv, BytesInv, Byting, ask' = ask, NEW i \in Inodes, Sound(i), file'[i] = file[i]
  PROVE  Sound(i)'
<1>1. CASE file[i].by = User /\ file[i].state = "whole"
  BY <1>1 DEF Sound
<1>2. CASE file[i].by \in Runs /\ ~Local(file[i].by)
  BY <1>2 DEF Sound, Local
<1>3. CASE file[i].by \in Runs /\ Local(file[i].by) /\ pc[file[i].by] = "ok"
             /\ Promised(file[i].by, file[i])
  <2>1. pc'[file[i].by] = "ok" /\ expected'[file[i].by] = expected[file[i].by]
    BY <1>3, DoneStaysDone
  <2> QED
    BY <1>3, <2>1 DEF Sound, Local, Promised, DamageShows
<1> QED
  BY <1>1, <1>2, <1>3 DEF Sound

(* What is verified stays what was promised until it is published, and what is
   at a name was. *)
LEMMA SoundKeeps == NamesInv /\ BytesInv /\ [Next]_vars => VerifiedIsPromised' /\ PlacesAreSound'
<1> SUFFICES ASSUME NamesInv, BytesInv, [Next]_vars
             PROVE  VerifiedIsPromised' /\ PlacesAreSound'
  OBVIOUS
<1>0. /\ NamesTypeOK /\ RunsAreHosted /\ StagedApart /\ BytesTypeOK
      /\ Fresh /\ OpenedLate /\ TempsApart /\ Sides /\ LocalsHold /\ RemotesApart
      /\ VerifiedIsPromised /\ PlacesAreSound
      /\ Byting /\ ask' = ask
  BY StepsByte, BytesTypes DEF NamesInv, BytesInv, HandlesInv
<1>a. ASSUME NEW touched,
             \A i \in Inodes : i # touched => file'[i] = file[i],
             \A i \in Inodes : i # touched /\ Placed(i)' => i \notin Runs \/ Placed(i),
             touched \in Inodes => Sound(touched)' \/ (touched \in Runs /\ ~Placed(touched)')
      PROVE  PlacesAreSound'
  BY <1>0, <1>a, UntouchedIsSound DEF PlacesAreSound
<1>b. ASSUME NEW touched,
             \A i \in Inodes : i # touched => file'[i] = file[i],
             \A v \in Runs : pc'[v] = "verified" =>
               /\ pc[v] = "verified" /\ expected'[v] = expected[v]
               /\ handle'[v] = handle[v] /\ handle[v] # touched
      PROVE  VerifiedIsPromised'
  <2> SUFFICES ASSUME NEW v \in Runs, pc'[v] = "verified"
               PROVE  Promised(v, file[handle[v]])'
    BY DEF VerifiedIsPromised
  <2>1. handle[v] \in Inodes /\ Promised(v, file[handle[v]])
    BY <1>0, <1>b DEF LocalsHold, VerifiedIsPromised, BytesTypeOK
  <2> QED
    BY <1>0, <1>b, <2>1 DEF Promised, DamageShows
<1>c. \A v \in Runs : pc[v] \in {"building", "built", "verified"} =>
        /\ temp[v] \in Temps /\ handle[v] = temps[temp[v]]
        /\ handle[v] \in Runs /\ handle[v] \in Inodes /\ ~Placed(handle[v])
  BY <1>0 DEF RunsAreHosted, Staging, LocalsHold, NamesTypeOK, TempsApart, Inodes
<1>d. \A v, w \in Runs : /\ pc[v] \in {"building", "built", "verified"}
                         /\ pc[w] \in {"building", "built", "verified"}
                         /\ handle[v] = handle[w]
                         => v = w
  BY <1>0, <1>c DEF TempsApart, StagedApart, Staging, LocalsHold
<1>1. CASE Idles
  BY <1>0, <1>1, <1>a, <1>b, UntouchedIsSound
     DEF Idles, VerifiedIsPromised, PlacesAreSound, Placed, Promised, DamageShows
<1>2. ASSUME NEW m \in Members, Goes(m) \/ Comes(m)
      PROVE  VerifiedIsPromised' /\ PlacesAreSound'
  <2>1. /\ UNCHANGED <<file, handle, pc, expected>>
        /\ \E i \in {m, Nothing} : names' = [names EXCEPT ![m] = i]
    BY <1>2 DEF Goes, Comes, Moves, work
  <2>2. \A i \in Inodes : Placed(i)' => i \notin Runs \/ Placed(i)
    BY <1>0, <2>1, NamesAssumption DEF Placed, BytesTypeOK, Inodes
  <2>3. VerifiedIsPromised'
    BY <1>0, <2>1 DEF VerifiedIsPromised, Promised, DamageShows
  <2>4. PlacesAreSound'
    BY <1>0, <2>1, <2>2, UntouchedIsSound DEF PlacesAreSound
  <2> QED
    BY <2>3, <2>4
<1>3. ASSUME NEW w \in Runs, Writes(w) PROVE VerifiedIsPromised' /\ PlacesAreSound'
  <2>1. PICK s \in {"building", "built", "failing"}, f \in Files :
          /\ pc[w] = "building" /\ pc' = [pc EXCEPT ![w] = s]
          /\ f.by = file[handle[w]].by /\ file' = [file EXCEPT ![handle[w]] = f]
    BY <1>3 DEF Writes
  <2>2. UNCHANGED <<names, handle, expected>>
    BY <1>3 DEF Writes
  <2>3. \A i \in Inodes : i # handle[w] => file'[i] = file[i]
    BY <1>0, <2>1 DEF BytesTypeOK
  <2>4. handle[w] \in Runs /\ ~Placed(handle[w]) /\ \A i : Placed(i)' = Placed(i)
    BY <1>c, <2>1, <2>2 DEF Placed
  <2>5. PlacesAreSound'
    BY <1>a, <2>3, <2>4
  <2>6. \A v \in Runs : pc'[v] = "verified" => pc[v] = "verified" /\ handle[v] # handle[w]
    BY <1>0, <1>d, <2>1 DEF NamesTypeOK
  <2>7. VerifiedIsPromised'
    BY <1>b, <2>2, <2>3, <2>6
  <2> QED
    BY <2>5, <2>7
<1>4. ASSUME NEW w \in Runs, Turns(w) PROVE VerifiedIsPromised' /\ PlacesAreSound'
  <2>1. PICK s \in Busy \union Ended : Turn(w, s) /\ pc' = [pc EXCEPT ![w] = s]
    BY <1>4 DEF Turns
  <2>2. UNCHANGED <<names, file, handle>>
    BY <1>4 DEF Turns
  <2>3. PlacesAreSound'
    BY <1>0, <2>2, UntouchedIsSound DEF PlacesAreSound, Placed
  <2>4. ASSUME NEW v \in Runs, pc'[v] = "verified" PROVE Promised(v, file[handle[v]])'
    <3>1. expected'[v] = expected[v]
      BY <1>0, <1>4, <2>1, <2>4 DEF Turns, Turn, NamesTypeOK, BytesTypeOK
    <3>2. CASE pc[v] = "verified"
      BY <1>0, <2>2, <3>1, <3>2 DEF VerifiedIsPromised, Promised, DamageShows
    <3>3. CASE pc[v] # "verified"
      <4>1. v = w /\ pc[w] = "built" /\ Verifies(w)
        BY <1>0, <2>1, <2>4, <3>3 DEF Turn, NamesTypeOK
      <4>2. handle[w] = temps[temp[w]]
        BY <1>c, <4>1
      <4>3. Promised(w, file[handle[w]])
        BY <4>1, <4>2 DEF Verifies, Promised
      <4> QED
        BY <1>0, <2>2, <3>1, <4>1, <4>3 DEF Promised, DamageShows
    <3> QED
      BY <3>2, <3>3
  <2> QED
    BY <2>3, <2>4 DEF VerifiedIsPromised
<1>5. ASSUME NEW w \in Runs, Create(w) PROVE VerifiedIsPromised' /\ PlacesAreSound'
  <2> DEFINE i == Made(w, temps[temp[w]])
  <2>1. /\ i \in Runs /\ ~Placed(i)
        /\ \A v \in Runs : pc[v] = "verified" => handle[v] # i
    BY <1>5, CreatedApart
  <2>2. /\ pc' = [pc EXCEPT ![w] = "building"] /\ names' = names /\ expected' = expected
        /\ handle' = [handle EXCEPT ![w] = i] /\ file' = [file EXCEPT ![i] = Blank(w)]
    BY <1>5 DEF Create, Go, Opens
  <2> HIDE DEF i
  <2>3. \A j \in Inodes : j # i => file'[j] = file[j]
    BY <1>0, <2>2 DEF BytesTypeOK
  <2>4. \A j : Placed(j)' = Placed(j)
    BY <2>2 DEF Placed
  <2>5. \A v \in Runs : pc'[v] = "verified" =>
          pc[v] = "verified" /\ handle'[v] = handle[v] /\ handle[v] # i
    BY <1>0, <2>1, <2>2 DEF NamesTypeOK, BytesTypeOK
  <2> QED
    BY <1>a, <1>b, <2>1, <2>2, <2>3, <2>4, <2>5
<1>6. ASSUME NEW w \in Runs, Commit(w) PROVE VerifiedIsPromised' /\ PlacesAreSound'
  <2>1. /\ pc[w] = "verified" /\ pc' = [pc EXCEPT ![w] = "ok"]
        /\ names' = [names EXCEPT ![ask[w].output] = temps[temp[w]]]
        /\ UNCHANGED <<file, handle, expected>>
    BY <1>6 DEF Commit, Go, work
  <2>2. handle[w] = temps[temp[w]] /\ handle[w] \in Inodes
    BY <1>c, <2>1
  <2>3. \A j \in Inodes : Placed(j)' => Placed(j) \/ j = handle[w]
    BY <1>0, <2>1, <2>2 DEF Placed, BytesTypeOK
  <2>4. Sound(handle[w])'
    <3>1. file[handle[w]].by = w /\ Local(w) /\ Promised(w, file[handle[w]])
      BY <1>0, <2>1 DEF LocalsHold, Sides, Staging, VerifiedIsPromised
    <3>2. pc'[w] = "ok"
      BY <1>0, <2>1 DEF NamesTypeOK
    <3> QED
      BY <1>0, <2>1, <3>1, <3>2 DEF Sound, Local, Promised, DamageShows
  <2>5. PlacesAreSound'
    BY <1>a, <2>1, <2>3, <2>4
  <2>6. VerifiedIsPromised'
    BY <1>0, <2>1 DEF VerifiedIsPromised, Promised, DamageShows, NamesTypeOK
  <2> QED
    BY <2>5, <2>6
<1>7. ASSUME NEW w \in Runs, CleanUp(w) PROVE VerifiedIsPromised' /\ PlacesAreSound'
  <2>1. pc' = [pc EXCEPT ![w] = "failed"] /\ UNCHANGED <<names, file, handle, expected>>
    BY <1>7 DEF CleanUp, Go, work
  <2>2. VerifiedIsPromised'
    BY <1>0, <2>1 DEF VerifiedIsPromised, Promised, DamageShows, NamesTypeOK
  <2>3. PlacesAreSound'
    BY <1>0, <2>1, UntouchedIsSound DEF PlacesAreSound, Placed
  <2> QED
    BY <2>2, <2>3
<1>8. ASSUME NEW w \in Runs, Truncate(w) PROVE VerifiedIsPromised' /\ PlacesAreSound'
  <2>1. PICK p \in Places, i \in Inodes :
          /\ p = Leads(ask[w].output) /\ i = Made(w, Inode(ask[w].output))
          /\ pc[w] = "fetched" /\ \A t \in Temps : temps[t] # i
    BY <1>8, TruncatedApart
  <2>2. /\ pc' = [pc EXCEPT ![w] = "filling"] /\ expected' = expected
        /\ handle' = [handle EXCEPT ![w] = i] /\ file' = [file EXCEPT ![i] = Blank(w)]
        /\ names' = [names EXCEPT ![p] = i]
    BY <1>8, <2>1 DEF Truncate, Go, Opens
  <2>3. \A j \in Inodes : j # i => file'[j] = file[j]
    BY <1>0, <2>2 DEF BytesTypeOK
  <2>4. \A j : j # i /\ Placed(j)' => Placed(j)
    BY <1>0, <2>1, <2>2 DEF Placed, BytesTypeOK
  <2>5. Sound(i)'
    <3>1. ~Local(w) /\ file'[i].by = w
      BY <1>0, <2>1, <2>2 DEF Sides, Fetching, BytesTypeOK, Blank
    <3> QED
      BY <1>0, <3>1 DEF Sound, Local
  <2>6. \A v \in Runs : pc'[v] = "verified" =>
          pc[v] = "verified" /\ handle'[v] = handle[v] /\ handle[v] # i
    BY <1>0, <1>c, <2>1, <2>2 DEF NamesTypeOK, BytesTypeOK
  <2> QED
    BY <1>a, <1>b, <2>2, <2>3, <2>4, <2>5, <2>6
<1>9. ASSUME NEW w \in Runs, Fill(w) PROVE VerifiedIsPromised' /\ PlacesAreSound'
  <2>1. PICK s \in {"whole", "open"} :
          file' = [file EXCEPT ![handle[w]] = [Blank(w) EXCEPT !.state = s, !.holds = expected[w]]]
    BY <1>9 DEF Fill, Written
  <2>2. pc[w] = "filling" /\ pc' = [pc EXCEPT ![w] = "ok"] /\ UNCHANGED <<names, handle, expected>>
    BY <1>9 DEF Fill, Go, work
  <2>3. handle[w] \in Inodes
    BY <1>0, <2>2 DEF RemotesApart, BytesTypeOK
  <2>4. \A j \in Inodes : j # handle[w] => file'[j] = file[j]
    BY <1>0, <2>1 DEF BytesTypeOK
  <2>5. Sound(handle[w])'
    <3>1. ~Local(w) /\ file'[handle[w]].by = w
      BY <1>0, <2>1, <2>2, <2>3 DEF Sides, Fetching, BytesTypeOK, Blank
    <3> QED
      BY <1>0, <2>2, <3>1 DEF Sound, Local
  <2>6. \A v \in Runs : pc'[v] = "verified" => pc[v] = "verified" /\ handle[v] # handle[w]
    BY <1>0, <1>c, <2>2 DEF RemotesApart, NamesTypeOK
  <2>7. \A j : Placed(j)' = Placed(j)
    BY <2>2 DEF Placed
  <2> QED
    BY <1>a, <1>b, <2>2, <2>4, <2>5, <2>6, <2>7
<1>10. ASSUME NEW p \in Procs, Crash(p) PROVE VerifiedIsPromised' /\ PlacesAreSound'
  <2>1. /\ UNCHANGED <<names, file, handle, expected>>
        /\ pc' = [w \in Runs |-> IF host[w] = p /\ pc[w] \in Busy THEN "killed" ELSE pc[w]]
    BY <1>10 DEF Crash, disk, work
  <2>2. VerifiedIsPromised'
    BY <1>0, <2>1 DEF VerifiedIsPromised, Promised, DamageShows
  <2>3. PlacesAreSound'
    BY <1>0, <2>1, UntouchedIsSound DEF PlacesAreSound, Placed
  <2> QED
    BY <2>2, <2>3
<1> QED
  BY <1>0, <1>1, <1>2, <1>3, <1>4, <1>5, <1>6, <1>7, <1>8, <1>9, <1>10 DEF Byting

StagedInv == NamesInv /\ BytesInv

(* Names, handles and bytes, over a whole behaviour. *)
LEMMA StagedInvHolds == Spec => []StagedInv
<1>1. Init => BytesInv
  <2> SUFFICES ASSUME Init PROVE BytesInv
    OBVIOUS
  <2> USE DEF Init
  <2>1. 0 \in 0..MaxFaults /\ 0 \in 0..MaxChanges
    BY BoundsAssumption
  <2>2. \A w \in Runs, p \in Places : names[p] # w
    BY NamesAssumption DEF Inodes
  <2>3. BytesTypeOK
    <3>1. names \in [Places -> Inodes \union {Nothing}]
      BY NamesAssumption DEF Places, Inodes
    <3>2. file \in [Inodes -> Files]
      BY DEF Blank, Files
    <3> QED
      BY <2>1, <3>1, <3>2 DEF BytesTypeOK
  <2>4. Fresh
    BY <2>2, NamesAssumption DEF Fresh, Placed, Inodes
  <2>5. OpenedLate /\ TempsApart /\ LocalsHold /\ RemotesApart
    BY DEF OpenedLate, TempsApart, LocalsHold, RemotesApart
  <2>6. Sides /\ VerifiedIsPromised
    BY DEF Sides, VerifiedIsPromised, Staging, Fetching
  <2>7. PlacesAreSound
    BY <2>2 DEF PlacesAreSound, Sound, Placed, Blank, Inodes
  <2> QED
    BY <2>3, <2>4, <2>5, <2>6, <2>7 DEF BytesInv, HandlesInv
<1>2. NamesInv /\ BytesInv /\ [Next]_vars => BytesInv'
  BY BytesTypes, HandlesKeep, SoundKeeps DEF BytesInv
<1> QED
  BY <1>1, <1>2, NamesInvHolds, PTL DEF Spec, StagedInv

(* Every name a person knows leads, at any moment, to a whole file, unless a
   remote run wrote it. *)
THEOREM NamesLeadToWholeFiles == Spec => []OutputIsWhole
<1>1. StagedInv => OutputIsWhole
  <2> SUFFICES ASSUME StagedInv, NEW p \in Places, Exists(p)
               PROVE  \/ file[Inode(p)].state = "whole"
                      \/ MadeBy(p) \in Runs /\ ~Local(MadeBy(p))
    BY DEF OutputIsWhole
  <2>1. Inode(p) \in Inodes /\ Placed(Inode(p))
    BY NamesAssumption DEF Exists, Inode, Leads, Placed, StagedInv, BytesInv, BytesTypeOK, Places
  <2>2. Sound(Inode(p))
    BY <2>1 DEF StagedInv, BytesInv, PlacesAreSound
  <2> QED
    BY <2>2 DEF Sound, MadeBy, Promised
<1> QED
  BY <1>1, StagedInvHolds, PTL

(* Nothing a local run made is published unless the run said so, with exactly
   the names its first walk found and data as sound as it could tell. *)
THEOREM PublishedAsAsked == Spec => []PublishedIsWhatWasAsked
<1>1. StagedInv => PublishedIsWhatWasAsked
  <2> SUFFICES ASSUME StagedInv, NEW p \in Places, Exists(p), NEW w \in Runs,
                      MadeBy(p) = w, Local(w)
               PROVE  /\ pc[w] = "ok" /\ file[Inode(p)].holds = expected[w]
                      /\ file[Inode(p)].damaged => ~DamageShows(w)
    BY DEF PublishedIsWhatWasAsked
  <2>1. Inode(p) \in Inodes /\ Placed(Inode(p))
    BY NamesAssumption DEF Exists, Inode, Leads, Placed, StagedInv, BytesInv, BytesTypeOK, Places
  <2>2. Sound(Inode(p))
    BY <2>1 DEF StagedInv, BytesInv, PlacesAreSound
  <2> QED
    BY <2>2, NamesAssumption DEF Sound, MadeBy, Promised
<1> QED
  BY <1>1, StagedInvHolds, PTL

(* Names, files, handles and processes stay well typed; the serial numbers do
   not run out. *)
THEOREM TypeCorrect == Spec => []TypeOK
<1>1. StagedInv => TypeOK
  <2> SUFFICES ASSUME StagedInv PROVE TypeOK
    OBVIOUS
  <2>1. NamesTypeOK /\ SerialsAreGiven /\ BytesTypeOK
    BY DEF StagedInv, NamesInv, BytesInv
  <2>2. serial \in [Procs -> Serials]
    BY <2>1, NumbersSuffice DEF NamesTypeOK
  <2>3. temps \in [Temps -> Inodes \union {Nothing}]
    BY <2>1 DEF NamesTypeOK, Inodes
  <2> QED
    BY <2>1, <2>2, <2>3 DEF TypeOK, NamesTypeOK, BytesTypeOK, Files
<1> QED
  BY <1>1, StagedInvHolds, PTL

=============================================================================

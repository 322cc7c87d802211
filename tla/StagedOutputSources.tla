------------------------- MODULE StagedOutputSources -------------------------
(***************************************************************************)
(* What a run reads is never replaced by what it writes: the guards look   *)
(* once, at the beginning, at a folder that goes on changing under them.   *)
(* And at Dest the runs do what AtomicOutput says, step by step.           *)
(***************************************************************************)
EXTENDS StagedOutputProofs

(* What a run saw of its source. *)
Protected(w) == {m \in seen[w] : ask[w].source \in {m, Folder}}

(* A file at none of these names, nor one that a name may come back to. *)
Clear(w, j) == \A m \in Protected(w) : names[m] # j /\ (j = m => names[m] \in Runs)

(* A member is itself, gone, or replaced by an archive. *)
MembersAreTheirOwn == \A m \in Members : names[m] \in {m, Nothing} \union Runs

OutputsAreNoSources ==
  \A w \in Runs : pc[w] \notin {"new", "refused"} => ask[w].output \notin Protected(w)

(* What a remote result will be written over, *)
TargetsAreClear ==
  \A w \in Runs : pc[w] \in {"fetching", "fetched"} =>
    /\ Leads(ask[w].output) \notin Protected(w)
    /\ Exists(ask[w].output) => Clear(w, Inode(ask[w].output))

(* is being written over, *)
OpenedIsClear == \A w \in Runs : pc[w] = "filling" => Clear(w, handle[w])

(* and all that was ever written. *)
WrittenIsClear ==
  \A w \in Runs, i \in Inodes : file[i].by = w => handle[w] # Nothing /\ Clear(w, i)

SourcesInv ==
  /\ MembersAreTheirOwn /\ OutputsAreNoSources
  /\ TargetsAreClear /\ OpenedIsClear /\ WrittenIsClear

(* The steps that move no name, look at nothing and open nothing. *)
Continues(v) ==
  /\ pc'[v] \notin {"new", "refused"} => pc[v] \notin {"new", "refused"}
  /\ pc'[v] \in {"fetching", "fetched"} => pc[v] \in {"fetching", "fetched"}
  /\ pc'[v] = "filling" => pc[v] = "filling"

Quiet ==
  /\ UNCHANGED <<names, link, seen, handle>>
  /\ \A i \in Inodes : file'[i].by = file[i].by
  /\ \A v \in Runs : Continues(v)

(* Every step is quiet, or one of these. *)
LEMMA StepsAreQuiet ==
  ASSUME StagedInv, [Next]_vars
  PROVE  \/ Quiet
         \/ \E m \in Members : Goes(m) \/ Comes(m)
         \/ \E w \in Runs : Begin(w) \/ Create(w) \/ Commit(w) \/ Truncate(w) \/ Fill(w)
<1>0. NamesTypeOK /\ BytesTypeOK /\ NamesInv /\ BytesInv
  BY DEF StagedInv, NamesInv, BytesInv
<1>1. CASE UNCHANGED vars
  BY <1>1 DEF vars, disk, proc, work, Quiet, Continues
<1>2. ASSUME NEW w \in Runs,
             WriteMember(w) \/ MemberIsGone(w) \/ BuildFails(w) \/ Damage(w) \/ Finish(w)
      PROVE  Quiet
  <2>1. Writes(w)
    BY <1>0, <1>2, WritersWrite
  <2>2. UNCHANGED <<names, link, seen, handle>>
    BY <1>2 DEF WriteMember, MemberIsGone, BuildFails, Damage, Finish, work
  <2>3. \A i \in Inodes : file'[i].by = file[i].by
    BY <1>0, <2>1 DEF Writes, BytesTypeOK
  <2>4. \A v \in Runs : Continues(v)
    BY <1>0, <2>1 DEF Writes, NamesTypeOK, Continues
  <2> QED
    BY <2>2, <2>3, <2>4 DEF Quiet
<1>3. ASSUME NEW w \in Runs,
             Stage(w) \/ CreateFails(w) \/ Loses(w) \/ Verify(w) \/ CommitFails(w) \/ CleanUp(w)
               \/ CleanUpFails(w) \/ Fetch(w) \/ FetchFails(w) \/ FillFails(w)
      PROVE  Quiet
  <2>1. UNCHANGED <<names, link, seen, handle, file>>
    BY <1>3
       DEF Stage, CreateFails, Loses, Verify, CommitFails, CleanUp, CleanUpFails, Fetch,
           FetchFails, FillFails, disk, work
  <2>2. \A v \in Runs : Continues(v)
    BY <1>0, <1>3
       DEF Stage, CreateFails, Loses, Verify, CommitFails, CleanUp, CleanUpFails, Fetch,
           FetchFails, FillFails, Go, NamesTypeOK, Continues
  <2> QED
    BY <2>1, <2>2 DEF Quiet
<1>4. ASSUME NEW p \in Procs, Crash(p) PROVE Quiet
  BY <1>0, <1>4 DEF Crash, disk, work, NamesTypeOK, Quiet, Continues, Busy, Staging, Fetching
<1> QED
  BY <1>1, <1>2, <1>3, <1>4 DEF Next, Compresses, Fetches

(* Outputs and what they lead to are places; sources and outputs of one run do
   not depend on the others. *)
LEMMA Asked ==
  ASSUME BytesTypeOK, NEW w \in Runs
  PROVE  /\ ask[w].output \in Places /\ Leads(ask[w].output) \in Places
         /\ ask[w].source \in Members \union {Folder}
         /\ Protected(w) \subseteq Members
<1>1. ask[w].output \in Places /\ ask[w].source \in Members \union {Folder}
  BY RequestsAssumption DEF BytesTypeOK
<1>2. Leads(ask[w].output) \in Places
  BY <1>1, NamesAssumption DEF Leads, BytesTypeOK, Places
<1>3. Protected(w) \subseteq Members
  BY DEF Protected, BytesTypeOK
<1> QED
  BY <1>1, <1>2, <1>3

(* One name moves: a file stays clear unless it is that name that comes to
   lead to it. *)
LEMMA ClearKeeps ==
  ASSUME BytesTypeOK, seen' = seen, ask' = ask, NEW p \in Places,
         \A q \in Places \ {p} : names'[q] = names[q]
  PROVE  \A w \in Runs : \A j \in Inodes :
           /\ Clear(w, j)
           /\ p \in Protected(w) => names'[p] # j /\ (j = p => names'[p] \in Runs)
           => Clear(w, j)'
<1> SUFFICES ASSUME NEW w \in Runs, NEW j \in Inodes, Clear(w, j),
                    p \in Protected(w) => names'[p] # j /\ (j = p => names'[p] \in Runs)
             PROVE  Clear(w, j)'
  OBVIOUS
<1>1. Protected(w)' = Protected(w) /\ Protected(w) \subseteq Places
  BY Asked DEF Protected, Places
<1> QED
  BY <1>1 DEF Clear

(* What a run is let begin with is apart, by name and by identity, from what it
   reads. *)
LEMMA AdmittedApart ==
  ASSUME BytesTypeOK, MembersAreTheirOwn, NEW w \in Runs, ~Refused(ask[w])
  PROVE  LET there == {m \in Members : names[m] # Nothing /\ ask[w].source \in {m, Folder}}
             i     == Inode(ask[w].output) IN
         /\ ask[w].output \notin there /\ Leads(ask[w].output) \notin there
         /\ Exists(ask[w].output) =>
              \A m \in there : names[m] # i /\ (i = m => names[m] \in Runs)
<1> DEFINE there == {m \in Members : names[m] # Nothing /\ ask[w].source \in {m, Folder}}
           o == ask[w].output
           i == Inode(o)
<1>0. o \in Places /\ Leads(o) \in Places
  BY Asked
<1>1. \A m \in Members : Leads(m) = m /\ Inode(m) = names[m] /\ (Exists(m) <=> names[m] # Nothing)
  BY NamesAssumption DEF Leads, Inode, Exists
<1>2. CASE ~Exists(o)
  <2>1. names[Leads(o)] = Nothing
    BY <1>2 DEF Exists, Inode
  <2>2. o \in Members => Leads(o) = o
    BY <1>1
  <2> QED
    BY <1>2, <2>1, <2>2
<1>3. CASE Exists(o)
  <2>1. ASSUME NEW m \in there
        PROVE  ~SameFile(m, o) /\ m # o /\ m # Leads(o)
    <3>1. m \in Members /\ names[m] # Nothing /\ Exists(m)
      BY <1>1, <2>1
    <3>2. CASE ask[w].source = m
      <4>1. m # Folder
        BY <3>1, NamesAssumption DEF Places
      <4>2. ~SameFile(m, o)
        BY <1>3, <3>2, <4>1 DEF Refused
      <4> QED
        BY <1>1, <1>3, <3>1, <4>2 DEF SameFile
    <3>3. CASE ask[w].source = Folder
      <4>1. ~Inside(o)
        BY <1>3, <3>3 DEF Refused
      <4>2. ~SameFile(m, o)
        BY <1>3, <3>1, <4>1 DEF Inside, SharesAFileWithTree
      <4> QED
        BY <1>1, <1>3, <3>1, <4>2 DEF SameFile
    <3> QED
      BY <2>1, <3>2, <3>3
  <2>2. ASSUME NEW m \in there PROVE names[m] # i /\ (i = m => names[m] \in Runs)
    <3>1. names[m] # i
      BY <1>1, <1>3, <2>1, <2>2 DEF SameFile
    <3> QED
      BY <2>2, <3>1 DEF MembersAreTheirOwn
  <2> QED
    BY <2>1, <2>2
<1> QED
  BY <1>2, <1>3

(* Whatever the folder becomes between the guards and the write, and whatever
   other runs publish in it, what is written stays apart from what was read. *)
LEMMA SourcesKeep == StagedInv /\ SourcesInv /\ [Next]_vars => SourcesInv'
<1> SUFFICES ASSUME StagedInv, SourcesInv, [Next]_vars PROVE SourcesInv'
  OBVIOUS
<1>0. /\ NamesTypeOK /\ RunsAreHosted /\ StagedApart /\ BytesTypeOK /\ NamesInv /\ BytesInv
      /\ Fresh /\ OpenedLate /\ TempsApart /\ Sides /\ LocalsHold /\ RemotesApart
      /\ MembersAreTheirOwn /\ OutputsAreNoSources /\ TargetsAreClear /\ OpenedIsClear
      /\ WrittenIsClear
  BY DEF StagedInv, NamesInv, BytesInv, HandlesInv, SourcesInv
<1>a. ask' = ask /\ BytesTypeOK'
  BY <1>0, BytesTypes
<1>b. Nothing \notin Inodes /\ Runs \subseteq Inodes /\ Members \subseteq Inodes
      /\ Members \subseteq Places /\ Runs \intersect Members = {} /\ Dest \in Places
      /\ Dest \notin Members
  BY NamesAssumption DEF Inodes, Places
<1>1. CASE Quiet
  <2>1. \A w \in Runs : /\ Protected(w)' = Protected(w)
                        /\ Leads(ask[w].output)' = Leads(ask[w].output)
                        /\ Inode(ask[w].output)' = Inode(ask[w].output)
                        /\ Exists(ask[w].output)' = Exists(ask[w].output)
    BY <1>1, <1>a DEF Quiet, Protected, Leads, Inode, Exists
  <2>2. \A w \in Runs : \A j \in Inodes : Clear(w, j) => Clear(w, j)'
    BY <1>1, <2>1 DEF Quiet, Clear
  <2>3. MembersAreTheirOwn' /\ OutputsAreNoSources'
    BY <1>0, <1>1, <1>a, <2>1 DEF Quiet, Continues, MembersAreTheirOwn, OutputsAreNoSources
  <2>4. TargetsAreClear'
    BY <1>0, <1>1, <1>a, <2>1 DEF Quiet, Continues, TargetsAreClear, Clear
  <2>5. OpenedIsClear'
    BY <1>0, <1>1, <2>1 DEF Quiet, Continues, OpenedIsClear, Clear
  <2>6. WrittenIsClear'
    BY <1>0, <1>1, <2>2 DEF Quiet, WrittenIsClear
  <2> QED
    BY <2>3, <2>4, <2>5, <2>6 DEF SourcesInv
<1>2. ASSUME NEW m \in Members, Goes(m) \/ Comes(m) PROVE SourcesInv'
  <2>1. /\ UNCHANGED <<link, file, handle, pc, seen>>
        /\ names' = [names EXCEPT ![m] = IF names[m] = m THEN Nothing ELSE m]
        /\ names[m] \in {m, Nothing}
    BY <1>2, <1>b DEF Goes, Comes, Moves, work
  <2>2. /\ \A q \in Places \ {m} : names'[q] = names[q]
        /\ names'[m] = IF names[m] = m THEN Nothing ELSE m
    BY <1>0, <1>b, <2>1 DEF BytesTypeOK
  <2>3. \A w \in Runs : \A j \in Inodes : Clear(w, j) => Clear(w, j)'
    <3>1. \A w \in Runs : \A j \in Inodes : Clear(w, j) /\ m \in Protected(w)
            => names'[m] # j /\ j # m
      BY <1>b, <2>1, <2>2 DEF Clear
    <3> QED
      BY <1>0, <1>a, <1>b, <2>1, <2>2, <3>1, ClearKeeps
  <2>4. \A w \in Runs : Protected(w)' = Protected(w)
    BY <1>a, <2>1 DEF Protected
  <2>5. MembersAreTheirOwn' /\ OutputsAreNoSources'
    BY <1>0, <1>a, <1>b, <2>1, <2>2, <2>4 DEF MembersAreTheirOwn, OutputsAreNoSources
  <2>6. TargetsAreClear'
    <3> SUFFICES ASSUME NEW w \in Runs, pc[w] \in {"fetching", "fetched"}
                 PROVE  /\ (Leads(ask[w].output) \notin Protected(w))'
                        /\ Exists(ask[w].output)' => Clear(w, Inode(ask[w].output))'
      BY <2>1 DEF TargetsAreClear
    <3> DEFINE p == Leads(ask[w].output)
    <3>1. p \in Places /\ p \notin Protected(w)
          /\ (names[p] # Nothing => Clear(w, names[p]))
      BY <1>0, Asked DEF TargetsAreClear, Exists, Inode
    <3>2. /\ Leads(ask[w].output)' = p /\ Inode(ask[w].output)' = names'[p]
          /\ Exists(ask[w].output)' <=> names'[p] # Nothing
      BY <1>a, <2>1 DEF Leads, Inode, Exists
    <3> HIDE DEF p
    <3>3. CASE p # m \/ names'[m] = Nothing
      <4>1. names'[p] # Nothing => names'[p] = names[p] /\ names[p] \in Inodes
        BY <1>0, <2>2, <3>1, <3>3 DEF BytesTypeOK
      <4>2. \A j \in Inodes : names'[p] = j => Clear(w, j)'
        BY <1>b, <2>3, <3>1, <4>1
      <4>3. names'[p] # Nothing => \E j \in Inodes : names'[p] = j
        BY <4>1
      <4> QED
        BY <2>4, <3>1, <3>2, <4>2, <4>3 DEF Clear
    <3>4. CASE p = m /\ names'[m] = m
      <4>1. \A n \in Protected(w) : n \in Members /\ n # m /\ names'[n] # m
        BY <1>0, <1>b, <2>2, <3>1, <3>4, Asked DEF MembersAreTheirOwn
      <4> QED
        BY <2>4, <3>1, <3>2, <3>4, <4>1 DEF Clear
    <3> QED
      BY <2>2, <3>3, <3>4
  <2>7. OpenedIsClear'
    BY <1>0, <2>1, <2>3 DEF OpenedIsClear, RemotesApart, BytesTypeOK, Clear
  <2>8. WrittenIsClear'
    BY <1>0, <2>1, <2>3 DEF WrittenIsClear
  <2> QED
    BY <2>5, <2>6, <2>7, <2>8 DEF SourcesInv
<1>3. ASSUME NEW w \in Runs, Begin(w) PROVE SourcesInv'
  <2>1. /\ UNCHANGED <<names, link, file, handle>>
        /\ seen' = [seen EXCEPT ![w] = {m \in Members : names[m] # Nothing}]
        /\ \E s \in {"refused", "fetching", "admitted"} :
             pc' = [pc EXCEPT ![w] = s] /\ (s # "refused" => ~Refused(ask[w]))
    BY <1>3 DEF Begin, Go, disk, work
  <2>2. pc[w] = "new" /\ handle[w] = Nothing
    BY <1>0, <1>3 DEF Begin, Go, OpenedLate
  <2>3. /\ Protected(w)' = {m \in Members : names[m] # Nothing /\ ask[w].source \in {m, Folder}}
        /\ \A v \in Runs \ {w} : Protected(v)' = Protected(v) /\ pc'[v] = pc[v]
    BY <1>0, <1>a, <2>1 DEF Protected, BytesTypeOK, NamesTypeOK
  <2>4. pc'[w] \in {"refused", "fetching", "admitted"} /\ (pc'[w] # "refused" => ~Refused(ask[w]))
    BY <1>0, <2>1 DEF NamesTypeOK
  <2>5. \A v \in Runs : /\ Leads(ask[v].output)' = Leads(ask[v].output)
                        /\ Inode(ask[v].output)' = Inode(ask[v].output)
                        /\ Exists(ask[v].output)' = Exists(ask[v].output)
    BY <1>a, <2>1 DEF Leads, Inode, Exists
  <2>6. \A v \in Runs \ {w} : \A j : Clear(v, j) =>
          \A m \in Protected(v)' : names'[m] # j /\ (j = m => names'[m] \in Runs)
    BY <2>1, <2>3 DEF Clear
  <2>7. MembersAreTheirOwn'
    BY <1>0, <2>1 DEF MembersAreTheirOwn
  <2>8. OutputsAreNoSources'
    BY <1>0, <1>a, <2>3, <2>4, AdmittedApart DEF OutputsAreNoSources
  <2>9. TargetsAreClear'
    <3>1. ASSUME pc'[w] = "fetching"
          PROVE  /\ (Leads(ask[w].output) \notin Protected(w))'
                 /\ Exists(ask[w].output)' => Clear(w, Inode(ask[w].output))'
      BY <1>0, <2>1, <2>3, <2>4, <2>5, <3>1, AdmittedApart DEF Clear
    <3>2. ASSUME NEW v \in Runs \ {w}, pc'[v] \in {"fetching", "fetched"}
          PROVE  /\ (Leads(ask[v].output) \notin Protected(v))'
                 /\ Exists(ask[v].output)' => Clear(v, Inode(ask[v].output))'
      <4>1. /\ Leads(ask[v].output) \notin Protected(v)
            /\ Exists(ask[v].output) => Clear(v, Inode(ask[v].output))
        BY <1>0, <2>3, <3>2 DEF TargetsAreClear
      <4> QED
        BY <2>3, <2>5, <2>6, <4>1 DEF Clear
    <3> QED
      BY <2>4, <3>1, <3>2 DEF TargetsAreClear
  <2>10. OpenedIsClear'
    BY <1>0, <2>1, <2>3, <2>4, <2>6 DEF OpenedIsClear, Clear
  <2>11. WrittenIsClear'
    BY <1>0, <2>1, <2>2, <2>3, <2>6 DEF WrittenIsClear, Clear
  <2> QED
    BY <2>7, <2>8, <2>9, <2>10, <2>11 DEF SourcesInv
<1>4. ASSUME NEW w \in Runs, Create(w) PROVE SourcesInv'
  <2> DEFINE i == Made(w, temps[temp[w]])
  <2>1. i \in Runs /\ ~Placed(i) /\ pc[w] = "staged"
    BY <1>0, <1>4, CreatedApart
  <2>2. /\ UNCHANGED <<names, link, seen>> /\ pc' = [pc EXCEPT ![w] = "building"]
        /\ handle' = [handle EXCEPT ![w] = i] /\ file' = [file EXCEPT ![i] = Blank(w)]
    BY <1>4 DEF Create, Go, Opens
  <2> HIDE DEF i
  <2>3. /\ handle'[w] = i /\ pc'[w] = "building" /\ file'[i].by = w
        /\ \A v \in Runs \ {w} : handle'[v] = handle[v] /\ pc'[v] = pc[v]
        /\ \A j \in Inodes \ {i} : file'[j] = file[j]
    BY <1>0, <1>b, <2>1, <2>2 DEF BytesTypeOK, NamesTypeOK, Blank
  <2>4. \A v \in Runs : /\ Protected(v)' = Protected(v)
                        /\ Leads(ask[v].output)' = Leads(ask[v].output)
                        /\ Inode(ask[v].output)' = Inode(ask[v].output)
                        /\ Exists(ask[v].output)' = Exists(ask[v].output)
    BY <1>a, <2>2 DEF Protected, Leads, Inode, Exists
  <2>5. Clear(w, i)
    BY <1>0, <1>b, <2>1, Asked DEF Clear, Placed
  <2>6. MembersAreTheirOwn' /\ OutputsAreNoSources'
    BY <1>0, <1>a, <2>1, <2>2, <2>3, <2>4 DEF MembersAreTheirOwn, OutputsAreNoSources
  <2>7. TargetsAreClear'
    BY <1>0, <1>a, <2>2, <2>3, <2>4 DEF TargetsAreClear, Clear
  <2>8. OpenedIsClear'
    BY <1>0, <2>2, <2>3, <2>4 DEF OpenedIsClear, Clear
  <2>9. WrittenIsClear'
    <3>1. i # Nothing
      BY <1>b, <2>1
    <3> QED
      BY <1>0, <2>2, <2>3, <2>4, <2>5, <3>1 DEF WrittenIsClear, Clear
  <2> QED
    BY <2>6, <2>7, <2>8, <2>9 DEF SourcesInv
<1>5. ASSUME NEW w \in Runs, Commit(w) PROVE SourcesInv'
  <2> DEFINE i == temps[temp[w]]
             o == ask[w].output
  <2>1. /\ pc[w] = "verified" /\ pc' = [pc EXCEPT ![w] = "ok"]
        /\ UNCHANGED <<file, handle, seen>>
        /\ names' = [names EXCEPT ![o] = i]
        /\ link' = IF o = Dest THEN Nothing ELSE link
    BY <1>5 DEF Commit, Go, work
  <2>2. i \in Runs /\ ~Placed(i) /\ handle[w] = i /\ file[i].by = w /\ temp[w] \in Temps
    BY <1>0, <2>1 DEF RunsAreHosted, Staging, LocalsHold, NamesTypeOK, TempsApart
  <2>3. o \in Places /\ o \notin Protected(w)
    BY <1>0, <2>1, Asked DEF OutputsAreNoSources
  <2>4. RemotesApart => \A v \in Runs : pc[v] = "filling" => handle[v] # i
    BY <2>2 DEF RemotesApart
  <2> HIDE DEF i, o
  <2>5. names'[o] = i /\ \A q \in Places \ {o} : names'[q] = names[q]
    BY <1>0, <2>1, <2>3 DEF BytesTypeOK
  <2>6. \A v \in Runs : Protected(v)' = Protected(v)
    BY <1>a, <2>1 DEF Protected
  <2>7. \A v \in Runs : \A j \in Inodes : Clear(v, j) /\ j # i => Clear(v, j)'
    BY <1>0, <1>a, <2>1, <2>2, <2>3, <2>5, ClearKeeps
  <2>8. MembersAreTheirOwn'
    BY <1>0, <1>b, <2>2, <2>5 DEF MembersAreTheirOwn
  <2>9. OutputsAreNoSources'
    BY <1>0, <1>a, <2>1, <2>6 DEF OutputsAreNoSources, NamesTypeOK
  <2>10. TargetsAreClear'
    <3> SUFFICES ASSUME NEW v \in Runs, pc'[v] \in {"fetching", "fetched"}
                 PROVE  /\ (Leads(ask[v].output) \notin Protected(v))'
                        /\ Exists(ask[v].output)' => Clear(v, Inode(ask[v].output))'
      BY DEF TargetsAreClear
    <3> DEFINE p == Leads(ask[v].output)
    <3>1. /\ p \in Places /\ p \notin Protected(v)
          /\ names[p] # Nothing => Clear(v, names[p])
      <4>1. pc[v] \in {"fetching", "fetched"}
        BY <1>0, <2>1 DEF NamesTypeOK
      <4> QED
        BY <1>0, <4>1, Asked DEF TargetsAreClear, Exists, Inode
    <3>2. PICK q \in Places :
            /\ q = Leads(ask[v].output)' /\ Inode(ask[v].output)' = names'[q]
            /\ Exists(ask[v].output)' <=> names'[q] # Nothing
            /\ q = p \/ (q = Dest /\ o = Dest)
      BY <1>a, <1>b, <2>1, <3>1, NamesAssumption DEF Leads, Inode, Exists
    <3> HIDE DEF p
    <3>3. q \notin Protected(v)
      BY <1>0, <1>b, <3>1, <3>2, Asked
    <3>4. CASE q = o
      <4>1. \A m \in Protected(v) : m \in Members /\ names'[m] # i /\ i # m
        BY <1>0, <1>b, <2>2, <2>5, <3>3, <3>4, Asked DEF Placed
      <4> QED
        BY <2>5, <2>6, <3>2, <3>3, <3>4, <4>1 DEF Clear
    <3>5. CASE q # o
      <4>1. q = p /\ names'[q] = names[q]
        BY <2>5, <3>2, <3>5
      <4>2. names'[q] # Nothing => names[q] \in Inodes /\ names[q] # i
        BY <1>0, <2>2, <4>1 DEF BytesTypeOK, Placed
      <4>3. \A j \in Inodes : names'[q] = j => Clear(v, j)'
        BY <1>b, <2>7, <3>1, <4>1, <4>2
      <4>4. names'[q] # Nothing => \E j \in Inodes : names'[q] = j
        BY <4>1, <4>2
      <4> QED
        BY <2>6, <3>2, <3>3, <4>3, <4>4 DEF Clear
    <3> QED
      BY <3>4, <3>5
  <2>11. OpenedIsClear'
    <3> SUFFICES ASSUME NEW v \in Runs, pc'[v] = "filling" PROVE Clear(v, handle[v])'
      BY DEF OpenedIsClear
    <3>1. pc[v] = "filling" /\ handle[v] \in Inodes /\ handle[v] # i /\ Clear(v, handle[v])
      BY <1>0, <2>1, <2>4 DEF NamesTypeOK, OpenedIsClear, RemotesApart, BytesTypeOK
    <3>2. \A j \in Inodes : handle'[v] = j => Clear(v, j)'
      BY <2>1, <2>7, <3>1
    <3> QED
      BY <2>1, <3>1, <3>2 DEF Clear
  <2>12. WrittenIsClear'
    <3> SUFFICES ASSUME NEW v \in Runs, NEW j \in Inodes, file[j].by = v
                 PROVE  handle[v] # Nothing /\ Clear(v, j)'
      BY <2>1 DEF WrittenIsClear
    <3>1. handle[v] # Nothing /\ Clear(v, j)
      BY <1>0 DEF WrittenIsClear
    <3>2. CASE j = i
      <4>1. v = w
        BY <2>2, <3>2
      <4>2. \A m \in Protected(w) : m \in Members /\ names'[m] # i /\ i # m
        BY <1>0, <1>b, <2>2, <2>3, <2>5, Asked DEF Placed
      <4> QED
        BY <2>6, <3>1, <3>2, <4>1, <4>2 DEF Clear
    <3> QED
      BY <2>7, <3>1, <3>2
  <2> QED
    BY <2>8, <2>9, <2>10, <2>11, <2>12 DEF SourcesInv
<1>6. ASSUME NEW w \in Runs, Truncate(w) PROVE SourcesInv'
  <2>1. PICK p \in Places, i \in Inodes :
          /\ p = Leads(ask[w].output) /\ i = Made(w, Inode(ask[w].output))
          /\ i # Nothing /\ pc[w] = "fetched" /\ handle[w] = Nothing
    BY <1>0, <1>6, TruncatedApart
  <2>2. /\ pc' = [pc EXCEPT ![w] = "filling"] /\ UNCHANGED <<link, seen>>
        /\ handle' = [handle EXCEPT ![w] = i] /\ file' = [file EXCEPT ![i] = Blank(w)]
        /\ names' = [names EXCEPT ![p] = i]
    BY <1>6, <2>1 DEF Truncate, Go, Opens
  <2>3. /\ handle'[w] = i /\ pc'[w] = "filling" /\ file'[i].by = w /\ names'[p] = i
        /\ \A v \in Runs \ {w} : handle'[v] = handle[v] /\ pc'[v] = pc[v]
        /\ \A j \in Inodes \ {i} : file'[j] = file[j]
        /\ \A q \in Places \ {p} : names'[q] = names[q]
    BY <1>0, <2>1, <2>2 DEF BytesTypeOK, NamesTypeOK, Blank
  (* Either the name keeps the file it leads to, or a new one is made. *)
  <2>4. \/ names[p] = i
        \/ /\ names[p] = Nothing /\ i = w /\ ~Placed(i)
           /\ \A v \in Runs : handle[v] # i
    BY <1>0, <2>1 DEF Made, Inode, Fresh
  <2>5. \A v \in Runs : Protected(v)' = Protected(v)
    BY <1>a, <2>2 DEF Protected
  <2>6. p \notin Protected(w) /\ (names[p] = i => Clear(w, i))
    BY <1>0, <2>1 DEF TargetsAreClear, Exists, Inode
  <2>7. \A v \in Runs : \A j \in Inodes : Clear(v, j) /\ (j = i => names[p] = i) => Clear(v, j)'
    BY <1>0, <1>a, <1>b, <2>1, <2>2, <2>3, <2>4, ClearKeeps DEF Clear
  <2>8. Clear(w, i)'
    <3>1. CASE names[p] = i
      BY <2>6, <2>7, <3>1
    <3>2. CASE i = w /\ ~Placed(i)
      <4>1. \A m \in Protected(w) : m \in Members /\ names'[m] # i /\ i # m
        BY <1>0, <1>b, <2>3, <2>6, <3>2, Asked DEF Placed
      <4> QED
        BY <2>5, <4>1 DEF Clear
    <3> QED
      BY <2>4, <3>1, <3>2
  <2>9. MembersAreTheirOwn'
    BY <1>0, <1>b, <2>3, <2>4 DEF MembersAreTheirOwn
  <2>10. OutputsAreNoSources'
    BY <1>0, <1>a, <2>1, <2>3, <2>5 DEF OutputsAreNoSources
  <2>11. TargetsAreClear'
    <3> SUFFICES ASSUME NEW v \in Runs, pc'[v] \in {"fetching", "fetched"}
                 PROVE  /\ (Leads(ask[v].output) \notin Protected(v))'
                        /\ Exists(ask[v].output)' => Clear(v, Inode(ask[v].output))'
      BY DEF TargetsAreClear
    <3> DEFINE q == Leads(ask[v].output)
    <3>1. /\ q \in Places /\ q \notin Protected(v)
          /\ names[q] # Nothing => Clear(v, names[q])
      <4>1. pc[v] \in {"fetching", "fetched"}
        BY <2>3
      <4> QED
        BY <1>0, <4>1, Asked DEF TargetsAreClear, Exists, Inode
    <3>2. /\ Leads(ask[v].output)' = q /\ Inode(ask[v].output)' = names'[q]
          /\ Exists(ask[v].output)' <=> names'[q] # Nothing
      BY <1>a, <2>2 DEF Leads, Inode, Exists
    <3> HIDE DEF q
    <3>3. CASE q = p /\ names[p] # i
      <4>1. \A m \in Protected(v) : m \in Members /\ names'[m] # i /\ i # m
        BY <1>0, <1>b, <2>3, <2>4, <3>1, <3>3, Asked DEF Placed
      <4> QED
        BY <2>3, <2>5, <3>1, <3>2, <3>3, <4>1 DEF Clear
    <3>4. CASE q # p \/ names[p] = i
      <4>1. /\ names'[q] = names[q]
            /\ names[q] # Nothing => names[q] \in Inodes /\ (names[q] = i => names[p] = i)
        BY <1>0, <2>3, <2>4, <3>1, <3>4 DEF BytesTypeOK, Placed
      <4>2. \A j \in Inodes : names'[q] = j => Clear(v, j)'
        BY <1>b, <2>7, <3>1, <4>1
      <4>3. names'[q] # Nothing => \E j \in Inodes : names'[q] = j
        BY <4>1
      <4> QED
        BY <2>5, <3>1, <3>2, <4>2, <4>3 DEF Clear
    <3> QED
      BY <3>3, <3>4
  <2>12. OpenedIsClear'
    <3> SUFFICES ASSUME NEW v \in Runs, pc'[v] = "filling" PROVE Clear(v, handle[v])'
      BY DEF OpenedIsClear
    <3>1. CASE v = w
      BY <2>3, <2>8, <3>1 DEF Clear
    <3>2. CASE v # w
      <4>1. handle'[v] = handle[v] /\ handle[v] \in Inodes /\ Clear(v, handle[v])
        BY <1>0, <2>3, <3>2 DEF OpenedIsClear, RemotesApart, BytesTypeOK
      <4>2. \A j \in Inodes : handle'[v] = j => Clear(v, j)'
        BY <2>4, <2>7, <4>1
      <4> QED
        BY <4>1, <4>2 DEF Clear
    <3> QED
      BY <3>1, <3>2
  <2>13. WrittenIsClear'
    <3> SUFFICES ASSUME NEW v \in Runs, NEW j \in Inodes, file'[j].by = v
                 PROVE  handle'[v] # Nothing /\ Clear(v, j)'
      BY DEF WrittenIsClear
    <3>1. CASE j = i
      BY <2>1, <2>3, <2>8, <3>1
    <3>2. CASE j # i
      <4>1. handle[v] # Nothing /\ Clear(v, j)
        BY <1>0, <2>3, <3>2 DEF WrittenIsClear
      <4> QED
        BY <2>1, <2>3, <2>7, <3>2, <4>1
    <3> QED
      BY <3>1, <3>2
  <2> QED
    BY <2>9, <2>10, <2>11, <2>12, <2>13 DEF SourcesInv
<1>7. ASSUME NEW w \in Runs, Fill(w) PROVE SourcesInv'
  <2>1. /\ pc[w] = "filling" /\ pc' = [pc EXCEPT ![w] = "ok"]
        /\ UNCHANGED <<names, link, seen, handle>>
        /\ \E s : file' = [file EXCEPT ![handle[w]] =
                             [Blank(w) EXCEPT !.state = s, !.holds = expected[w]]]
    BY <1>7 DEF Fill, Go, Written, work
  <2>2. handle[w] # Nothing /\ handle[w] \in Inodes /\ Clear(w, handle[w])
    BY <1>0, <2>1 DEF RemotesApart, OpenedIsClear, BytesTypeOK
  <2>3. file'[handle[w]].by = w /\ \A j \in Inodes \ {handle[w]} : file'[j] = file[j]
    BY <1>0, <2>1, <2>2 DEF BytesTypeOK, Blank
  <2>4. \A v \in Runs : /\ Protected(v)' = Protected(v)
                        /\ Leads(ask[v].output)' = Leads(ask[v].output)
                        /\ Inode(ask[v].output)' = Inode(ask[v].output)
                        /\ Exists(ask[v].output)' = Exists(ask[v].output)
    BY <1>a, <2>1 DEF Protected, Leads, Inode, Exists
  <2>5. pc'[w] = "ok" /\ \A v \in Runs \ {w} : pc'[v] = pc[v]
    BY <1>0, <2>1 DEF NamesTypeOK
  <2>6. MembersAreTheirOwn' /\ OutputsAreNoSources'
    BY <1>0, <1>a, <2>1, <2>4, <2>5 DEF MembersAreTheirOwn, OutputsAreNoSources
  <2>7. TargetsAreClear'
    BY <1>0, <1>a, <2>1, <2>4, <2>5 DEF TargetsAreClear, Clear
  <2>8. OpenedIsClear'
    BY <1>0, <2>1, <2>4, <2>5 DEF OpenedIsClear, Clear
  <2>9. WrittenIsClear'
    BY <1>0, <2>1, <2>2, <2>3, <2>4 DEF WrittenIsClear, Clear
  <2> QED
    BY <2>6, <2>7, <2>8, <2>9 DEF SourcesInv
<1> QED
  BY <1>1, <1>2, <1>3, <1>4, <1>5, <1>6, <1>7, StepsAreQuiet

(* No run ever writes to a file that a name it read from leads to, or may lead
   to again. *)
LEMMA SourcesInvHolds == Spec => [](StagedInv /\ SourcesInv)
<1>1. Init => SourcesInv
  <2> SUFFICES ASSUME Init PROVE SourcesInv
    OBVIOUS
  <2> USE DEF Init
  <2>1. MembersAreTheirOwn
    BY NamesAssumption DEF MembersAreTheirOwn, Places
  <2>2. OutputsAreNoSources /\ TargetsAreClear /\ OpenedIsClear
    BY DEF OutputsAreNoSources, TargetsAreClear, OpenedIsClear
  <2>3. WrittenIsClear
    BY NamesAssumption DEF WrittenIsClear, Blank
  <2> QED
    BY <2>1, <2>2, <2>3 DEF SourcesInv
<1> QED
  BY <1>1, SourcesKeep, StagedInvHolds, PTL DEF Spec

(* No run's bytes ever take the place of what it was reading: not through a
   link, not with consent to overwrite, and whatever comes, goes or is
   published in the folder meanwhile. *)
THEOREM SourcesSurvive == Spec => []SourceSurvives
<1>1. StagedInv /\ SourcesInv => SourceSurvives
  <2> SUFFICES ASSUME StagedInv, SourcesInv, NEW w \in Runs, NEW m \in Members,
                      m \in Protected(w), names[m] # Nothing
               PROVE  file[names[m]].by # w
    BY NamesAssumption DEF SourceSurvives, Protected, MadeBy, Inode, Leads
  <2>1. names[m] \in Inodes
    BY DEF StagedInv, BytesInv, BytesTypeOK, Places
  <2> QED
    BY <2>1 DEF SourcesInv, WrittenIsClear, Clear
<1> QED
  BY <1>1, SourcesInvHolds, PTL

-----------------------------------------------------------------------------
(* What is at Dest *)

(* A link at Dest leads to a file that is there. *)
LinkLeads == link # Nothing => names[link] # Nothing

(* Only a rename moves the link. *)
LEMMA LinkStays ==
  ASSUME [Next]_vars
  PROVE  link' = link \/ \E w \in Runs : Commit(w)
BY DEF vars, disk, Next, Compresses, Begin, Stage, Create, CreateFails, WriteMember, MemberIsGone,
       BuildFails, Damage, Loses, Finish, Verify, CommitFails, CleanUp, CleanUpFails, Fetches,
       Fetch, FetchFails, Truncate, Fill, FillFails, Goes, Comes, Moves, Crash

(* What a link leads to is replaced, never taken away. *)
LEMMA LinkKeeps == StagedInv /\ LinkLeads /\ [Next]_vars => LinkLeads'
<1> SUFFICES ASSUME StagedInv, LinkLeads, [Next]_vars PROVE LinkLeads'
  OBVIOUS
<1>0. /\ BytesTypeOK /\ NamesTypeOK /\ NamesInv /\ BytesInv /\ RunsAreHosted /\ LocalsHold
      /\ link \in Places \union {Nothing} /\ Nothing \notin Inodes
  BY NamesAssumption DEF StagedInv, NamesInv, BytesInv, HandlesInv, BytesTypeOK, Places
<1>1. CASE Quiet
  BY <1>1 DEF Quiet, LinkLeads
<1>2. ASSUME NEW m \in Members, Goes(m) \/ Comes(m) PROVE LinkLeads'
  BY <1>0, <1>2 DEF Goes, Comes, Moves, LinkLeads, Places, Inodes, BytesTypeOK
<1>3. ASSUME NEW w \in Runs, Begin(w) \/ Create(w) \/ Fill(w) PROVE LinkLeads'
  BY <1>3 DEF Begin, Create, Fill, disk, LinkLeads
<1>4. ASSUME NEW w \in Runs, Commit(w) PROVE LinkLeads'
  BY <1>0, <1>4 DEF Commit, LinkLeads, BytesTypeOK
<1>5. ASSUME NEW w \in Runs, Truncate(w) PROVE LinkLeads'
  BY <1>0, <1>5, TruncatedApart DEF Truncate, LinkLeads, BytesTypeOK
<1> QED
  BY <1>1, <1>2, <1>3, <1>4, <1>5, StepsAreQuiet

(* What is shown at Dest follows from the file it leads to. *)
LEMMA ShownKeeps ==
  ASSUME Inode(Dest)' = Inode(Dest),
         Exists(Dest) => file'[Inode(Dest)] = file[Inode(Dest)]
  PROVE  Shown' = Shown
BY DEF Shown, Exists, MadeBy

(* A run that ends says so; the others go on saying what they said. *)
LEMMA EndsSaying ==
  ASSUME NamesTypeOK, ask' = ask, NEW w \in Runs, NEW s \in Busy \union Ended,
         pc[w] \notin Ended, pc' = [pc EXCEPT ![w] = s]
  PROVE  /\ s \notin Ended => [v \in Runs |-> Said(v)]' = [v \in Runs |-> Said(v)]
         /\ s \in Ended /\ s # "ok" /\ Shown' = Shown => Atomic!GiveUp(w)
         /\ /\ s = "ok"
            /\ \/ Shown' = w
               \/ ask[w].output # Dest /\ Shown' = Shown
               \/ ~Local(w) /\ Shown' \in {Shown, "torn"}
            => Atomic!Publish(w)
<1>1. \A v \in Runs : pc'[v] = IF v = w THEN s ELSE pc[v]
  BY DEF NamesTypeOK
<1>2. "working" \notin {"ok", "not"} /\ "ok" \in Ended
  BY DEF Ended
<1>3. Atomic!Working(w)
  BY DEF Atomic!Working, Said
<1>4. s \notin Ended => \A v \in Runs : Said(v)' = Said(v)
  BY <1>1 DEF Said
<1>5. s \in Ended =>
        [v \in Runs |-> Said(v)]' =
          [[v \in Runs |-> Said(v)] EXCEPT ![w] = IF s = "ok" THEN "ok" ELSE "not"]
  <2>1. s \in Ended => \A v \in Runs :
          Said(v)' = IF v = w THEN (IF s = "ok" THEN "ok" ELSE "not") ELSE Said(v)
    BY <1>1 DEF Said
  <2> QED
    BY <2>1
<1>6. UNCHANGED Atomic!fixed
  BY DEF Atomic!fixed
<1>7. s \in Ended /\ s # "ok" => Atomic!Says(w, "not")
  BY <1>5, <1>6 DEF Atomic!Says
<1>8. s = "ok" => Atomic!Says(w, "ok")
  BY <1>2, <1>5, <1>6 DEF Atomic!Says
<1> QED
  BY <1>3, <1>4, <1>7, <1>8 DEF Atomic!GiveUp, Atomic!Publish, Local

(* Each step of a run is one of AtomicOutput's, or none. *)
LEMMA StepsAreAtomic ==
  ASSUME StagedInv, LinkLeads, [Next]_vars
  PROVE  \/ Atomic!Next
         \/ Shown' = Shown /\ [w \in Runs |-> Said(w)]' = [w \in Runs |-> Said(w)]
<1> DEFINE Stutters == Shown' = Shown /\ [w \in Runs |-> Said(w)]' = [w \in Runs |-> Said(w)]
           Steps    == Atomic!Next \/ Stutters
<1>0. /\ NamesTypeOK /\ BytesTypeOK /\ NamesInv /\ BytesInv /\ RunsAreHosted
      /\ Fresh /\ TempsApart /\ Sides /\ LocalsHold /\ RemotesApart /\ VerifiedIsPromised
      /\ Byting /\ ask' = ask
  BY StepsByte, BytesTypes DEF StagedInv, NamesInv, BytesInv, HandlesInv
<1>a. Leads(Dest) \in Places /\ Inode(Dest) \in Inodes \union {Nothing}
  BY <1>0, NamesAssumption DEF Leads, Inode, BytesTypeOK, Places
<1>b. Exists(Dest) => Inode(Dest) \in Inodes /\ Placed(Inode(Dest))
  BY <1>a DEF Exists, Inode, Placed
<1>c. User \notin Runs /\ "torn" # "whole"
  BY NamesAssumption
<1>d. ASSUME NEW w \in Runs, Atomic!Publish(w) \/ Atomic!Tear(w) \/ Atomic!GiveUp(w) PROVE Steps
  BY <1>d DEF Atomic!Next
<1>e. pc' = pc => [w \in Runs |-> Said(w)]' = [w \in Runs |-> Said(w)]
  BY DEF Said
<1>f. link' = link => Leads(Dest)' = Leads(Dest) /\ Inode(Dest)' = names'[Leads(Dest)]
  BY DEF Leads, Inode
<1> HIDE DEF Steps
<1> SUFFICES Steps
  BY DEF Steps
<1>1. ASSUME NEW w \in Runs, Commit(w) PROVE Steps
  <2> DEFINE i == temps[temp[w]]
             o == ask[w].output
  <2>1. /\ pc[w] = "verified" /\ pc' = [pc EXCEPT ![w] = "ok"] /\ file' = file
        /\ names' = [names EXCEPT ![o] = i]
        /\ link' = IF o = Dest THEN Nothing ELSE link
    BY <1>1 DEF Commit, Go
  <2>2. /\ i \in Runs /\ i \in Inodes /\ i # Nothing
        /\ file[i].by = w /\ file[i].state = "whole"
    BY <1>0, <2>1, NamesAssumption
       DEF LocalsHold, VerifiedIsPromised, Promised, NamesTypeOK, RunsAreHosted, Staging, Inodes
  <2>3. o \in Places
    BY <1>0, Asked
  <2> HIDE DEF i, o
  <2>4. \A q \in Places : names'[q] = IF q = o THEN i ELSE names[q]
    BY <1>0, <2>1, <2>3 DEF BytesTypeOK
  <2>5. ASSUME o = Dest \/ o = Leads(Dest) PROVE Shown' = w
    <3>1. Inode(Dest)' = i
      BY <1>a, <2>1, <2>3, <2>4, <2>5 DEF Inode, Leads
    <3> QED
      BY <1>c, <2>1, <2>2, <3>1 DEF Shown, Exists, MadeBy
  <2>6. ASSUME o # Dest /\ o # Leads(Dest) PROVE Shown' = Shown
    <3>1. Inode(Dest)' = Inode(Dest)
      BY <1>a, <1>f, <2>1, <2>4, <2>6 DEF Inode
    <3> QED
      BY <2>1, <3>1, ShownKeeps
  <2>7. Atomic!Publish(w)
    BY <1>0, <2>1, <2>5, <2>6, EndsSaying DEF o, Ended
  <2> QED
    BY <1>d, <2>7
<1>2. CASE link' = link
  <2>1. ASSUME \A j \in Inodes : Placed(j) => file'[j] = file[j],
               names'[Leads(Dest)] = names[Leads(Dest)]
        PROVE  Shown' = Shown
    BY <1>b, <1>f, <1>2, <2>1, ShownKeeps DEF Inode
  <2>2. CASE Idles
    BY <1>e, <2>1, <2>2 DEF Idles, Steps
  <2>3. ASSUME NEW m \in Members, Goes(m) \/ Comes(m) PROVE Steps
    <3>1. m # Leads(Dest)
      BY <1>0, <2>3, NamesAssumption DEF Goes, Comes, Moves, Leads, LinkLeads
    <3>2. names'[Leads(Dest)] = names[Leads(Dest)] /\ file' = file /\ pc' = pc
      BY <1>0, <1>a, <2>3, <3>1 DEF Goes, Comes, Moves, BytesTypeOK
    <3> QED
      BY <1>e, <2>1, <3>2 DEF Steps
  <2>4. ASSUME NEW w \in Runs, Writes(w) PROVE Steps
    <3>1. pc[w] = "building" /\ \E s \in Busy : s \notin Ended /\ pc' = [pc EXCEPT ![w] = s]
      BY <2>4 DEF Writes, Busy, Staging, Ended
    <3>2. ~Placed(handle[w])
      BY <1>0, <3>1 DEF LocalsHold, TempsApart, RunsAreHosted, Staging
    <3>3. Shown' = Shown
      BY <1>0, <2>1, <2>4, <3>2 DEF Writes, BytesTypeOK
    <3> QED
      BY <1>0, <3>1, <3>3, EndsSaying DEF Steps, Ended
  <2>5. ASSUME NEW w \in Runs, Turns(w) PROVE Steps
    <3>1. PICK s \in Busy \union Ended : Turn(w, s) /\ pc' = [pc EXCEPT ![w] = s]
      BY <2>5 DEF Turns
    <3>2. pc[w] \notin Ended /\ s # "ok"
      BY <3>1 DEF Turn, Ended
    <3>3. Shown' = Shown
      BY <2>1, <2>5 DEF Turns
    <3> QED
      BY <1>0, <1>d, <3>1, <3>2, <3>3, EndsSaying DEF Steps
  <2>6. ASSUME NEW w \in Runs, Create(w) PROVE Steps
    <3> DEFINE i == Made(w, temps[temp[w]])
    <3>1. ~Placed(i) /\ pc[w] = "staged"
      BY <1>0, <2>6, CreatedApart
    <3>2. /\ names' = names /\ file' = [file EXCEPT ![i] = Blank(w)]
          /\ pc' = [pc EXCEPT ![w] = "building"]
      BY <2>6 DEF Create, Go, Opens
    <3> HIDE DEF i
    <3>3. Shown' = Shown
      BY <1>0, <2>1, <3>1, <3>2 DEF BytesTypeOK
    <3>4. "building" \in Busy /\ "building" \notin Ended /\ "staged" \notin Ended
      BY DEF Busy, Staging, Ended
    <3> QED
      BY <1>0, <3>1, <3>2, <3>3, <3>4, EndsSaying DEF Steps
  <2>7. ASSUME NEW w \in Runs, CleanUp(w) PROVE Steps
    <3>1. /\ names' = names /\ file' = file
          /\ pc[w] = "failing" /\ pc' = [pc EXCEPT ![w] = "failed"]
      BY <2>7 DEF CleanUp, Go
    <3>2. Shown' = Shown
      BY <2>1, <3>1
    <3> QED
      BY <1>0, <1>d, <3>1, <3>2, EndsSaying DEF Ended
  <2>8. ASSUME NEW w \in Runs, Truncate(w) PROVE Steps
    <3>1. PICK p \in Places, i \in Inodes :
            /\ p = Leads(ask[w].output) /\ i = Made(w, Inode(ask[w].output))
            /\ i # Nothing /\ pc[w] = "fetched"
      BY <1>0, <2>8, TruncatedApart
    <3>2. /\ pc' = [pc EXCEPT ![w] = "filling"] /\ names' = [names EXCEPT ![p] = i]
          /\ file' = [file EXCEPT ![i] = Blank(w)]
      BY <2>8, <3>1 DEF Truncate, Go, Opens
    <3>3. /\ names'[p] = i /\ file'[i].by = w /\ file'[i].state = "open"
          /\ \A q \in Places \ {p} : names'[q] = names[q]
          /\ \A j \in Inodes \ {i} : file'[j] = file[j]
      BY <1>0, <3>1, <3>2 DEF BytesTypeOK, Blank
    <3>4. [v \in Runs |-> Said(v)]' = [v \in Runs |-> Said(v)]
      <4>1. "filling" \in Busy /\ "filling" \notin Ended /\ "fetched" \notin Ended
        BY DEF Busy, Fetching, Ended
      <4> QED
        BY <1>0, <3>1, <3>2, <4>1, EndsSaying
    <3>5. CASE Inode(Dest)' = i
      <4>1. Shown' = "torn" /\ w \in {v \in Runs : ask[v].remote}
        BY <1>0, <1>c, <3>1, <3>3, <3>5 DEF Shown, Exists, MadeBy, Sides, Fetching, Local
      <4>2. Atomic!Working(w)
        BY <3>1 DEF Atomic!Working, Said, Ended
      <4>3. Atomic!Tear(w)
        BY <1>0, <3>4, <4>1, <4>2 DEF Atomic!Tear, Atomic!fixed
      <4> QED
        BY <1>d, <4>3
    <3>6. CASE Inode(Dest)' # i
      <4>1. Inode(Dest)' = Inode(Dest) /\ Inode(Dest) # i
        BY <1>a, <1>f, <1>2, <3>3, <3>6 DEF Inode
      <4>2. Shown' = Shown
        BY <1>b, <3>3, <4>1, ShownKeeps
      <4> QED
        BY <3>4, <4>2 DEF Steps
    <3> QED
      BY <3>5, <3>6
  <2>9. ASSUME NEW w \in Runs, Fill(w) PROVE Steps
    <3>1. /\ pc[w] = "filling" /\ pc' = [pc EXCEPT ![w] = "ok"] /\ names' = names
          /\ \E s : file' = [file EXCEPT ![handle[w]] =
                               [Blank(w) EXCEPT !.state = s, !.holds = expected[w]]]
      BY <2>9 DEF Fill, Go, Written
    <3>2. ~Local(w) /\ handle[w] \in Inodes
      BY <1>0, <3>1 DEF Sides, Fetching, RemotesApart, BytesTypeOK
    <3>3. file'[handle[w]].by = w /\ \A j \in Inodes \ {handle[w]} : file'[j] = file[j]
      BY <1>0, <3>1, <3>2 DEF BytesTypeOK, Blank
    <3>4. Inode(Dest)' = Inode(Dest)
      BY <1>f, <1>2, <3>1 DEF Inode
    <3>5. CASE Exists(Dest) /\ Inode(Dest) = handle[w]
      <4>1. Shown' \in {w, "torn"}
        BY <1>c, <3>3, <3>4, <3>5 DEF Shown, Exists, MadeBy
      <4> QED
        BY <1>0, <1>d, <3>1, <3>2, <4>1, EndsSaying DEF Ended
    <3>6. CASE ~(Exists(Dest) /\ Inode(Dest) = handle[w])
      <4>1. Shown' = Shown
        BY <1>b, <3>3, <3>4, <3>6, ShownKeeps
      <4> QED
        BY <1>0, <1>d, <3>1, <3>2, <4>1, EndsSaying DEF Ended
    <3> QED
      BY <3>5, <3>6
  <2>10. ASSUME NEW p \in Procs, Crash(p) PROVE Steps
    <3> DEFINE ws == {w \in Runs : host[w] = p /\ pc[w] \in Busy}
    <3>1. /\ names' = names /\ file' = file
          /\ pc' = [w \in Runs |-> IF w \in ws THEN "killed" ELSE pc[w]]
      BY <2>10 DEF Crash, disk
    <3>2. ws \in SUBSET {w \in Runs : Atomic!Working(w)}
      BY DEF Atomic!Working, Said, Busy, Staging, Fetching, Ended
    <3>3. \A w \in Runs : Said(w)' = IF w \in ws THEN "not" ELSE Said(w)
      BY <3>1 DEF Said, Ended
    <3> HIDE DEF ws
    <3>4. [w \in Runs |-> Said(w)]' =
            [w \in Runs |-> IF w \in ws THEN "not" ELSE [v \in Runs |-> Said(v)][w]]
      BY <3>3
    <3>5. Shown' = Shown
      BY <2>1, <3>1
    <3>6. Atomic!Stop
      BY <1>0, <3>2, <3>4, <3>5 DEF Atomic!Stop, Atomic!fixed
    <3> QED
      BY <3>6 DEF Steps, Atomic!Next
  <2> QED
    BY <1>0, <2>2, <2>3, <2>4, <2>5, <2>6, <2>7, <2>8, <2>9, <2>10, <1>1 DEF Byting
<1> QED
  BY <1>1, <1>2, LinkStays

(* At Dest, for any folder, any runs and any faults, the program does what
   AtomicOutput says: a local run replaces what is there at once or leaves it,
   and only a remote one is ever seen half way. *)
THEOREM RunsAreAtomic == Spec => ImplementsAtomicOutput
<1>1. Init => LinkLeads
  BY NamesAssumption DEF Init, LinkLeads, Places, Inodes
<1>2. Init => Atomic!Init
  <2> SUFFICES ASSUME Init PROVE Atomic!Init
    OBVIOUS
  <2> USE DEF Init
  <2>1. [w \in Runs |-> Said(w)] = [w \in Runs |-> "working"]
    BY DEF Said, Ended
  <2>2. Inode(Dest) \in Members \union {Old, Nothing}
    BY NamesAssumption DEF Inode, Leads, Places
  <2>3. Exists(Dest) => MadeBy(Dest) = User
    BY <2>2, NamesAssumption DEF Exists, MadeBy, Blank, Inodes
  <2>4. Shown \in Members \union {Old, Nothing}
    BY <2>2, <2>3 DEF Shown
  <2> QED
    BY <2>1, <2>4 DEF Atomic!Init
<1>3. StagedInv /\ LinkLeads /\ [Next]_vars
        => [Atomic!Next]_<<Shown, [w \in Runs |-> Said(w)], Atomic!fixed>>
  <2> SUFFICES ASSUME StagedInv, LinkLeads, [Next]_vars
               PROVE  [Atomic!Next]_<<Shown, [w \in Runs |-> Said(w)], Atomic!fixed>>
    OBVIOUS
  <2>1. ask' = ask
    BY BytesTypes DEF StagedInv
  <2>2. UNCHANGED Atomic!fixed
    BY <2>1 DEF Atomic!fixed
  <2> QED
    BY <2>2, StepsAreAtomic
<1> QED
  BY <1>1, <1>2, <1>3, LinkKeeps, StagedInvHolds, PTL DEF Spec, ImplementsAtomicOutput, Atomic!Spec
=============================================================================

----------------------------- MODULE Extraction -----------------------------
(***************************************************************************)
(* One archive being extracted: the guards of run_extract and              *)
(* extract_archive, those of extract_with, then the backend, entry by      *)
(* entry, into a folder that may hold something already.                   *)
(*                                                                         *)
(* The folder is a partial function from paths to what is there. A folding *)
(* host (Windows, macOS) takes two cases of a letter for one name. Bytes   *)
(* are abstracted to the entry they came from. A link in the folder leads  *)
(* to a folder elsewhere ("link") or to a file elsewhere, there or not     *)
(* ("alias"); whatever leads to the archive itself is "archive".           *)
(***************************************************************************)
EXTENDS EntryNames, FiniteSets

CONSTANTS
  Cases,             \* families of what may be asked, of which archive, where
  Elsewhere,         \* the files elsewhere that links in the folder lead to
  Faults, MaxFaults  \* the kinds of fault that may happen, and how many

Kinds     == {"file", "dir", "special"}
NodeKinds == {"file", "torn", "dir", "link", "archive"}

Node(kind, by) == [kind |-> kind, by |-> by]
Aliases == {Node("alias", f) : f \in Elsewhere}

Formats   == {"zip", "tar", "7z", "unknown"}
Damages   == {"none", "listing", "data"}

Hosts     == [windows : BOOLEAN, folds : BOOLEAN]

ASSUME CasesAssumption ==
  \A f \in Cases :
    /\ f.host \subseteq Hosts /\ f.format \subseteq Formats /\ f.damage \subseteq Damages
    /\ f.front \subseteq {"cli", "desktop"}
    /\ f.archive \subseteq Seq([name : Seq(Tokens), kind : Kinds])
    /\ \A folder \in f.tree : \A path \in DOMAIN folder :
         /\ path \in Seq(Seq(Tokens)) \ {<<>>}
         /\ folder[path] \in [kind : NodeKinds, by : {0}] \union Aliases
ASSUME BoundsAssumption == Faults \subseteq {"disk", "kill"} /\ MaxFaults \in Nat

VARIABLES
  case,       \* the case at hand; case.tree is the folder as it was
  tree,       \* the folder: a node, [kind, by], at each path that is there
  elsewhere,  \* what is in each file elsewhere, by 0: what it was, or nothing
  outside,    \* what was made beyond a link that leads out of it
  pc,
  next,       \* the entry to read
  extracted,  \* the paths reported
  faults

host    == case.host
archive == case.archive
format  == case.format
front   == case.front
damage  == case.damage
before  == case.tree

vars == <<case, tree, elsewhere, outside, pc, next, extracted, faults>>

IsCase == \E f \in Cases :
  case \in [host : f.host, archive : f.archive, format : f.format,
            front : f.front, damage : f.damage, tree : f.tree]

Ended == {"refused", "ok", "failed", "killed"}

TypeOK ==
  /\ IsCase
  /\ \A path \in DOMAIN tree :
       /\ path \in Seq(Seq(Tokens)) /\ path # <<>>
       /\ tree[path] \in [kind : NodeKinds, by : 0..Len(archive)] \union Aliases
  /\ elsewhere \in [Elsewhere -> [kind : {"file", "torn"}, by : 0..Len(archive)]]
  /\ outside \subseteq {"dir", "file"}
  /\ pc \in Ended \union {"new", "admitted", "writing"}
  /\ next \in 1..Len(archive) + 1
  /\ extracted \in Seq(Seq(Seq(Tokens))) /\ Len(extracted) < next
  /\ faults \in 0..MaxFaults

Init ==
  /\ IsCase /\ tree = before /\ outside = {}
  /\ elsewhere = [f \in Elsewhere |-> Node("file", 0)]
  /\ pc = "new" /\ next = 1 /\ extracted = <<>> /\ faults = 0

Fault(kind) == kind \in Faults /\ faults < MaxFaults /\ faults' = faults + 1

-----------------------------------------------------------------------------
(* The folder. *)

Fold(path) ==
  IF host.folds
    THEN [i \in DOMAIN path |->
            [j \in DOMAIN path[i] |-> IF path[i][j] = "X" THEN "x" ELSE path[i][j]]]
    ELSE path

At(path)      == tree[Fold(path)]
IsThere(path) == Fold(path) \in DOMAIN tree
IsA(path, kinds) == IsThere(path) /\ At(path).kind \in kinds

Ancestry(path) == {SubSeq(path, 1, k) : k \in 1..Len(path)}
(* What no folder can be made of. *)
Files == {"file", "torn", "archive", "alias"}

LeadsOut(path) == \E p \in Ancestry(path) : IsA(p, {"link"})
Blocked(path)  == \E p \in Ancestry(path) : IsA(p, Files)

WithFolders(more) ==
  [p \in DOMAIN tree \union {Fold(m) : m \in more} |->
     IF p \in DOMAIN tree THEN tree[p] ELSE Node("dir", 0)]

-----------------------------------------------------------------------------
(* The guards, all of them before a byte is written. *)

Rules == HostRules(host.windows)

(* Tar skips what is neither a regular file nor a directory, and no listing
   names it; zip and 7z write it as a file. *)
Skipped(entry) == format = "tar" /\ entry.kind = "special"
Listing == [i \in {j \in DOMAIN archive : ~Skipped(archive[j])} |-> archive[i].name]

\* Mutant: by the name spelled, and no further.
OverwritesArchiveBySpelling ==
  \E i \in DOMAIN Listing : LET path == SanitizeEntryPath(host.windows, Listing[i]) IN
    path # <<>> /\ path \in DOMAIN tree /\ tree[path].kind = "archive"

(* refuse_overwriting_the_archive: an entry whose path leads to the archive. *)
OverwritesArchive ==
  \E i \in DOMAIN Listing : LET path == SanitizeEntryPath(host.windows, Listing[i]) IN
    path # <<>> /\ IsA(path, {"archive"})

CanList == format # "unknown" /\ damage # "listing"

\* Mutant: a listing that cannot be read is left to the backend to report.
RefusedUnlessUnlisted ==
  \/ format = "unknown"
  \/ CanList /\ Unwritable(Rules, Listing)
  \/ CanList /\ OverwritesArchive

(* The command line reports every entry at fault, the core the first one. *)
Refused ==
  \/ front = "cli" /\ CanList /\ Report(Rules, Listing) # {}
  \/ ~CanList
  \/ Unwritable(Rules, Listing)
  \/ OverwritesArchive

Begin ==
  /\ pc = "new"
  /\ pc' = IF Refused THEN "refused" ELSE "admitted"
  /\ UNCHANGED <<case, tree, elsewhere, outside, next, extracted, faults>>

(* The output folder is created and the archive opened again. *)
Open ==
  /\ pc = "admitted" /\ pc' = "writing"
  /\ UNCHANGED <<case, tree, elsewhere, outside, next, extracted, faults>>

OpenFails ==
  /\ pc = "admitted" /\ Fault("disk") /\ pc' = "failed"
  /\ UNCHANGED <<case, tree, elsewhere, outside, next, extracted>>

-----------------------------------------------------------------------------
(* The backends, one entry at a time. *)

Writing == pc = "writing" /\ next <= Len(archive)
Entry   == archive[next]
IsTar   == format = "tar"

\* Mutant: an entry is passed over.
GoesByTwo == next' = next + 2 /\ UNCHANGED <<pc, case, faults>>

Goes == next' = next + 1 /\ UNCHANGED <<pc, case, faults>>
Fails == pc' = "failed" /\ UNCHANGED <<case, next, extracted>>

\* Mutant: zip and 7z write what tar would, without a root.
PathUnrooted == IF IsTar THEN NormalPath(host.windows, Entry.name)
                         ELSE SanitizeEntryPathUnrooted(host.windows, Entry.name)

Path == IF IsTar THEN NormalPath(host.windows, Entry.name)
                 ELSE SanitizeEntryPath(host.windows, Entry.name)

Traverses == IF IsTar THEN Climbs(host.windows, Entry.name) ELSE Path = <<>>

EntryTraverses ==
  /\ Writing /\ ~Skipped(Entry) /\ Traverses /\ Fails
  /\ UNCHANGED <<tree, elsewhere, outside, faults>>

(* Not a file or a folder, or nothing but the output folder itself. *)
EntryIsSkipped ==
  /\ Writing /\ IsTar /\ (Skipped(Entry) \/ (~Traverses /\ Path = <<>>)) /\ Goes
  /\ UNCHANGED <<tree, elsewhere, outside, extracted>>

(* The folders an entry needs: all of it, or all but its last part. *)
Parents == IF Entry.kind = "dir" /\ ~IsTar THEN Ancestry(Path)
                                           ELSE Ancestry(Path) \ {Path}

Placed == Writing /\ ~Skipped(Entry) /\ ~Traverses /\ Path # <<>>

\* Mutant: what was resolved is not looked at.
IsInsideUnchecked == TRUE

(* ensure_inside, and tar's own check of the same. *)
IsInside == ~\E p \in Parents : LeadsOut(p)

(* create_dir_all before the check, so folders may be made beyond a link; tar
   checks before each. *)
ParentsAreOutside ==
  /\ Placed /\ ~IsInside /\ Fails
  /\ outside' = outside \union (IF IsTar THEN {} ELSE {"dir"})
  /\ UNCHANGED <<tree, elsewhere, faults>>

ParentsAreBlocked ==
  /\ Placed /\ IsInside /\ (\E p \in Parents : Blocked(p)) /\ Fails
  /\ UNCHANGED <<tree, elsewhere, outside, faults>>

ParentsAreThere == Placed /\ IsInside /\ ~\E p \in Parents : Blocked(p)

MakesDirectory ==
  /\ ParentsAreThere /\ Entry.kind = "dir" /\ Goes
  /\ ~IsA(Path, Files)
  /\ tree' = WithFolders(Ancestry(Path))
  /\ UNCHANGED <<elsewhere, outside, extracted>>

(* fs::write follows a link to a file and not one to a folder; tar removes
   either and makes a new file. *)
InTheWay ==
  IF Entry.kind = "dir" THEN IsA(Path, Files)
  ELSE IsA(Path, {"dir"}) \/ (~IsTar /\ IsA(Path, {"link"}))

EntryIsBlocked ==
  /\ ParentsAreThere /\ InTheWay /\ Fails
  /\ tree' = WithFolders(Parents)
  /\ UNCHANGED <<elsewhere, outside, faults>>

WithFile(kind) ==
  LET parents == WithFolders(Parents) IN
    [p \in DOMAIN parents \union {Fold(Path)} |->
       IF p = Fold(Path) THEN Node(kind, next) ELSE parents[p]]

\* Mutant: tar follows a link too, where it should replace it.
FollowsAlways == IsA(Path, {"alias"})

(* ensure_inside saw the parent only: a link at the entry's own path is
   followed, and the file it leads to is the one written. *)
Follows == ~IsTar /\ IsA(Path, {"alias"})

Puts(kind) ==
  IF Follows
    THEN /\ tree' = WithFolders(Parents)
         /\ elsewhere' = [elsewhere EXCEPT ![At(Path).by] = Node(kind, next)]
    ELSE tree' = WithFile(kind) /\ UNCHANGED elsewhere

(* Beyond a linked folder the file is made outside. *)
Beyond == \E p \in Parents : LeadsOut(p)

WritesFile ==
  /\ ParentsAreThere /\ Entry.kind # "dir" /\ ~InTheWay /\ Goes
  /\ IF Beyond THEN outside' = outside \union {"file"} /\ UNCHANGED <<tree, elsewhere>>
               ELSE Puts("file") /\ UNCHANGED outside
  /\ extracted' = Append(extracted, Path)

(* Zip and 7z read an entry whole before they write it; tar streams it. *)
DataIsDamaged ==
  /\ ParentsAreThere /\ damage = "data" /\ Entry.kind # "dir" /\ ~InTheWay /\ ~Beyond
  /\ tree' = (IF IsTar THEN WithFile("torn") ELSE WithFolders(Parents))
  /\ Fails /\ UNCHANGED <<elsewhere, outside, faults>>

WriteFails ==
  /\ ParentsAreThere /\ ~InTheWay /\ ~Beyond /\ Fault("disk") /\ Fails
  /\ \/ tree' = WithFolders(Parents) /\ UNCHANGED elsewhere
     \/ Entry.kind # "dir" /\ Puts("torn")
  /\ UNCHANGED outside

Finish ==
  /\ pc = "writing" /\ next > Len(archive) /\ pc' = "ok"
  /\ UNCHANGED <<case, tree, elsewhere, outside, next, extracted, faults>>

Killed ==
  /\ pc \notin Ended /\ Fault("kill") /\ pc' = "killed"
  /\ UNCHANGED <<case, tree, elsewhere, outside, next, extracted>>

Next ==
  \/ Begin \/ Open \/ OpenFails
  \/ EntryTraverses \/ EntryIsSkipped \/ ParentsAreOutside \/ ParentsAreBlocked
  \/ MakesDirectory \/ EntryIsBlocked \/ WritesFile \/ DataIsDamaged \/ WriteFails
  \/ Finish \/ Killed

Spec == Init /\ [][Next]_vars

-----------------------------------------------------------------------------
(* What must hold *)

(* An archive whose listing cannot be read, or that holds one name this host
   cannot hold, leaves the folder exactly as it was: nothing is written first
   and judged later (issues 63 and 89 of the source's comments). *)
RefusalLeavesNoTrace ==
  (damage = "listing" \/ Report(Rules, Listing) # {})
     => /\ tree = before /\ outside = {} /\ \A f \in Elsewhere : elsewhere[f] = Node("file", 0)
        /\ pc \in {"new", "refused", "killed"}

(* What the names were judged by and what they are written by split them
   differently, yet every part of every path made is one the host holds as an
   ordinary file of exactly that name. *)
WhatIsWrittenIsHeld ==
  \A path \in DOMAIN tree \ DOMAIN before :
    \A part \in ToSet(path) : Held(host.windows, part)

(* The archive being read keeps its own name and file. *)
ArchiveSurvives ==
  \A path \in DOMAIN before :
    before[path].kind = "archive" => path \in DOMAIN tree /\ tree[path] = before[path]

Destination(i) == IF IsTar THEN NormalPath(host.windows, archive[i].name)
                           ELSE SanitizeEntryPath(host.windows, archive[i].name)
WrittenEntries == {i \in DOMAIN archive : archive[i].kind # "dir" /\ ~Skipped(archive[i])
                                            /\ Destination(i) # <<>>}

(* Entry i of a zip or 7z has the name of a link that leads to file f. *)
NamesLinkTo(f, i) ==
  LET path == Fold(Destination(i)) IN
    /\ ~IsTar /\ i \in WrittenEntries
    /\ path \in DOMAIN before /\ before[path] = Node("alias", f)

(* No entry's bytes go into a folder beyond a link that was in the output
   folder already, and none go to a file beyond one, but where a zip's or 7z's
   entry has the name of the very link (ensure_inside is of the parent alone,
   and tar replaces the link): the source says that none do, see the README. *)
FilesStayInside ==
  /\ "file" \notin outside
  /\ \A f \in Elsewhere, i \in DOMAIN archive : elsewhere[f].by = i => NamesLinkTo(f, i)

(* Two names lead to one file: the host takes them for one, or both are links
   to it. *)
OneFile(p, q) == Fold(p) = Fold(q) \/ (IsA(p, {"alias"}) /\ IsThere(q) /\ At(q) = At(p))
LastOf(path)  == Max({i \in WrittenEntries : OneFile(Destination(i), path)})
Content(path) == IF IsA(path, {"alias"}) THEN elsewhere[At(path).by] ELSE At(path)

(* All of the archive under its own names: a run that says so left each path
   with the bytes of the last entry that leads to the same file, and reported
   every file. *)
SuccessIsTheArchive ==
  pc = "ok" =>
    /\ \A i \in DOMAIN archive : IsTar \/ Destination(i) # <<>>
    /\ \A i \in WrittenEntries :
         /\ IsThere(Destination(i))
         /\ Content(Destination(i)) = Node("file", LastOf(Destination(i)))
    /\ Len(extracted) = Cardinality(WrittenEntries)
=============================================================================

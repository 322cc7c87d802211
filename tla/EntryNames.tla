----------------------------- MODULE EntryNames -----------------------------
(***************************************************************************)
(* The names inside an archive: which of them a host can hold as they are  *)
(* spelled (core/compression/names.rs), and which path each is written to  *)
(* (sanitize_entry_path, normal_path).                                     *)
(*                                                                         *)
(* The two sides split a name by different rules: the judging side on "/"  *)
(* whatever the host, the writing side as the host's own paths do. A name  *)
(* is a sequence of tokens, one for each thing the rules tell apart: "con" *)
(* is a device name in any case, "com" a device prefix, "1" one of its     *)
(* digits, "nul" the character U+0000, "ctl" another control character,    *)
(* "sp" the space, "x" and "X" one letter in its two cases.                *)
(***************************************************************************)
EXTENDS Naturals, Sequences, SequencesExt

Tokens == {"x", "X", "con", "com", "1", ".", "sp", ":", "?", "\\", "/", "nul", "ctl"}

Control == {"nul", "ctl"}
Devices == {<<"con">>, <<"com", "1">>}
DotDot  == <<".", ".">>

(* A separator opens a part, any other token goes to the last one. *)
Put(parts, t, separators) ==
  IF t \in separators THEN Append(parts, <<>>)
                      ELSE [parts EXCEPT ![Len(parts)] = Append(@, t)]

(* The parts between separators, the empty ones included. This and the next
   are functions of how much was read, not folds, for the sake of proofs. *)
Split(name, separators) ==
  LET parts[n \in 0..Len(name)] ==
        IF n = 0 THEN << <<>> >> ELSE Put(parts[n - 1], name[n], separators)
  IN parts[Len(name)]

Keep(parts, part, dropped) == IF part \in dropped THEN parts ELSE Append(parts, part)

Without(parts, dropped) ==
  LET kept[n \in 0..Len(parts)] ==
        IF n = 0 THEN <<>> ELSE Keep(kept[n - 1], parts[n], dropped)
  IN kept[Len(parts)]

TrimEnd(part, tokens) ==
  SubSeq(part, 1, Max({0} \union {i \in DOMAIN part : part[i] \notin tokens}))

-----------------------------------------------------------------------------
(* names.rs: NameRules *)

\* Mutant: the host's other separator is an ordinary character to it.
WindowsRulesNoBackslash ==
  [rejected |-> {"?"}, reinterpreted |-> {":"}, control |-> TRUE,
   trailing |-> {".", "sp"}, devices |-> TRUE]

WindowsRules ==
  [rejected |-> {"?", "\\"}, reinterpreted |-> {":"}, control |-> TRUE,
   trailing |-> {".", "sp"}, devices |-> TRUE]

UnixRules ==
  [rejected |-> {"nul"}, reinterpreted |-> {}, control |-> FALSE,
   trailing |-> {}, devices |-> FALSE]

HostRules(windows) == IF windows THEN WindowsRules ELSE UnixRules

FaultOf(rules, t) ==
  CASE t \in rules.reinterpreted -> "Reinterpreted"
    [] t \in rules.rejected \/ (rules.control /\ t \in Control) -> "Rejected"
    [] OTHER -> "none"

TrailingRun(rules, part) ==
  SubSeq(part, Len(TrimEnd(part, rules.trailing)) + 1, Len(part))

(* A device is reserved with any extension, and with spaces after its name. *)
ReservedDevice(rules, part) ==
  rules.devices /\ TrimEnd(Head(Split(part, {"."})), {"sp"}) \in Devices

Problems(rules, part) ==
  {t \in ToSet(part) : FaultOf(rules, t) # "none"}
    \union (IF TrailingRun(rules, part) = <<>> THEN {} ELSE {"trailing"})
    \union (IF ReservedDevice(rules, part) THEN {"device"} ELSE {})

EntryComponents(name) ==
  Without(Split(name, {"/"}), {<<>>, <<".">>, DotDot})

EntryProblems(rules, name) ==
  UNION {Problems(rules, part) : part \in ToSet(EntryComponents(name))}

(* NameReport::of: the entries at fault, of a whole listing. *)
Report(rules, listing) ==
  {i \in DOMAIN listing : EntryProblems(rules, listing[i]) # {}}

(* refuse_unwritable_names stops at the first offending component. *)
Unwritable(rules, listing) ==
  \E i \in DOMAIN listing :
    \E part \in ToSet(EntryComponents(listing[i])) : Problems(rules, part) # {}

-----------------------------------------------------------------------------
(* The path an entry is written to, as components of the host. *)

Separators(windows) == IF windows THEN {"/", "\\"} ELSE {"/"}

HostParts(windows, name) ==
  Without(Split(name, Separators(windows)), {<<>>, <<".">>})

Rooted(windows, name) == name # <<>> /\ Head(name) \in Separators(windows)
Climbs(windows, name) == DotDot \in ToSet(HostParts(windows, name))

(* A letter and a colon at the head of a part read as a drive. *)
HasDrive(windows, part) ==
  windows /\ Len(part) > 1 /\ part[1] \in {"x", "X"} /\ part[2] = ":"

\* Mutant: a root is stripped, as the tar backend does.
SanitizeEntryPathUnrooted(windows, name) ==
  IF Climbs(windows, name) THEN <<>> ELSE HostParts(windows, name)

(* <<>> stands for None: traversal, or no file at all. *)
SanitizeEntryPath(windows, name) ==
  LET parts == HostParts(windows, name) IN
    IF Rooted(windows, name) \/ Climbs(windows, name)
         \/ \E part \in ToSet(parts) : HasDrive(windows, part)
      THEN <<>> ELSE parts

(* For tar: a root is dropped. The caller refuses a name that climbs, and a
   drive never gets here, its colon having been refused. *)
NormalPath(windows, name) == HostParts(windows, name)

-----------------------------------------------------------------------------
(* What the rules are for, stated of the parts the host itself sees: a file
   named so is an ordinary file, there under exactly that name. *)

HeldByWindows(part) ==
  /\ ToSet(part) \intersect {"?", "\\", "/", ":", "nul", "ctl"} = {}
  /\ TrimEnd(part, {".", "sp"}) = part
  /\ \A device \in Devices :
       ~\E n \in 0..Len(part) : \/ part = device \o [i \in 1..n |-> "sp"]
                                \/ IsPrefix(device \o [i \in 1..n |-> "sp"] \o <<".">>, part)

Held(windows, part) ==
  IF windows THEN HeldByWindows(part) ELSE "nul" \notin ToSet(part)
=============================================================================

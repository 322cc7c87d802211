--------------------------- MODULE RegistrySchema ---------------------------
(***************************************************************************)
(* Opening the job registry over a database another build may have left:   *)
(* migrate of registry.rs, statement by statement. SQLite commits each of  *)
(* them on its own, so the process may be stopped between any two. Two are *)
(* left out: an index that is created if it is not there, and the pragma   *)
(* that has a database keep a write-ahead log, which open runs before the  *)
(* version is looked at.                                                   *)
(***************************************************************************)
EXTENDS Naturals, Sequences

CONSTANT Newer  \* the schema of a build after this one

SchemaVersion == 3
Columns == {"base", "server_version", "verify"}

ASSUME NewerAssumption == Newer \in Nat /\ Newer > SchemaVersion

VARIABLES
  db,       \* [version, columns]: what is in the file
  opening,  \* how far this process got
  todo      \* the statements it has still to run

schema == <<db, opening, todo>>

Openings == {"closed", "migrating", "open", "refused", "broken"}
Statements == {"create", "server_version", "verify", "stamp"}

SchemaTypeOK ==
  /\ db \in [version : (0..SchemaVersion) \union {Newer}, columns : SUBSET Columns]
  /\ opening \in Openings
  /\ todo \in UNION {[1..n -> Statements] : n \in 0..3}

(* A file that was never written, or the last one of an older or newer build,
   an older one that was stopped between its CREATE and its stamp among them.
   (Stopped between its ALTER and its stamp, it leaves what this build does.) *)
Databases ==
  { [version |-> 0, columns |-> {}],
    [version |-> 0, columns |-> {"base"}],
    [version |-> 0, columns |-> {"base", "server_version"}],
    [version |-> 1, columns |-> {"base"}],
    [version |-> 2, columns |-> {"base", "server_version"}],
    [version |-> SchemaVersion, columns |-> Columns],
    [version |-> Newer, columns |-> Columns] }

SchemaInit == db \in Databases /\ opening = "closed" /\ todo = <<>>

-----------------------------------------------------------------------------
\* Mutant: any version is understood.
UnderstandsAll(version) == TRUE

Understands(version) == version <= SchemaVersion

When(condition, statement) == IF condition THEN <<statement>> ELSE <<>>

\* Mutant: one step an opening, as `else if` would have it.
StepsFromOneHop(version) ==
  CASE version = 0 -> <<"create">>
    [] version = 1 -> <<"server_version">>
    [] OTHER -> When(version = 2, "verify")

StepsFrom(version) ==
  IF version = 0 THEN <<"create">>
  ELSE When(version < 2, "server_version") \o When(version < 3, "verify")

Open ==
  /\ opening = "closed" /\ UNCHANGED db
  /\ IF Understands(db.version)
       THEN opening' = "migrating" /\ todo' = Append(StepsFrom(db.version), "stamp")
       ELSE opening' = "refused" /\ todo' = <<>>

(* CREATE TABLE IF NOT EXISTS *)
CreateTable ==
  /\ Head(todo) = "create" /\ todo' = Tail(todo)
  /\ db' = IF db.columns = {} THEN [db EXCEPT !.columns = Columns] ELSE db
  /\ UNCHANGED opening

(* ALTER TABLE has no such clause: a column that is there is an error. *)
AddColumn ==
  /\ Head(todo) \in Columns /\ Head(todo) \notin db.columns
  /\ db' = [db EXCEPT !.columns = @ \union {Head(todo)}] /\ todo' = Tail(todo)
  /\ UNCHANGED opening

ColumnIsThere ==
  /\ Head(todo) \in db.columns
  /\ opening' = "broken" /\ todo' = <<>> /\ UNCHANGED db

\* Mutant: the next version is stamped instead of the last one.
StampNext ==
  /\ Head(todo) = "stamp" /\ todo' = <<>>
  /\ db' = [db EXCEPT !.version = @ + 1] /\ opening' = "open"

Stamp ==
  /\ Head(todo) = "stamp" /\ todo' = <<>>
  /\ db' = [db EXCEPT !.version = SchemaVersion] /\ opening' = "open"

Migrate == opening = "migrating" /\ (CreateTable \/ AddColumn \/ ColumnIsThere \/ Stamp)

(* A full disk, a database locked by another: the statement has no effect. *)
StatementFails ==
  /\ opening = "migrating"
  /\ opening' = "broken" /\ todo' = <<>> /\ UNCHANGED db

(* The process is gone: what it had not yet run it never will. *)
Close == opening' = "closed" /\ todo' = <<>> /\ UNCHANGED db

(* The volume is used by a newer build for a while. *)
UpgradeElsewhere ==
  /\ opening = "closed" /\ db.version = SchemaVersion
  /\ db' = [db EXCEPT !.version = Newer] /\ UNCHANGED <<opening, todo>>

-----------------------------------------------------------------------------
(* What a stamp says is there is there: no opening, however often it or one
   before it was cut short, stamps a database that lacks a column. The one it
   does stamp is an older build's table without a version: CREATE TABLE leaves
   it as it is (the README says more). *)
OldTable == db.version = 0 /\ db.columns \notin {{}, Columns}
StampedIsComplete ==
  [][db.version # SchemaVersion /\ db'.version = SchemaVersion
       => db'.columns = Columns \/ OldTable]_schema

(* A database of a newer build stays as that build left it. *)
FutureIsUntouched == [][db.version > SchemaVersion => db' = db]_schema

(* "Bring the database up to SCHEMA_VERSION, or refuse to touch it." While no
   statement fails of itself, an opening does one or the other. *)
OpeningBringsItUp == opening # "broken"
=============================================================================

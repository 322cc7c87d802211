--------------------------- MODULE ContainerProofs ---------------------------
(***************************************************************************)
(* Container, for any number of starts, signals and faults, over whatever  *)
(* an older or newer build left in the registry.                           *)
(***************************************************************************)
EXTENDS Container, SequenceTheorems, TLAPS

-----------------------------------------------------------------------------
(* The statements of an opening as what is among them. *)

Among(e, s) == \E i \in 1..Len(s) : s[i] = e

(* One statement, or none. *)
LEMMA AmongWhen ==
  ASSUME NEW c \in BOOLEAN, NEW e \in Statements
  PROVE  /\ When(c, e) \in Seq(Statements) /\ Len(When(c, e)) \in 0..1
         /\ \A x : Among(x, When(c, e)) <=> c /\ x = e
<1>1. CASE c
  <2>1. When(c, e) = <<e>>
    BY <1>1 DEF When
  <2>2. <<e>> \in Seq(Statements) /\ Len(<<e>>) = 1 /\ <<e>>[1] = e
    OBVIOUS
  <2>3. ASSUME NEW x PROVE Among(x, <<e>>) <=> x = e
    BY <2>2 DEF Among
  <2>4. When(c, e) \in Seq(Statements) /\ Len(When(c, e)) \in 0..1
    BY <2>1, <2>2
  <2> QED
    BY <1>1, <2>1, <2>3, <2>4, Zenon
<1>2. CASE ~c
  <2>1. When(c, e) = <<>>
    BY <1>2 DEF When
  <2>2. <<>> \in Seq(Statements) /\ Len(<<>>) = 0
    BY EmptySeq
  <2> QED
    BY <1>2, <2>1, <2>2 DEF Among
<1> QED
  BY <1>1, <1>2

(* Two lists of them, one after the other. *)
LEMMA AmongConcat ==
  ASSUME NEW s \in Seq(Statements), NEW t \in Seq(Statements)
  PROVE  /\ s \o t \in Seq(Statements) /\ Len(s \o t) = Len(s) + Len(t)
         /\ \A x : Among(x, s \o t) <=> Among(x, s) \/ Among(x, t)
<1>1. /\ s \o t \in Seq(Statements) /\ Len(s \o t) = Len(s) + Len(t)
      /\ \A i \in 1..(Len(s) + Len(t)) :
           (s \o t)[i] = IF i <= Len(s) THEN s[i] ELSE t[i - Len(s)]
      /\ Len(s) \in Nat /\ Len(t) \in Nat
  BY ConcatProperties, LenProperties
<1>2. ASSUME NEW x, Among(x, s \o t) PROVE Among(x, s) \/ Among(x, t)
  <2>1. PICK i \in 1..(Len(s) + Len(t)) : (s \o t)[i] = x
    BY <1>1, <1>2 DEF Among
  <2>2. CASE i <= Len(s)
    BY <1>1, <2>1, <2>2 DEF Among
  <2>3. CASE i > Len(s)
    <3>1. i - Len(s) \in 1..Len(t) /\ t[i - Len(s)] = x
      BY <1>1, <2>1, <2>3
    <3> QED
      BY <3>1 DEF Among
  <2> QED
    BY <1>1, <2>2, <2>3
<1>3. ASSUME NEW x, Among(x, s) PROVE Among(x, s \o t)
  <2>1. PICK i \in 1..Len(s) : s[i] = x
    BY <1>3 DEF Among
  <2>2. i \in 1..(Len(s) + Len(t)) /\ (s \o t)[i] = x
    BY <1>1, <2>1
  <2> QED
    BY <1>1, <2>2 DEF Among
<1>4. ASSUME NEW x, Among(x, t) PROVE Among(x, s \o t)
  <2>1. PICK i \in 1..Len(t) : t[i] = x
    BY <1>4 DEF Among
  <2>2. i + Len(s) \in 1..(Len(s) + Len(t)) /\ (s \o t)[i + Len(s)] = x
    BY <1>1, <2>1
  <2> QED
    BY <1>1, <2>2 DEF Among
<1> QED
  BY <1>1, <1>2, <1>3, <1>4

(* The first of them, and the rest. *)
LEMMA AmongTail ==
  ASSUME NEW s \in Seq(Statements), s # <<>>
  PROVE  /\ Head(s) \in Statements /\ Tail(s) \in Seq(Statements)
         /\ Len(Tail(s)) = Len(s) - 1 /\ Len(s) \in Nat \ {0}
         /\ \A i \in 1..Len(Tail(s)) : Tail(s)[i] = s[i + 1]
         /\ Head(s) = s[1]
         /\ \A x : Among(x, s) <=> x = Head(s) \/ Among(x, Tail(s))
<1>1. /\ Head(s) \in Statements /\ Tail(s) \in Seq(Statements)
      /\ Len(Tail(s)) = Len(s) - 1 /\ Len(s) \in Nat \ {0}
      /\ \A i \in 1..Len(Tail(s)) : Tail(s)[i] = s[i + 1]
      /\ Head(s) = s[1]
  BY HeadTailProperties, EmptySeq, LenProperties
<1>2. ASSUME NEW x, Among(x, s) PROVE x = Head(s) \/ Among(x, Tail(s))
  <2>1. PICK i \in 1..Len(s) : s[i] = x
    BY <1>2 DEF Among
  <2>2. CASE i = 1
    BY <1>1, <2>1, <2>2
  <2>3. CASE i # 1
    <3>1. i - 1 \in 1..Len(Tail(s)) /\ Tail(s)[i - 1] = x
      BY <1>1, <2>1, <2>3
    <3> QED
      BY <3>1 DEF Among
  <2> QED
    BY <2>2, <2>3
<1>3. ASSUME NEW x, x = Head(s) \/ Among(x, Tail(s)) PROVE Among(x, s)
  <2>1. CASE x = Head(s)
    BY <1>1, <2>1 DEF Among
  <2>2. CASE Among(x, Tail(s))
    <3>1. PICK i \in 1..Len(Tail(s)) : Tail(s)[i] = x
      BY <2>2 DEF Among
    <3>2. i + 1 \in 1..Len(s) /\ s[i + 1] = x
      BY <1>1, <3>1
    <3> QED
      BY <3>2 DEF Among
  <2> QED
    BY <1>3, <2>1, <2>2
<1> QED
  BY <1>1, <1>2, <1>3

(* What an opening sets out to do with each version. *)
LEMMA StepsCover ==
  ASSUME NEW v \in 0..SchemaVersion
  PROVE  /\ StepsFrom(v) \in Seq(Statements) /\ Len(StepsFrom(v)) \in 0..2
         /\ v = 0 => Len(StepsFrom(v)) = 1 /\ StepsFrom(v)[1] = "create"
         /\ v # 0 => \A x : Among(x, StepsFrom(v)) <=>
                              \/ v < 2 /\ x = "server_version"
                              \/ v < 3 /\ x = "verify"
<1>1. CASE v = 0
  <2>1. StepsFrom(v) = <<"create">>
    BY <1>1 DEF StepsFrom
  <2>2. <<"create">> \in Seq(Statements) /\ Len(<<"create">>) = 1
        /\ <<"create">>[1] = "create"
    BY DEF Statements
  <2> QED
    BY <1>1, <2>1, <2>2
<1>2. CASE v # 0
  <2>1. StepsFrom(v) = When(v < 2, "server_version") \o When(v < 3, "verify")
    BY <1>2 DEF StepsFrom
  <2>2. (v < 2) \in BOOLEAN /\ (v < 3) \in BOOLEAN
        /\ "server_version" \in Statements /\ "verify" \in Statements
    BY DEF Statements
  <2>3. /\ When(v < 2, "server_version") \in Seq(Statements)
        /\ Len(When(v < 2, "server_version")) \in 0..1
        /\ \A x : Among(x, When(v < 2, "server_version")) <=> v < 2 /\ x = "server_version"
    BY <2>2, AmongWhen
  <2>4. /\ When(v < 3, "verify") \in Seq(Statements)
        /\ Len(When(v < 3, "verify")) \in 0..1
        /\ \A x : Among(x, When(v < 3, "verify")) <=> v < 3 /\ x = "verify"
    BY <2>2, AmongWhen
  <2>5. /\ StepsFrom(v) \in Seq(Statements)
        /\ Len(StepsFrom(v)) = Len(When(v < 2, "server_version")) + Len(When(v < 3, "verify"))
        /\ \A x : Among(x, StepsFrom(v)) <=>
                    \/ Among(x, When(v < 2, "server_version")) \/ Among(x, When(v < 3, "verify"))
    BY <2>1, <2>3, <2>4, AmongConcat
  <2>6. Len(StepsFrom(v)) \in 0..2
    BY <2>3, <2>4, <2>5
  <2>7. \A x : Among(x, StepsFrom(v)) <=>
                \/ v < 2 /\ x = "server_version"
                \/ v < 3 /\ x = "verify"
    BY <2>3, <2>4, <2>5
  <2> QED
    BY <1>2, <2>5, <2>6, <2>7
<1> QED
  BY <1>1, <1>2

-----------------------------------------------------------------------------
(* The registry: what is there at each point of an opening. *)

(* The columns each version of the stamp before this build's vouches for. *)
Stamped ==
  /\ db.version = 1 => "base" \in db.columns
  /\ db.version = 2 => {"base", "server_version"} \subseteq db.columns

(* What a migration has still to do: the stamp comes last, and whatever column
   is not there is added before it, but for an older build's table without a
   version, and for what has its stamp already. *)
Planned ==
  /\ Understands(db.version) /\ todo \in Seq(Statements) /\ Len(todo) \in 1..3
  /\ \A i \in 1..Len(todo) : todo[i] = "stamp" <=> i = Len(todo)
  /\ \A c \in Columns : \/ c \in db.columns \/ Among(c, todo)
                        \/ db.columns = {} /\ todo[1] = "create"
                        \/ OldTable \/ db.version = SchemaVersion
  /\ db.version = 0 => \A c \in Columns : ~Among(c, todo)

RegistryInv ==
  /\ db \in [version : (0..SchemaVersion) \union {Newer}, columns : SUBSET Columns]
  /\ opening \in Openings
  /\ Stamped
  /\ IF opening = "migrating" THEN Planned ELSE todo = <<>>

(* Opening plans what the stamp does not vouch for. *)
LEMMA OpenKeeps == RegistryInv /\ Open => RegistryInv'
<1> SUFFICES ASSUME RegistryInv, Open PROVE RegistryInv'
  OBVIOUS
<1>1. CASE ~Understands(db.version)
  BY <1>1 DEF RegistryInv, Open, Stamped, Openings
<1>2. CASE Understands(db.version)
  <2> DEFINE v == db.version
             s == StepsFrom(v)
  <2>1. v \in 0..SchemaVersion
    BY <1>2, NewerAssumption DEF RegistryInv, Understands, SchemaVersion
  <2>2. /\ opening = "closed" /\ db' = db
        /\ opening' = "migrating" /\ todo' = Append(s, "stamp")
    BY <1>2 DEF Open
  <2>3. /\ s \in Seq(Statements) /\ Len(s) \in 0..2
        /\ v = 0 => Len(s) = 1 /\ s[1] = "create"
        /\ v # 0 => \A x : Among(x, s) <=>
                              \/ v < 2 /\ x = "server_version"
                              \/ v < 3 /\ x = "verify"
    BY <2>1, StepsCover
  <2> HIDE DEF s
  <2>4. ~Among("stamp", s) /\ (v = 0 => \A c \in Columns : ~Among(c, s))
    BY <2>3 DEF Among, Columns
  <2>5. /\ todo' \in Seq(Statements) /\ Len(todo') = Len(s) + 1
        /\ \A i \in 1..Len(s) : todo'[i] = s[i]
        /\ todo'[Len(s) + 1] = "stamp"
    BY <2>2, <2>3, AppendProperties DEF Statements
  <2>6. \A x : Among(x, todo') <=> Among(x, s) \/ x = "stamp"
    <3>1. ASSUME NEW x, Among(x, todo') PROVE Among(x, s) \/ x = "stamp"
      <4>1. PICK i \in 1..Len(s) + 1 : todo'[i] = x
        BY <2>5, <3>1 DEF Among
      <4> QED
        BY <2>3, <2>5, <4>1 DEF Among
    <3>2. ASSUME NEW x, Among(x, s) \/ x = "stamp" PROVE Among(x, todo')
      BY <2>3, <2>5, <3>2 DEF Among
    <3> QED
      BY <3>1, <3>2
  <2>7. \A i \in 1..Len(todo') : todo'[i] = "stamp" <=> i = Len(todo')
    BY <2>3, <2>4, <2>5 DEF Among
  <2>8. ASSUME NEW c \in Columns
        PROVE  \/ c \in db.columns \/ Among(c, todo')
               \/ db.columns = {} /\ todo'[1] = "create"
               \/ OldTable \/ db.version = SchemaVersion
    <3>1. v \in {0, 1, 2, 3}
      BY <2>1 DEF SchemaVersion
    <3>2. CASE v = 0
      BY <2>3, <2>5, <3>2 DEF OldTable
    <3>3. CASE v \in {1, 2, 3}
      BY <2>3, <2>6, <3>3
         DEF RegistryInv, Stamped, Columns, SchemaVersion
    <3> QED
      BY <3>1, <3>2, <3>3
  <2>9. v = 0 => \A c \in Columns : ~Among(c, todo')
    BY <2>4, <2>6 DEF Columns
  <2> QED
    BY <1>2, <2>2, <2>3, <2>5, <2>7, <2>8, <2>9
       DEF RegistryInv, Planned, Stamped, Openings, Understands, OldTable
<1> QED
  BY <1>1, <1>2

(* A statement that is run takes its place among what is there. *)
LEMMA MigrateKeeps == RegistryInv /\ Migrate => RegistryInv'
<1> SUFFICES ASSUME RegistryInv, Migrate PROVE RegistryInv'
  OBVIOUS
<1> DEFINE rest == Tail(todo)
<1>1. /\ opening = "migrating" /\ Understands(db.version)
      /\ todo \in Seq(Statements) /\ Len(todo) \in 1..3
      /\ db.version \in 0..SchemaVersion
  BY NewerAssumption DEF Migrate, RegistryInv, Planned, Understands, SchemaVersion
<1>2. todo # <<>>
  <2>1. todo = <<>> => Len(todo) = 0
    OBVIOUS
  <2>2. Len(todo) \in 1..3
    BY <1>1, Zenon
  <2>3. Len(todo) # 0
    BY <2>2
  <2> QED
    BY <2>1, <2>3, Zenon
<1>3. /\ Head(todo) \in Statements /\ rest \in Seq(Statements) /\ Len(rest) = Len(todo) - 1
      /\ \A i \in 1..Len(rest) : rest[i] = todo[i + 1]
      /\ Head(todo) = todo[1]
      /\ \A x : Among(x, todo) <=> x = Head(todo) \/ Among(x, rest)
  BY <1>1, <1>2, AmongTail
<1>4. /\ \A i \in 1..Len(todo) : todo[i] = "stamp" <=> i = Len(todo)
      /\ \A c \in Columns : \/ c \in db.columns \/ Among(c, todo)
                            \/ db.columns = {} /\ todo[1] = "create"
                            \/ OldTable \/ db.version = SchemaVersion
      /\ db.version = 0 => \A c \in Columns : ~Among(c, todo)
  BY <1>1 DEF RegistryInv, Planned
<1> HIDE DEF rest
<1>5. ASSUME todo' = rest, Head(todo) # "stamp"
      PROVE  /\ todo' \in Seq(Statements) /\ Len(todo') \in 1..3
             /\ \A i \in 1..Len(todo') : todo'[i] = "stamp" <=> i = Len(todo')
             /\ db.version = 0 => \A c \in Columns : ~Among(c, todo')
  <2>1. todo[1] # "stamp" /\ Len(todo) \in {2, 3}
    BY <1>1, <1>3, <1>4, <1>5
  <2>2. todo' \in Seq(Statements) /\ Len(todo') \in 1..3
    <3>1. rest \in Seq(Statements) /\ Len(rest) \in 1..3
      BY <1>3, <2>1
    <3> QED
      BY <1>5, <3>1, Zenon
  <2>3. ASSUME NEW i \in 1..Len(todo') PROVE todo'[i] = "stamp" <=> i = Len(todo')
    <3>1. i + 1 \in 1..Len(todo) /\ todo'[i] = todo[i + 1] /\ Len(todo') = Len(todo) - 1
      BY <1>3, <1>5, <2>1, <2>3
    <3> QED
      BY <1>4, <2>1, <3>1
  <2>4. db.version = 0 => \A c \in Columns : ~Among(c, todo')
    BY <1>3, <1>4, <1>5
  <2> QED
    BY <2>2, <2>3, <2>4
<1>6. CASE CreateTable
  <2>1. /\ Head(todo) = "create" /\ todo' = rest /\ opening' = opening
        /\ db' = IF db.columns = {} THEN [db EXCEPT !.columns = Columns] ELSE db
    BY <1>6 DEF CreateTable, rest
  <2>2. ASSUME NEW c \in Columns
        PROVE  \/ c \in db'.columns \/ Among(c, todo')
               \/ OldTable' \/ db'.version = SchemaVersion
    <3>1. CASE db.columns = {}
      BY <2>1, <3>1 DEF RegistryInv
    <3>2. CASE db.columns # {}
      BY <1>3, <1>4, <2>1, <3>2 DEF RegistryInv, Columns, OldTable
    <3> QED
      BY <3>1, <3>2
  <2>3. db'.version = db.version /\ Stamped'
    BY <1>1, <2>1 DEF RegistryInv, Stamped, Columns
  <2> QED
    BY <1>1, <1>5, <2>1, <2>2, <2>3 DEF RegistryInv, Planned, Understands
<1>7. CASE AddColumn
  <2>1. /\ Head(todo) \in Columns /\ Head(todo) \notin db.columns /\ todo' = rest
        /\ db' = [db EXCEPT !.columns = db.columns \union {Head(todo)}] /\ opening' = opening
    BY <1>7 DEF AddColumn, rest
  <2>2. db.version # 0
    BY <1>3, <1>4, <2>1
  <2>3. ASSUME NEW c \in Columns
        PROVE  c \in db'.columns \/ Among(c, todo') \/ db'.version = SchemaVersion
    BY <1>3, <1>4, <2>1, <2>2 DEF RegistryInv, Columns, OldTable
  <2>4. db'.version = db.version /\ Stamped'
    BY <1>1, <2>1, <2>2 DEF RegistryInv, Stamped, Columns
  <2>5. Head(todo) # "stamp"
    BY <2>1 DEF Columns
  <2> QED
    BY <1>1, <1>5, <2>1, <2>3, <2>4, <2>5 DEF RegistryInv, Planned, Understands
<1>8. CASE ColumnIsThere
  BY <1>8 DEF ColumnIsThere, RegistryInv, Stamped, Openings
<1>9. CASE Stamp
  <2>1. /\ Head(todo) = "stamp" /\ todo' = <<>> /\ opening' = "open"
        /\ db' = [db EXCEPT !.version = SchemaVersion]
    BY <1>9 DEF Stamp
  <2> QED
    BY <2>1 DEF RegistryInv, Stamped, Openings, SchemaVersion
<1> QED
  BY <1>6, <1>7, <1>8, <1>9 DEF Migrate

(* Everything else that happens to the registry. *)
SchemaNext == Open \/ Migrate \/ StatementFails \/ Close \/ UpgradeElsewhere

LEMMA RegistryKeeps == RegistryInv /\ [SchemaNext]_schema => RegistryInv'
<1> SUFFICES ASSUME RegistryInv, [SchemaNext]_schema PROVE RegistryInv'
  OBVIOUS
<1>1. CASE StatementFails
  BY <1>1 DEF StatementFails, RegistryInv, Stamped, Openings
<1>2. CASE Close
  BY <1>2 DEF Close, RegistryInv, Stamped, Openings
<1>3. CASE UpgradeElsewhere
  BY <1>3, NewerAssumption
     DEF UpgradeElsewhere, RegistryInv, Stamped, Openings, SchemaVersion
<1>4. CASE UNCHANGED schema
  BY <1>4 DEF schema, RegistryInv, Stamped, Planned, OldTable
<1> QED
  BY <1>1, <1>2, <1>3, <1>4, OpenKeeps, MigrateKeeps DEF SchemaNext

(* The container does nothing else to it. *)
LEMMA ContainerIsSchema == [Next]_vars => [SchemaNext]_schema
<1> SUFFICES ASSUME [Next]_vars PROVE [SchemaNext]_schema
  OBVIOUS
<1> USE DEF SchemaNext
<1>1. CASE UNCHANGED vars
  BY <1>1 DEF vars, schema
<1>2. CASE Script
  BY <1>2
     DEF Script, Configure, StartApi, StartWeb, SetTrap, Interrupted, TrapRuns, WaitReturns,
         TellsBoth, Shutdown, EverythingGoes
<1>3. CASE Api
  BY <1>3
     DEF Api, Binds, Opens, RegistryOpens, Serves, Fatal, Drained, Left, GraceEnds, ApiLeaves
<1>4. CASE NginxSteps
  BY <1>4 DEF NginxSteps, WebServes, WebQuits, WebWrites, ClientStalls, PassesOn, WebOnly
<1>5. CASE ContainerStarts \/ ConfigureFails \/ Signalled \/ DockerKills
  BY <1>5 DEF ContainerStarts, ConfigureFails, Signalled, DockerKills, EverythingGoes
<1>6. CASE StatementGoesWrong \/ ApiDies \/ WebDies
  BY <1>6 DEF StatementGoesWrong, ApiDies, WebDies, ApiLeaves, WebOnly
<1>7. CASE DownloadStarts \/ ApiWrites \/ TailArrives \/ Elsewhere
  BY <1>7 DEF DownloadStarts, ApiWrites, TailArrives, PassesOn, WebOnly, Elsewhere
<1> QED
  BY <1>1, <1>2, <1>3, <1>4, <1>5, <1>6, <1>7 DEF Next

LEMMA RegistryInvHolds == Spec => []RegistryInv
<1>1. Init => RegistryInv
  BY NewerAssumption
     DEF Init, SchemaInit, Databases, RegistryInv, Stamped, Columns,
         SchemaVersion, Openings
<1>2. RegistryInv /\ [Next]_vars => RegistryInv'
  BY RegistryKeeps, ContainerIsSchema
<1> QED
  BY <1>1, <1>2, PTL DEF Spec

(* Whatever is stamped has all of the schema's columns by then, however often
   its creation or its migration was cut short, unless it is an older build's
   table without a version (migrate of registry.rs). *)
THEOREM StampsAreComplete == Spec => StampedIsComplete
<1>1. ASSUME RegistryInv, [SchemaNext]_schema,
             db.version # SchemaVersion, db'.version = SchemaVersion
      PROVE  db'.columns = Columns \/ OldTable
  <2>1. opening = "migrating" /\ Stamp /\ Planned
    BY <1>1, NewerAssumption
       DEF SchemaNext, schema, Open, Migrate, CreateTable, AddColumn, ColumnIsThere,
           StatementFails, Close, UpgradeElsewhere, RegistryInv
  <2>2. /\ Head(todo) = "stamp" /\ db'.columns = db.columns
        /\ todo \in Seq(Statements) /\ Len(todo) \in 1..3
        /\ \A i \in 1..Len(todo) : todo[i] = "stamp" <=> i = Len(todo)
    BY <1>1, <2>1 DEF Stamp, Planned, RegistryInv
  <2>3. Len(todo) = 1 /\ todo[1] = "stamp"
    <3>1. todo # <<>>
      BY <2>2
    <3>2. todo[1] = "stamp"
      BY <2>2, <3>1, AmongTail
    <3>3. 1 \in 1..Len(todo) /\ (todo[1] = "stamp" <=> 1 = Len(todo))
      BY <2>2
    <3> QED
      BY <3>2, <3>3
  <2>4. ASSUME NEW c \in Columns, ~OldTable PROVE c \in db.columns
    BY <1>1, <2>1, <2>3, <2>4 DEF Planned, Among, Columns
  <2> QED
    BY <1>1, <2>2, <2>4 DEF RegistryInv
<1>2. RegistryInv /\ [Next]_vars
        => [db.version # SchemaVersion /\ db'.version = SchemaVersion
              => db'.columns = Columns \/ OldTable]_schema
  BY <1>1, ContainerIsSchema
<1> QED
  BY <1>2, RegistryInvHolds, PTL DEF Spec, StampedIsComplete

(* A database of a newer build is not written to: the version is looked at
   before the first statement, and does not change between the two. *)
THEOREM NewerDatabasesAreLeftAlone == Spec => FutureIsUntouched
<1>1. ASSUME RegistryInv, [SchemaNext]_schema PROVE db.version > SchemaVersion => db' = db
  BY <1>1, NewerAssumption
     DEF RegistryInv, Planned, Understands, SchemaNext, schema, Open, Migrate, StatementFails,
         Close, UpgradeElsewhere, SchemaVersion
<1>2. RegistryInv /\ [Next]_vars => [db.version > SchemaVersion => db' = db]_schema
  BY <1>1, ContainerIsSchema
<1> QED
  BY <1>2, RegistryInvHolds, PTL DEF Spec, FutureIsUntouched

-----------------------------------------------------------------------------
(* The processes. *)

ProcessTypeOK ==
  /\ pid1 \in Trapped \union {"down", "configuring", "starting api", "starting web", "trapping"}
  /\ api \in Booting \union {"absent", "serving", "draining", "leaving", "gone"}
  /\ web \in {"absent", "starting", "serving", "quitting", "gone"}
  /\ transfer \in {"none", "flowing", "relayed", "queued", "delivered", "cut", "short"}
  /\ docker \in {"keeping", "stopping", "stopped"}
  /\ starts \in 0..MaxStarts /\ signals \in 0..MaxSignals /\ faults \in 0..MaxFaults

FlagsOK == pending \in BOOLEAN /\ excused \in BOOLEAN

(* The children are started in turn, and only then is there a download, which
   has alive whichever of them has something of it to pass on. *)
FlowsThroughBoth ==
  /\ pid1 \in {"configuring", "starting api"} => api = "absent"
  /\ pid1 \in {"configuring", "starting api", "starting web"} => web = "absent"
  /\ transfer = "flowing" => api \in {"serving", "draining"}
  /\ transfer \in InFlight => api \in Leaving \union {"serving"} /\ web \in {"serving", "quitting"}

(* A signal that can interrupt the wait for a child to leave came during it, or
   a child was already gone, and what it had of the download with it. *)
LateSignalsAreExcused ==
  pending /\ (pid1 \in {"stopping", "waiting api", "waiting web"} \/ api \in Leaving)
    => excused \/ ("gone" \in {api, web} /\ transfer \notin InFlight)

ProcessInv ==
  ProcessTypeOK /\ FlagsOK /\ FlowsThroughBoth /\ LateSignalsAreExcused /\ OnlyTheTailIsLost

(* shutdown reaches a download only at processes that pass on what they have. *)
LEMMA ShutdownSpares ==
  ASSUME ProcessInv, Shutdown
  PROVE  /\ api' \in Booting \union {"absent", "serving", "draining", "leaving", "gone"}
         /\ web' \in {"absent", "starting", "serving", "quitting", "gone"}
         /\ transfer' = transfer
         /\ transfer = "flowing" => api' = "draining"
         /\ transfer \in InFlight => api' \in Leaving /\ web' = "quitting"
         /\ api = "gone" => api' = "gone"
         /\ web = "gone" => web' = "gone"
<1>1. /\ api \in Booting => api' = "gone"
      /\ api = "serving" => api' = "draining"
      /\ api \in Leaving \union {"absent"} => api' = api
  BY DEF Shutdown, Booting, Leaving
<1>2. /\ web = "serving" => web' = "quitting"
      /\ web # "serving" => web' = web
  BY DEF Shutdown
<1>3. transfer' = transfer
  BY DEF Shutdown
<1> QED
  BY <1>1, <1>2, <1>3 DEF ProcessInv, ProcessTypeOK, FlowsThroughBoth, Booting, Leaving, InFlight

(* Faults and signals are counted up to their bounds. *)
LEMMA CountsAreBounded ==
  ASSUME ProcessTypeOK
  PROVE  /\ \A kind : Fault(kind) => faults' \in 0..MaxFaults
         /\ signals < MaxSignals /\ signals' = signals + 1 => signals' \in 0..MaxSignals
<1>1. /\ faults \in 0..MaxFaults /\ MaxFaults \in Nat
      /\ signals \in 0..MaxSignals /\ MaxSignals \in Nat
  BY ContainerAssumption DEF ProcessTypeOK
<1>2. ASSUME NEW kind, Fault(kind) PROVE faults' \in 0..MaxFaults
  BY <1>1, <1>2 DEF Fault
<1>3. ASSUME signals < MaxSignals, signals' = signals + 1 PROVE signals' \in 0..MaxSignals
  BY <1>1, <1>3
<1> QED
  BY <1>2, <1>3

(* The processes keep their types. *)
LEMMA ProcessTypesKeep == ProcessInv /\ [Next]_vars => ProcessTypeOK'
<1> SUFFICES ASSUME ProcessInv, [Next]_vars PROVE ProcessTypeOK'
  OBVIOUS
<1> ProcessTypeOK
  BY DEF ProcessInv
<1>0. CASE UNCHANGED vars
  BY <1>0 DEF vars, ProcessTypeOK
(* The script. *)
<1>1. CASE Configure \/ StartApi \/ StartWeb \/ SetTrap
  <2>1. /\ pid1' \in Trapped \union {"starting api", "starting web", "trapping"}
        /\ api' = "binding" \/ api' = api
        /\ web' = "starting" \/ web' = web
        /\ UNCHANGED <<transfer, docker, starts, signals, faults>>
    BY <1>1 DEF Configure, StartApi, StartWeb, SetTrap, Trapped, Waits
  <2>2. /\ api' \in Booting \union {"absent", "serving", "draining", "leaving", "gone"}
        /\ web' \in {"absent", "starting", "serving", "quitting", "gone"}
    BY <2>1 DEF ProcessTypeOK, Booting
  <2> QED
    BY <2>1, <2>2 DEF ProcessTypeOK
<1> USE ContainerAssumption DEF ProcessTypeOK, Trapped, Waits, Booting
<1>2. CASE ConfigureFails
  BY <1>2 DEF ConfigureFails, EverythingGoes, Cut, Fault
<1>3. CASE Interrupted
  <2>1. CASE pid1 = "waiting web"
    BY <1>3, <2>1 DEF Interrupted, After, EverythingGoes, Cut
  <2>2. CASE pid1 \in {"waiting any", "waiting api"}
    <3>1. /\ pid1' \in {"stopping", "waiting web"} /\ Shutdown
          /\ pending' = FALSE /\ UNCHANGED <<docker, starts, signals, faults, excused>>
      BY <1>3, <2>2 DEF Interrupted, After
    <3> QED
      BY <3>1, ShutdownSpares
  <2> QED
    BY <1>3, <2>1, <2>2 DEF Interrupted
<1>4. CASE TrapRuns
  BY <1>4, ShutdownSpares DEF TrapRuns
<1>5. CASE WaitReturns
  <2>1. CASE pid1 = "waiting any"
    BY <1>5, <2>1 DEF WaitReturns, WaitedFor, After
  <2>2. CASE pid1 = "waiting api"
    BY <1>5, <2>2 DEF WaitReturns, WaitedFor, After
  <2>3. CASE pid1 = "waiting web"
    BY <1>5, <2>3 DEF WaitReturns, WaitedFor, After, EverythingGoes, Cut
  <2> QED
    BY <1>5, <2>1, <2>2, <2>3 DEF WaitReturns, WaitedFor
<1>6. CASE TellsBoth
  <2>1. pid1 = "stopping" /\ pid1' = "waiting api" /\ Shutdown
        /\ UNCHANGED <<pending, docker, starts, signals, faults, excused>>
    BY <1>6 DEF TellsBoth, After
  <2> QED
    BY <2>1, ShutdownSpares
(* Docker. *)
<1>7. CASE ContainerStarts
  BY <1>7 DEF ContainerStarts
<1>8. CASE Signalled
  <2>1. /\ signals < MaxSignals /\ signals' = signals + 1 /\ docker' = "stopping"
        /\ UNCHANGED <<pid1, api, web, transfer, starts, faults>>
    BY <1>8, Zenon DEF Signalled
  <2>2. signals' \in 0..MaxSignals
    BY <2>1, CountsAreBounded, Zenon
  <2> QED
    BY <2>1, <2>2
<1>9. CASE DockerKills
  BY <1>9 DEF DockerKills, EverythingGoes, Cut
(* The API. *)
<1>10. CASE Binds \/ Opens \/ RegistryOpens \/ Serves
  BY <1>10 DEF Binds, Opens, RegistryOpens, Serves, ApiAt, ApiOnly
<1>11. CASE Fatal \/ Drained \/ Left
  BY <1>11 DEF Fatal, Drained, Left, ApiLeaves, Cut, ApiOnly
<1>12. CASE GraceEnds \/ ApiDies
  <2>1. faults' \in 0..MaxFaults
    BY <1>12, CountsAreBounded DEF GraceEnds, ApiDies
  <2> QED
    BY <1>12, <2>1 DEF GraceEnds, ApiDies, ApiLeaves, Cut, ApiOnly
<1>13. CASE StatementGoesWrong
  <2>1. faults' \in 0..MaxFaults
    BY <1>13, CountsAreBounded DEF StatementGoesWrong
  <2> QED
    BY <1>13, <2>1 DEF StatementGoesWrong, ApiOnly
(* nginx, and the download. *)
<1>14. CASE WebServes \/ WebQuits \/ WebWrites \/ ClientStalls
  BY <1>14 DEF WebServes, WebQuits, WebWrites, ClientStalls, PassesOn, WebOnly
<1>15. CASE WebDies
  <2>1. faults' \in 0..MaxFaults
    BY <1>15, CountsAreBounded DEF WebDies
  <2> QED
    BY <1>15, <2>1 DEF WebDies, WebOnly, Cut
<1>16. CASE DownloadStarts \/ ApiWrites \/ TailArrives
  BY <1>16 DEF DownloadStarts, ApiWrites, TailArrives, PassesOn, WebOnly
<1>17. CASE Elsewhere
  BY <1>17 DEF Elsewhere
<1> QED
  BY <1>0, <1>1, <1>2, <1>3, <1>4, <1>5, <1>6, <1>7, <1>8, <1>9, <1>10, <1>11, <1>12, <1>13,
     <1>14, <1>15, <1>16, <1>17 DEF Next, Script, Api, NginxSteps

(* A download, and what excuses one that is cut. *)
LEMMA DownloadsKeep ==
  ProcessInv /\ [Next]_vars => FlowsThroughBoth' /\ LateSignalsAreExcused' /\ OnlyTheTailIsLost'
<1> SUFFICES ASSUME ProcessInv, [Next]_vars
             PROVE  FlowsThroughBoth' /\ LateSignalsAreExcused' /\ OnlyTheTailIsLost'
  OBVIOUS
<1> FlowsThroughBoth /\ LateSignalsAreExcused /\ OnlyTheTailIsLost
  BY DEF ProcessInv
<1> USE DEF FlowsThroughBoth, LateSignalsAreExcused, OnlyTheTailIsLost, Trapped, Waits,
            Booting, InFlight, Leaving
<1>0. CASE UNCHANGED vars
  BY <1>0 DEF vars
(* The script. *)
<1>1. CASE Configure \/ StartApi \/ StartWeb \/ SetTrap
  <2>1. FlowsThroughBoth'
    BY <1>1 DEF Configure, StartApi, StartWeb, SetTrap
  <2>2. LateSignalsAreExcused'
    BY <1>1 DEF Configure, StartApi, StartWeb, SetTrap
  <2>3. OnlyTheTailIsLost'
    BY <1>1 DEF Configure, StartApi, StartWeb, SetTrap
  <2> QED
    BY <2>1, <2>2, <2>3
<1>2. CASE ConfigureFails
  BY <1>2 DEF ConfigureFails, EverythingGoes, Cut
<1>3. CASE Interrupted
  <2>1. CASE pid1 = "waiting web"
    BY <1>3, <2>1 DEF Interrupted, After, EverythingGoes, Cut
  <2>2. CASE pid1 \in {"waiting any", "waiting api"}
    <3>1. /\ pid1' \in {"stopping", "waiting web"} /\ Shutdown
          /\ pending' = FALSE /\ UNCHANGED <<docker, starts, signals, faults, excused>>
      BY <1>3, <2>2 DEF Interrupted, After
    <3> QED
      BY <3>1, ShutdownSpares
  <2> QED
    BY <1>3, <2>1, <2>2 DEF Interrupted
<1>4. CASE TrapRuns
  BY <1>4, ShutdownSpares DEF TrapRuns
<1>5. CASE WaitReturns
  <2>1. CASE pid1 = "waiting any"
    BY <1>5, <2>1 DEF WaitReturns, WaitedFor, After
  <2>2. CASE pid1 = "waiting api"
    BY <1>5, <2>2 DEF WaitReturns, WaitedFor, After
  <2>3. CASE pid1 = "waiting web"
    BY <1>5, <2>3 DEF WaitReturns, WaitedFor, After, EverythingGoes, Cut
  <2> QED
    BY <1>5, <2>1, <2>2, <2>3 DEF WaitReturns, WaitedFor
<1>6. CASE TellsBoth
  <2>1. pid1 = "stopping" /\ pid1' = "waiting api" /\ Shutdown
        /\ UNCHANGED <<pending, docker, starts, signals, faults, excused>>
    BY <1>6 DEF TellsBoth, After
  <2>2. FlowsThroughBoth'
    BY <2>1, ShutdownSpares
  <2>3. LateSignalsAreExcused'
    <3>1. pending' = pending /\ excused' = excused /\ transfer' = transfer
      BY <2>1, ShutdownSpares
    <3>2. "gone" \in {api, web} => "gone" \in {api', web'}
      BY <2>1, ShutdownSpares
    <3>3. pid1 \in {"stopping", "waiting api", "waiting web"}
      BY <2>1
    <3> QED
      BY <3>1, <3>2, <3>3, Zenon
  <2>4. OnlyTheTailIsLost'
    BY <2>1, ShutdownSpares
  <2> QED
    BY <2>2, <2>3, <2>4
(* Docker. *)
<1>7. CASE ContainerStarts
  BY <1>7 DEF ContainerStarts
<1>8. CASE Signalled
  BY <1>8 DEF Signalled
<1>9. CASE DockerKills
  BY <1>9 DEF DockerKills, EverythingGoes, Cut
(* The API. *)
<1>10. CASE Binds \/ Opens \/ RegistryOpens \/ Serves
  <2>1. FlowsThroughBoth'
    BY <1>10 DEF Binds, Opens, RegistryOpens, Serves, ApiAt, ApiOnly
  <2>2. LateSignalsAreExcused'
    BY <1>10 DEF Binds, Opens, RegistryOpens, Serves, ApiAt, ApiOnly
  <2>3. OnlyTheTailIsLost'
    BY <1>10 DEF Binds, Opens, RegistryOpens, Serves, ApiAt, ApiOnly
  <2> QED
    BY <2>1, <2>2, <2>3
<1>11. CASE Fatal \/ Drained \/ Left
  <2>1. CASE Fatal
    BY <1>11, <2>1 DEF Fatal, ApiLeaves, Cut, ApiOnly
  <2>2. CASE Drained
    <3>1. FlowsThroughBoth'
      BY <2>2 DEF Drained, ApiOnly
    <3>2. LateSignalsAreExcused'
      BY <2>2 DEF Drained, ApiOnly
    <3>3. OnlyTheTailIsLost'
      BY <2>2 DEF Drained, ApiOnly
    <3> QED
      BY <3>1, <3>2, <3>3
  <2>3. CASE Left
    BY <2>3 DEF Left, ApiLeaves, Cut, ApiOnly
  <2> QED
    BY <1>11, <2>1, <2>2, <2>3
<1>12. CASE GraceEnds \/ ApiDies
  BY <1>12 DEF GraceEnds, ApiDies, ApiLeaves, Cut, ApiOnly
<1>13. CASE StatementGoesWrong
  BY <1>13 DEF StatementGoesWrong, ApiOnly
(* nginx, and the download. *)
<1>14. CASE WebServes \/ WebQuits \/ WebWrites \/ ClientStalls
  <2>1. FlowsThroughBoth'
    BY <1>14 DEF WebServes, WebQuits, WebWrites, ClientStalls, PassesOn, WebOnly
  <2>2. LateSignalsAreExcused'
    BY <1>14 DEF WebServes, WebQuits, WebWrites, ClientStalls, PassesOn, WebOnly
  <2>3. OnlyTheTailIsLost'
    BY <1>14 DEF WebServes, WebQuits, WebWrites, ClientStalls, PassesOn, WebOnly
  <2> QED
    BY <2>1, <2>2, <2>3
<1>15. CASE WebDies
  BY <1>15 DEF WebDies, WebOnly, Cut
<1>16. CASE DownloadStarts \/ ApiWrites \/ TailArrives
  <2>1. FlowsThroughBoth'
    BY <1>16 DEF DownloadStarts, ApiWrites, TailArrives, PassesOn, WebOnly
  <2>2. LateSignalsAreExcused'
    BY <1>16 DEF DownloadStarts, ApiWrites, TailArrives, PassesOn, WebOnly
  <2>3. OnlyTheTailIsLost'
    BY <1>16 DEF DownloadStarts, ApiWrites, TailArrives, PassesOn, WebOnly
  <2> QED
    BY <2>1, <2>2, <2>3
<1>17. CASE Elsewhere
  BY <1>17 DEF Elsewhere
<1> QED
  BY <1>0, <1>1, <1>2, <1>3, <1>4, <1>5, <1>6, <1>7, <1>8, <1>9, <1>10, <1>11, <1>12, <1>13,
     <1>14, <1>15, <1>16, <1>17 DEF Next, Script, Api, NginxSteps

(* The two flags. *)
LEMMA FlagsKeep == FlagsOK /\ [Next]_vars => FlagsOK'
<1> SUFFICES ASSUME FlagsOK, [Next]_vars PROVE FlagsOK'
  OBVIOUS
<1> USE DEF FlagsOK
<1>1. CASE UNCHANGED vars
  BY <1>1 DEF vars
<1>2. CASE Script
  BY <1>2, Zenon
     DEF Script, Configure, StartApi, StartWeb, SetTrap, Interrupted, TrapRuns, WaitReturns,
         TellsBoth, EverythingGoes
<1>3. CASE Api
  BY <1>3, Zenon
     DEF Api, Binds, Opens, RegistryOpens, Serves, Fatal, Drained, Left, GraceEnds, ApiAt,
         ApiLeaves, ApiOnly
<1>4. CASE NginxSteps \/ StatementGoesWrong \/ ApiDies \/ WebDies
  BY <1>4, Zenon
     DEF NginxSteps, WebServes, WebQuits, WebWrites, ClientStalls, PassesOn, WebOnly,
         StatementGoesWrong, ApiDies, WebDies, ApiLeaves, ApiOnly
<1>5. CASE ContainerStarts \/ ConfigureFails \/ DockerKills
  BY <1>5, Zenon DEF ContainerStarts, ConfigureFails, DockerKills, EverythingGoes
<1>6. CASE Signalled
  BY <1>6, Zenon DEF Signalled
<1>7. CASE DownloadStarts \/ ApiWrites \/ TailArrives \/ Elsewhere
  BY <1>7, Zenon DEF DownloadStarts, ApiWrites, TailArrives, PassesOn, WebOnly, Elsewhere
<1> QED
  BY <1>1, <1>2, <1>3, <1>4, <1>5, <1>6, <1>7 DEF Next

LEMMA ProcessInvHolds == Spec => []ProcessInv
<1>1. Init => ProcessInv
  <2> SUFFICES ASSUME Init PROVE ProcessInv
    OBVIOUS
  <2>1. ProcessTypeOK
    BY ContainerAssumption DEF Init, ProcessTypeOK
  <2>2. FlagsOK
    BY Zenon DEF Init, FlagsOK
  <2>3. FlowsThroughBoth /\ LateSignalsAreExcused /\ OnlyTheTailIsLost
    BY DEF Init, FlowsThroughBoth, LateSignalsAreExcused, OnlyTheTailIsLost, InFlight, Leaving
  <2> QED
    BY <2>1, <2>2, <2>3 DEF ProcessInv
<1>2. ProcessInv /\ [Next]_vars => ProcessInv'
  BY ProcessTypesKeep, DownloadsKeep, FlagsKeep DEF ProcessInv
<1> QED
  BY <1>1, <1>2, PTL DEF Spec

(* Whenever the container is stopped, its processes pass on all they have of a
   download, unless a deadline, a second signal, a death or a client that does
   not read ends it (the shutdown of entrypoint.sh): what is lost then is what
   the kernel had queued. *)
THEOREM StopsCostTheTailAtMost == Spec => []OnlyTheTailIsLost
<1>1. ProcessInv => OnlyTheTailIsLost
  BY DEF ProcessInv
<1> QED
  BY <1>1, ProcessInvHolds, PTL

(* Every variable of the container keeps its type. *)
THEOREM TypeCorrect == Spec => []TypeOK
<1>1. ASSUME RegistryInv PROVE SchemaTypeOK
  <2>1. CASE opening = "migrating"
    <3>1. todo \in Seq(Statements) /\ Len(todo) \in 0..3
      BY <1>1, <2>1 DEF RegistryInv, Planned
    <3>2. todo \in [1..Len(todo) -> Statements]
      BY <3>1, LenProperties
    <3> QED
      BY <1>1, <3>1, <3>2 DEF SchemaTypeOK, RegistryInv
  <2>2. CASE opening # "migrating"
    <3>1. todo = <<>> /\ <<>> \in [1..0 -> Statements]
      BY <1>1, <2>2 DEF RegistryInv
    <3> QED
      BY <1>1, <3>1 DEF SchemaTypeOK, RegistryInv
  <2> QED
    BY <2>1, <2>2
<1>2. RegistryInv /\ ProcessInv => TypeOK
  BY <1>1 DEF ProcessInv, ProcessTypeOK, FlagsOK, TypeOK
<1> QED
  BY <1>2, RegistryInvHolds, ProcessInvHolds, PTL

=============================================================================

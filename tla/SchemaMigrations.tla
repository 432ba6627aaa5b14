------------------------- MODULE SchemaMigrations -------------------------
(***************************************************************************)
(* Alembic commands against the database: alembic upgrade head and         *)
(* alembic downgrade, as infra/migrations/env.py runs them - every script   *)
(* of a command inside one transaction.  A statement that PostgreSQL       *)
(* refuses, or an operator who loses the connection, rolls the whole        *)
(* command back.  What PostgreSQL does with a statement is external.        *)
(* SchemaCatalogue has the tables of both scripts and of the models.       *)
(***************************************************************************)
EXTENDS Sequences, Naturals

CONSTANTS
  Created,       \* the tables of the initial script, in the order it creates them
  Dropped,       \* their names, in the order its downgrade drops them
  Added,         \* the table that the phase 2 script creates
  AddedTypes,    \* the enum types it creates, in order
  Altering,      \* the table it adds columns and a foreign key to
  AlteringTypes, \* the enum types of those columns
  AlteringKey,   \* the foreign key
  Declared       \* the tables the models declare

Initial == {Created[i] : i \in DOMAIN Created}
NamesOf(tables) == {t.name : t \in tables}
Targets(t) == {k.table : k \in t.keys}

KeyRow == [column : STRING, table : STRING, on_delete : {"NO ACTION", "CASCADE"}]
TableRow ==
  [name : STRING, keys : SUBSET KeyRow, types : SUBSET STRING, unique : SUBSET (SUBSET STRING)]

(* What the scripts are: tables of names and enum types of their own, each
   created after the tables it refers to and dropped before them ... *)
InitialScript ==
  /\ Created \in Seq(TableRow)
  /\ \A i, j \in DOMAIN Created : i # j =>
       Created[i].name # Created[j].name /\ Created[i].types \intersect Created[j].types = {}
  /\ \A i \in DOMAIN Created :
       Targets(Created[i]) \subseteq {Created[j].name : j \in 1..i}
  /\ Dropped \in Seq(STRING)
  /\ {Dropped[i] : i \in DOMAIN Dropped} = NamesOf(Initial)
  /\ \A i, j \in DOMAIN Dropped : i < j =>
       /\ Dropped[i] # Dropped[j]
       /\ \A t \in Initial : t.name = Dropped[j] => Dropped[i] \notin Targets(t)

(* ... and one table with types that phase 2 adds, with columns and a key that
   no table had before, so that the models are what results. *)
PhaseTwoScript ==
  /\ Added \in TableRow
  /\ Added.name \notin NamesOf(Initial)
  /\ Targets(Added) \subseteq NamesOf(Initial) \union {Added.name}
  /\ AddedTypes \in Seq(STRING)
  /\ \A i, j \in DOMAIN AddedTypes : i # j => AddedTypes[i] # AddedTypes[j]
  /\ \A i \in DOMAIN AddedTypes : \A t \in Initial : AddedTypes[i] \notin t.types
  /\ Added.types \union AlteringTypes = {AddedTypes[i] : i \in DOMAIN AddedTypes}
  /\ Altering \in NamesOf(Initial)
  /\ AlteringKey \in KeyRow
  /\ AlteringKey.table \in NamesOf(Initial) \union {Added.name}
  /\ \A t \in Initial : t.name = Altering => AlteringKey \notin t.keys
  /\ Declared = {Added} \union
       {IF t.name = Altering
        THEN [t EXCEPT !.types = @ \union AlteringTypes, !.keys = @ \union {AlteringKey}]
        ELSE t : t \in Initial}

ASSUME CatalogueAssumption == InitialScript /\ PhaseTwoScript

VARIABLES
  schema,    \* the committed schema: its tables, enum types and alembic_version
  draft,     \* the schema as the open transaction sees it
  script,    \* the statements the running command has left
  outcome    \* how the last command ended

schemaVars == <<schema, draft, script, outcome>>
-----------------------------------------------------------------------------
(* Statements. *)
CreateTable(table, creates) == [do |-> "create table", table |-> table, creates |-> creates]
DropTable(name) == [do |-> "drop table", name |-> name]
CreateType(name) == [do |-> "create type", name |-> name]
DropType(name) == [do |-> "drop type", name |-> name]
AddColumns(name, types) == [do |-> "add columns", name |-> name, types |-> types]
DropColumns(name, types) == [do |-> "drop columns", name |-> name, types |-> types]
AddKey(name, key) == [do |-> "add key", name |-> name, key |-> key]
DropKey(name, key) == [do |-> "drop key", name |-> name, key |-> key]
Stamp(revision) == [do |-> "stamp", revision |-> revision]

(* op.create_table creates the enum types of its columns, and does not look
   whether they exist. *)
InitialUpgrade ==
  [i \in DOMAIN Created |-> CreateTable(Created[i], Created[i].types)]
InitialDowngradeReversed ==             \* mutant: parents before children
  [i \in DOMAIN Dropped |-> DropTable(Dropped[Len(Dropped) + 1 - i])]
InitialDowngradeScript == [i \in DOMAIN Dropped |-> DropTable(Dropped[i])]

PhaseTwoUpgrade ==
  [i \in DOMAIN AddedTypes |-> CreateType(AddedTypes[i])] \o
  <<CreateTable(Added, {}), AddColumns(Altering, AlteringTypes), AddKey(Altering, AlteringKey)>>
PhaseTwoDowngradeKeepsTypes ==          \* mutant: the enum types stay
  <<DropKey(Altering, AlteringKey), DropColumns(Altering, AlteringTypes), DropTable(Added.name)>>
PhaseTwoDowngrade ==
  <<DropKey(Altering, AlteringKey), DropColumns(Altering, AlteringTypes), DropTable(Added.name)>> \o
  [i \in DOMAIN AddedTypes |-> DropType(AddedTypes[i])]

UpgradeFrom(revision) ==
  CASE revision = "base" ->
         InitialUpgrade \o <<Stamp("initial")>> \o PhaseTwoUpgrade \o <<Stamp("head")>>
    [] revision = "initial" -> PhaseTwoUpgrade \o <<Stamp("head")>>
    [] OTHER -> <<>>
DowngradeTo(revision) ==
  (IF schema.revision = "head" THEN PhaseTwoDowngrade \o <<Stamp("initial")>> ELSE <<>>) \o
  (IF revision = "base" THEN InitialDowngradeScript \o <<Stamp("base")>> ELSE <<>>)
-----------------------------------------------------------------------------
(* The database. *)
Names(db) == NamesOf(db.tables)
UsedTypes(db) == UNION {t.types : t \in db.tables}
Named(db, name) == CHOOSE t \in db.tables : t.name = name
WithTable(db, name, t) == [db EXCEPT !.tables = (@ \ {Named(db, name)}) \union {t}]

Altered(t, s) ==
  CASE s.do = "add columns" -> [t EXCEPT !.types = @ \union s.types]
    [] s.do = "drop columns" -> [t EXCEPT !.types = @ \ s.types]
    [] s.do = "add key" -> [t EXCEPT !.keys = @ \union {s.key}]
    [] s.do = "drop key" -> [t EXCEPT !.keys = @ \ {s.key}]

Alterations == {"add columns", "drop columns", "add key", "drop key"}

Accepts(db, s) ==
  CASE s.do = "create table" ->
         /\ s.table.name \notin Names(db)
         /\ Targets(s.table) \subseteq Names(db) \union {s.table.name}
         /\ s.creates \intersect db.types = {}
         /\ s.table.types \subseteq db.types \union s.creates
    [] s.do = "drop table" ->
         /\ s.name \in Names(db)
         /\ \A t \in db.tables : t.name # s.name => s.name \notin Targets(t)
    [] s.do = "drop type" -> s.name \notin UsedTypes(db)
    [] s.do \in Alterations ->
         /\ s.name \in Names(db)
         /\ Altered(Named(db, s.name), s).types \subseteq db.types
         /\ Targets(Altered(Named(db, s.name), s)) \subseteq Names(db)
    [] OTHER -> TRUE

Result(db, s) ==
  CASE s.do = "create table" ->
         [db EXCEPT !.tables = @ \union {s.table}, !.types = @ \union s.creates]
    [] s.do = "drop table" -> [db EXCEPT !.tables = @ \ {Named(db, s.name)}]
    [] s.do = "create type" -> [db EXCEPT !.types = @ \union {s.name}]
    [] s.do = "drop type" -> [db EXCEPT !.types = @ \ {s.name}]
    [] s.do \in Alterations -> WithTable(db, s.name, Altered(Named(db, s.name), s))
    [] s.do = "stamp" -> [db EXCEPT !.revision = s.revision]
-----------------------------------------------------------------------------
EmptyDatabase == [tables |-> {}, types |-> {}, revision |-> "base"]

SchemaInit ==
  /\ schema = EmptyDatabase
  /\ draft = EmptyDatabase
  /\ script = <<>>
  /\ outcome = "none"

Begin(statements) ==
  /\ outcome # "running"
  /\ statements # <<>>
  /\ script' = statements
  /\ draft' = schema
  /\ outcome' = "running"
  /\ UNCHANGED schema

Upgrade == Begin(UpgradeFrom(schema.revision))
Downgrade(revision) == schema.revision # "base" /\ Begin(DowngradeTo(revision))

Execute ==
  /\ outcome = "running" /\ script # <<>>
  /\ Accepts(draft, Head(script))
  /\ draft' = Result(draft, Head(script))
  /\ script' = Tail(script)
  /\ UNCHANGED <<schema, outcome>>

(* The transaction of env.py is rolled back. *)
KeptByRollbackDraft == draft            \* mutant: a transaction per statement
KeptByRollback == schema
RollBack(end) ==
  /\ outcome = "running"
  /\ schema' = KeptByRollback
  /\ draft' = schema'
  /\ script' = <<>>
  /\ outcome' = end
Refused ==
  script # <<>> /\ outcome = "running" /\ ~Accepts(draft, Head(script)) /\ RollBack("refused")
Interrupted == RollBack("interrupted")

CommitCommand ==
  /\ outcome = "running" /\ script = <<>>
  /\ schema' = draft
  /\ outcome' = "done"
  /\ UNCHANGED <<draft, script>>

SchemaNext ==
  \/ Upgrade
  \/ \E revision \in {"initial", "base"} : Downgrade(revision)
  \/ Execute
  \/ Refused
  \/ Interrupted
  \/ CommitCommand

SchemaSpec == SchemaInit /\ [][SchemaNext]_schemaVars
-----------------------------------------------------------------------------
(* Whatever commands ran, were refused or were cut off, the version that is
   stamped tells which tables there are: at head exactly the tables, foreign
   keys, ON DELETE rules, enum columns and unique keys the models declare, at
   base none. *)
RevisionDescribesTables ==
  /\ schema.revision = "head" => schema.tables = Declared
  /\ schema.revision = "initial" => schema.tables = Initial
  /\ schema.revision = "base" => schema.tables = {}

(* At head and at the initial revision the enum types are the ones the tables
   use: the downgrade of phase 2 leaves none of its types behind. *)
TypesMatchTables == schema.revision # "base" => schema.types = UsedTypes(schema)

(* PostgreSQL refuses a command only in one situation: an upgrade of a
   database that was taken down to base, where the enum types of the initial
   schema were left behind.  Every other upgrade creates each table after the
   tables it refers to, and every downgrade drops each table after the tables
   that refer to it. *)
OnlyStrandedTypesRefuse ==
  outcome = "refused" => schema.revision = "base" /\ schema.types # {}
=============================================================================

--------------------------- MODULE FoundationProofs ---------------------------
(***************************************************************************)
(* What everything else stands on: the schema and its tenants.             *)
(* RevisionDescribesTables, TypesMatchTables and OnlyStrandedTypesRefuse   *)
(* hold for every catalogue that CatalogueAssumption describes.  The       *)
(* inductive invariant says what the transaction of a command has done by  *)
(* the time it is to execute the statements that are left: seven           *)
(* situations, each with the statement that leads to the next.             *)
(* TenantsAreWhole and RotationForksOnlyConcurrently hold for any number   *)
(* of requests, users, organizations and tokens.  Both follow from one     *)
(* inductive invariant: an open registration that has flushed its          *)
(* organization is the only one to hold that slug; and a token that has a  *)
(* successor is revoked, so no request that finds the token usable has     *)
(* seen a successor of it.                                                 *)
(***************************************************************************)
EXTENDS SchemaMigrations, Sessions, SequenceTheorems, FiniteSetTheorems, TLAPS

(* Where the commands lead.  InitialTypes stay when the tables are dropped. *)
InitialTypes == UNION {t.types : t \in Initial}
NewTypes == {AddedTypes[i] : i \in DOMAIN AddedTypes}
Database(tables, types, revision) ==
  [tables |-> tables, types |-> types, revision |-> revision]

AtBase(db) == db = Database({}, db.types, "base") /\ db.types \subseteq InitialTypes
AtInitial(db) == db = Database(Initial, InitialTypes, "initial")
AtHead(db) == db = Database(Declared, InitialTypes \union NewTypes, "head")
Settled(db) == AtBase(db) \/ AtInitial(db) \/ AtHead(db)

(* The parts of the scripts. *)
Revisions == {"base", "initial", "head"}
Statements ==
  {CreateTable(t, c) : t \in TableRow, c \in SUBSET STRING} \union
  {DropTable(n) : n \in STRING} \union
  {CreateType(n) : n \in STRING} \union
  {DropType(n) : n \in STRING} \union
  {AddColumns(n, c) : n \in STRING, c \in SUBSET STRING} \union
  {DropColumns(n, c) : n \in STRING, c \in SUBSET STRING} \union
  {AddKey(n, k) : n \in STRING, k \in KeyRow} \union
  {DropKey(n, k) : n \in STRING, k \in KeyRow} \union
  {Stamp(r) : r \in Revisions}

TypesUp == [i \in DOMAIN AddedTypes |-> CreateType(AddedTypes[i])]
TypesDown == [i \in DOMAIN AddedTypes |-> DropType(AddedTypes[i])]
TablesUp ==
  <<CreateTable(Added, {}), AddColumns(Altering, AlteringTypes), AddKey(Altering, AlteringKey)>>
TablesDown ==
  <<DropKey(Altering, AlteringKey), DropColumns(Altering, AlteringTypes), DropTable(Added.name)>>

Stamped(revision) == <<Stamp(revision)>>
ToHead == TablesUp \o Stamped("head")
FromInitial == TypesUp \o ToHead
FromBase == Stamped("initial") \o FromInitial
ToBase == InitialDowngradeScript \o Stamped("base")
AfterTypes == {Stamped("initial"), Stamped("initial") \o ToBase}

Rest(s, k) == SubSeq(s, k + 1, Len(s))

(* The tables of phase 2: before, and after its three statements. *)
Base == CHOOSE t \in Initial : t.name = Altering
Others == Initial \ {Base}
Widened == [Base EXCEPT !.types = @ \union AlteringTypes]
Keyed == [Widened EXCEPT !.keys = @ \union {AlteringKey}]
Phase(k) ==
  CASE k = 0 -> Others \union {Base}
    [] k = 1 -> (Others \union {Base}) \union {Added}
    [] k = 2 -> (Others \union {Added}) \union {Widened}
    [] k = 3 -> (Others \union {Added}) \union {Keyed}

(* What the transaction of a command has done by the time it is to execute the
   statements that are left. *)
First(k) == {Created[i] : i \in 1..k}
CreatingTables ==
  /\ AtBase(schema)
  /\ \E k \in 0..Len(Created) :
       /\ script = Rest(InitialUpgrade, k) \o FromBase
       /\ draft = Database(First(k), schema.types \union UNION {t.types : t \in First(k)}, "base")
CreatingTypes ==
  \E k \in 0..Len(AddedTypes) :
    /\ script = Rest(TypesUp, k) \o ToHead
    /\ draft = Database(Initial, InitialTypes \union {AddedTypes[i] : i \in 1..k}, "initial")
Extending ==
  \E k \in 0..3 :
    /\ script = Rest(TablesUp, k) \o Stamped("head")
    /\ draft = Database(Phase(k), InitialTypes \union NewTypes, "initial")
Reducing ==
  \E k \in 0..3, rest \in AfterTypes :
    /\ script = Rest(TablesDown, k) \o (TypesDown \o rest)
    /\ draft = Database(Phase(3 - k), InitialTypes \union NewTypes, "head")
DroppingTypes ==
  \E k \in 0..Len(AddedTypes), rest \in AfterTypes :
    /\ script = Rest(TypesDown, k) \o rest
    /\ draft = Database(Initial,
                 InitialTypes \union {AddedTypes[i] : i \in (k + 1)..Len(AddedTypes)}, "head")
Left(k) == {t \in Initial : \E i \in (k + 1)..Len(Dropped) : t.name = Dropped[i]}
DroppingTables ==
  \E k \in 0..Len(Dropped) :
    /\ script = Rest(InitialDowngradeScript, k) \o Stamped("base")
    /\ draft = Database(Left(k), InitialTypes, "initial")
Finished == script = <<>> /\ Settled(draft)

Underway ==
  \/ CreatingTables \/ CreatingTypes \/ Extending
  \/ Reducing \/ DroppingTypes \/ DroppingTables \/ Finished

SchemaInv ==
  /\ Settled(schema)
  /\ outcome = "running" => Underway
  /\ OnlyStrandedTypesRefuse
-----------------------------------------------------------------------------
(* Executing a script statement by statement. *)
LEMMA ScriptSteps ==
  ASSUME NEW s \in Seq(Statements), NEW t \in Seq(Statements), NEW k \in 0..Len(s)
  PROVE  /\ k = 0 => Rest(s, k) \o t = s \o t
         /\ k = Len(s) => Rest(s, k) \o t = t
         /\ k < Len(s) => /\ Rest(s, k) \o t # <<>>
                          /\ Head(Rest(s, k) \o t) = s[k + 1]
                          /\ Tail(Rest(s, k) \o t) = Rest(s, k + 1) \o t
<1> DEFINE r == Rest(s, k)
<1>0. Len(s) \in Nat /\ s \in [1..Len(s) -> Statements] BY LenProperties
<1>1. k = 0 => r = s BY SubSeqFull DEF Rest
<1>2. k = Len(s) => r \o t = t
  <2> SUFFICES ASSUME k = Len(s) PROVE r \o t = t OBVIOUS
  <2>1. k + 1 \in Int /\ Len(s) \in Int /\ Len(s) < k + 1 BY <1>0
  <2>2. r = <<>> BY <2>1, SubSeqEmpty DEF Rest
  <2> QED BY <2>2, ConcatEmptySeq
<1>3. ASSUME k < Len(s)
      PROVE  /\ r \o t # <<>>
             /\ Head(r \o t) = s[k + 1]
             /\ Tail(r \o t) = Rest(s, k + 1) \o t
  <2> DEFINE q == Rest(s, k + 1)
  <2>1. q \in Seq(Statements)
    <3>1. k + 1 + 1 \in Int /\ Len(s) \in Int /\ \A i \in (k + 1 + 1)..Len(s) : s[i] \in Statements
      BY <1>0, <1>3
    <3> QED BY <3>1, SubSeqProperties DEF Rest
  <2>2. r = <<s[k + 1]>> \o q
    <3>1. k + 1 \in 1..Len(s) /\ Len(s) \in (k + 1)..Len(s) BY <1>0, <1>3
    <3> QED BY <3>1, SubSeqRecursiveFirst DEF Rest
  <2>3. s[k + 1] \in Statements /\ <<s[k + 1]>> \in Seq(Statements) BY <1>0, <1>3
  <2>4. r \o t = <<s[k + 1]>> \o (q \o t) BY <2>1, <2>2, <2>3, ConcatAssociative
  <2>5. q \o t \in Seq(Statements) BY <2>1, ConcatProperties
  <2> HIDE DEF q
  <2>6. ASSUME NEW e \in Statements, NEW u \in Seq(Statements)
        PROVE  <<e>> \o u # <<>> /\ Head(<<e>> \o u) = e /\ Tail(<<e>> \o u) = u
    <3> DEFINE v == <<e>> \o u
    <3>1. /\ v \in Seq(Statements) /\ Len(v) = Len(u) + 1 /\ v[1] = e
          /\ \A i \in 1..Len(u) : v[i + 1] = u[i]
      <4>1. <<e>> \in Seq(Statements) /\ Len(<<e>>) = 1 /\ <<e>>[1] = e OBVIOUS
      <4>2. Len(u) \in Nat BY LenProperties
      <4> QED BY <4>1, <4>2, ConcatProperties
    <3>2. v # <<>> BY <3>1, LenProperties, Len(u) \in Nat, EmptySeq
    <3> HIDE DEF v
    <3>3. Head(v) = e BY <3>1, <3>2
    <3>4. Tail(v) \in Seq(Statements) /\ Len(Tail(v)) = Len(u) /\ \A i \in 1..Len(u) : Tail(v)[i] = u[i]
      BY <3>1, <3>2, HeadTailProperties, LenProperties
    <3>5. Tail(v) = u BY <3>4, SeqEqual
    <3> QED BY <3>2, <3>3, <3>5 DEF v
  <2> QED BY <2>3, <2>4, <2>5, <2>6 DEF q
<1> QED BY <1>1, <1>2, <1>3
-----------------------------------------------------------------------------
(* The scripts. *)
LEMMA CatalogueTypes ==
  /\ Created \in Seq(TableRow) /\ Dropped \in Seq(STRING) /\ AddedTypes \in Seq(STRING)
  /\ Added \in TableRow /\ Altering \in STRING /\ AlteringTypes \in SUBSET STRING
  /\ AlteringKey \in KeyRow
  /\ Len(Created) \in Nat /\ DOMAIN Created = 1..Len(Created)
  /\ Len(Dropped) \in Nat /\ DOMAIN Dropped = 1..Len(Dropped)
  /\ Len(AddedTypes) \in Nat /\ DOMAIN AddedTypes = 1..Len(AddedTypes)
  /\ Initial \subseteq TableRow
<1>1. /\ Created \in Seq(TableRow) /\ Dropped \in Seq(STRING) /\ AddedTypes \in Seq(STRING)
      /\ Added \in TableRow /\ AlteringKey \in KeyRow
      /\ Altering \in NamesOf(Initial)
      /\ Added.types \union AlteringTypes = {AddedTypes[i] : i \in DOMAIN AddedTypes}
  BY CatalogueAssumption DEF InitialScript, PhaseTwoScript
<1>2. /\ Len(Created) \in Nat /\ DOMAIN Created = 1..Len(Created)
      /\ Created \in [1..Len(Created) -> TableRow]
  BY <1>1, LenProperties
<1>3. Len(Dropped) \in Nat /\ DOMAIN Dropped = 1..Len(Dropped) BY <1>1, LenProperties
<1>4. /\ Len(AddedTypes) \in Nat /\ DOMAIN AddedTypes = 1..Len(AddedTypes)
      /\ AddedTypes \in [1..Len(AddedTypes) -> STRING]
  BY <1>1, LenProperties
<1>5. Initial \subseteq TableRow BY <1>2 DEF Initial
<1>6. Altering \in STRING BY <1>1, <1>5 DEF NamesOf, TableRow
<1>7. AlteringTypes \in SUBSET STRING BY <1>1, <1>4
<1> QED BY <1>1, <1>2, <1>3, <1>4, <1>5, <1>6, <1>7

LEMMA StatementTypes ==
  ASSUME NEW n \in STRING, NEW c \in SUBSET STRING, NEW k \in KeyRow, NEW t \in TableRow
  PROVE  /\ CreateTable(t, c) \in Statements /\ DropTable(n) \in Statements
         /\ CreateType(n) \in Statements /\ DropType(n) \in Statements
         /\ AddColumns(n, c) \in Statements /\ DropColumns(n, c) \in Statements
         /\ AddKey(n, k) \in Statements /\ DropKey(n, k) \in Statements
<1>1. CreateTable(t, c) \in Statements BY DEF Statements
<1>2. DropTable(n) \in Statements BY DEF Statements
<1>3. CreateType(n) \in Statements BY DEF Statements
<1>4. DropType(n) \in Statements BY DEF Statements
<1>5. AddColumns(n, c) \in Statements BY DEF Statements
<1>6. DropColumns(n, c) \in Statements BY DEF Statements
<1>7. AddKey(n, k) \in Statements BY DEF Statements
<1>8. DropKey(n, k) \in Statements BY DEF Statements
<1> QED BY <1>1, <1>2, <1>3, <1>4, <1>5, <1>6, <1>7, <1>8

LEMMA StampTypes == \A r \in Revisions : Stamp(r) \in Statements
BY DEF Statements

LEMMA ScriptTypes ==
  /\ InitialUpgrade \in Seq(Statements) /\ Len(InitialUpgrade) = Len(Created)
  /\ \A i \in 1..Len(Created) : InitialUpgrade[i] = CreateTable(Created[i], Created[i].types)
  /\ TypesUp \in Seq(Statements) /\ Len(TypesUp) = Len(AddedTypes)
  /\ \A i \in 1..Len(AddedTypes) : TypesUp[i] = CreateType(AddedTypes[i])
  /\ TypesDown \in Seq(Statements) /\ Len(TypesDown) = Len(AddedTypes)
  /\ \A i \in 1..Len(AddedTypes) : TypesDown[i] = DropType(AddedTypes[i])
  /\ InitialDowngradeScript \in Seq(Statements) /\ Len(InitialDowngradeScript) = Len(Dropped)
  /\ \A i \in 1..Len(Dropped) : InitialDowngradeScript[i] = DropTable(Dropped[i])
<1>0. /\ Len(Created) \in Nat /\ DOMAIN Created = 1..Len(Created)
      /\ Len(Dropped) \in Nat /\ DOMAIN Dropped = 1..Len(Dropped)
      /\ Len(AddedTypes) \in Nat /\ DOMAIN AddedTypes = 1..Len(AddedTypes)
      /\ Created \in [1..Len(Created) -> TableRow] /\ Dropped \in [1..Len(Dropped) -> STRING]
      /\ AddedTypes \in [1..Len(AddedTypes) -> STRING]
  BY CatalogueTypes, LenProperties
<1>1. ASSUME NEW n \in Nat, NEW f \in [1..n -> Statements]
      PROVE  f \in Seq(Statements) /\ Len(f) = n
  BY <1>1
<1>2. InitialUpgrade \in [1..Len(Created) -> Statements]
  <2>1. \A i \in 1..Len(Created) : Created[i] \in TableRow /\ Created[i].types \in SUBSET STRING
    BY <1>0 DEF TableRow
  <2>2. \A i \in 1..Len(Created) : CreateTable(Created[i], Created[i].types) \in Statements
    BY <2>1, StatementTypes, CatalogueTypes
  <2> QED BY <1>0, <2>2 DEF InitialUpgrade
<1>3. TypesUp \in [1..Len(AddedTypes) -> Statements]
  BY <1>0, StatementTypes, CatalogueTypes DEF TypesUp
<1>4. TypesDown \in [1..Len(AddedTypes) -> Statements]
  BY <1>0, StatementTypes, CatalogueTypes DEF TypesDown
<1>5. InitialDowngradeScript \in [1..Len(Dropped) -> Statements]
  BY <1>0, StatementTypes, CatalogueTypes DEF InitialDowngradeScript
<1>6. /\ \A i \in 1..Len(Created) : InitialUpgrade[i] = CreateTable(Created[i], Created[i].types)
      /\ \A i \in 1..Len(AddedTypes) : TypesUp[i] = CreateType(AddedTypes[i])
      /\ \A i \in 1..Len(AddedTypes) : TypesDown[i] = DropType(AddedTypes[i])
      /\ \A i \in 1..Len(Dropped) : InitialDowngradeScript[i] = DropTable(Dropped[i])
  BY <1>0 DEF InitialUpgrade, TypesUp, TypesDown, InitialDowngradeScript
<1> QED BY <1>0, <1>1, <1>2, <1>3, <1>4, <1>5, <1>6

LEMMA TailTypes ==
  /\ TablesUp \in Seq(Statements) /\ Len(TablesUp) = 3
  /\ TablesUp[1] = CreateTable(Added, {})
  /\ TablesUp[2] = AddColumns(Altering, AlteringTypes)
  /\ TablesUp[3] = AddKey(Altering, AlteringKey)
  /\ TablesDown \in Seq(Statements) /\ Len(TablesDown) = 3
  /\ TablesDown[1] = DropKey(Altering, AlteringKey)
  /\ TablesDown[2] = DropColumns(Altering, AlteringTypes)
  /\ TablesDown[3] = DropTable(Added.name)
  /\ \A r \in Revisions : Stamped(r) \in Seq(Statements)
  /\ ToHead \in Seq(Statements) /\ FromInitial \in Seq(Statements)
  /\ FromBase \in Seq(Statements) /\ ToBase \in Seq(Statements)
  /\ AfterTypes \subseteq Seq(Statements)
<1>1. /\ CreateTable(Added, {}) \in Statements
      /\ AddColumns(Altering, AlteringTypes) \in Statements
      /\ AddKey(Altering, AlteringKey) \in Statements
      /\ DropKey(Altering, AlteringKey) \in Statements
      /\ DropColumns(Altering, AlteringTypes) \in Statements
      /\ DropTable(Added.name) \in Statements
  <2>1. Added.name \in STRING /\ {} \in SUBSET STRING BY CatalogueTypes DEF TableRow
  <2> QED BY <2>1, CatalogueTypes, StatementTypes
<1>2. \A r \in Revisions : Stamped(r) \in Seq(Statements)
  <2>1. ASSUME NEW e \in Statements PROVE <<e>> \in Seq(Statements) OBVIOUS
  <2> QED BY <2>1, StampTypes, Zenon DEF Stamped
<1>3. TablesUp \in Seq(Statements) /\ TablesDown \in Seq(Statements) BY <1>1 DEF TablesUp, TablesDown
<1>4. /\ Len(TablesUp) = 3
      /\ TablesUp[1] = CreateTable(Added, {})
      /\ TablesUp[2] = AddColumns(Altering, AlteringTypes)
      /\ TablesUp[3] = AddKey(Altering, AlteringKey)
  BY DEF TablesUp
<1>5. /\ Len(TablesDown) = 3
      /\ TablesDown[1] = DropKey(Altering, AlteringKey)
      /\ TablesDown[2] = DropColumns(Altering, AlteringTypes)
      /\ TablesDown[3] = DropTable(Added.name)
  BY DEF TablesDown
<1>a. \A s, t \in Seq(Statements) : s \o t \in Seq(Statements) BY ConcatProperties
<1>b. /\ Stamped("head") \in Seq(Statements) /\ Stamped("initial") \in Seq(Statements)
      /\ Stamped("base") \in Seq(Statements)
  <2>1. "head" \in Revisions /\ "initial" \in Revisions /\ "base" \in Revisions BY DEF Revisions
  <2> QED BY <1>2, <2>1, Zenon
<1>6. ToHead \in Seq(Statements) BY <1>a, <1>b, <1>3 DEF ToHead
<1>7. FromInitial \in Seq(Statements) BY <1>a, <1>6, ScriptTypes DEF FromInitial
<1>8. FromBase \in Seq(Statements) BY <1>a, <1>b, <1>7 DEF FromBase
<1>9. ToBase \in Seq(Statements) BY <1>a, <1>b, ScriptTypes DEF ToBase
<1>10. Stamped("initial") \o ToBase \in Seq(Statements) BY <1>a, <1>b, <1>9
<1> QED BY <1>2, <1>3, <1>4, <1>5, <1>6, <1>7, <1>8, <1>9, <1>10, <1>b DEF AfterTypes

LEMMA InitialUpgradeSteps ==
  ASSUME NEW k \in 0..Len(Created)
  PROVE  /\ k = 0 => Rest(InitialUpgrade, k) \o FromBase = InitialUpgrade \o FromBase
         /\ k = Len(Created) => Rest(InitialUpgrade, k) \o FromBase = FromBase
         /\ k < Len(Created) =>
              /\ Rest(InitialUpgrade, k) \o FromBase # <<>>
              /\ Head(Rest(InitialUpgrade, k) \o FromBase) = CreateTable(Created[k + 1], Created[k + 1].types)
              /\ Tail(Rest(InitialUpgrade, k) \o FromBase) = Rest(InitialUpgrade, k + 1) \o FromBase
<1>1. InitialUpgrade \in Seq(Statements) /\ FromBase \in Seq(Statements) /\ k \in 0..Len(InitialUpgrade)
  BY ScriptTypes, TailTypes
<1>2. k < Len(Created) => InitialUpgrade[k + 1] = CreateTable(Created[k + 1], Created[k + 1].types)
  <2>1. k < Len(Created) => k + 1 \in 1..Len(Created) BY CatalogueTypes
  <2> QED BY <2>1, ScriptTypes
<1>4. /\ k = 0 => Rest(InitialUpgrade, k) \o FromBase = InitialUpgrade \o FromBase
      /\ k = Len(InitialUpgrade) => Rest(InitialUpgrade, k) \o FromBase = FromBase
      /\ k < Len(InitialUpgrade) =>
           /\ Rest(InitialUpgrade, k) \o FromBase # <<>>
           /\ Head(Rest(InitialUpgrade, k) \o FromBase) = InitialUpgrade[k + 1]
           /\ Tail(Rest(InitialUpgrade, k) \o FromBase) = Rest(InitialUpgrade, k + 1) \o FromBase
  BY <1>1, ScriptSteps
<1>3. Len(InitialUpgrade) = Len(Created) BY ScriptTypes
<1> QED BY <1>2, <1>3, <1>4

LEMMA TypesUpSteps ==
  ASSUME NEW k \in 0..Len(AddedTypes)
  PROVE  /\ k = 0 => Rest(TypesUp, k) \o ToHead = TypesUp \o ToHead
         /\ k = Len(AddedTypes) => Rest(TypesUp, k) \o ToHead = ToHead
         /\ k < Len(AddedTypes) =>
              /\ Rest(TypesUp, k) \o ToHead # <<>>
              /\ Head(Rest(TypesUp, k) \o ToHead) = CreateType(AddedTypes[k + 1])
              /\ Tail(Rest(TypesUp, k) \o ToHead) = Rest(TypesUp, k + 1) \o ToHead
<1>1. TypesUp \in Seq(Statements) /\ ToHead \in Seq(Statements) /\ k \in 0..Len(TypesUp)
  BY ScriptTypes, TailTypes
<1>2. k < Len(AddedTypes) => TypesUp[k + 1] = CreateType(AddedTypes[k + 1])
  <2>1. k < Len(AddedTypes) => k + 1 \in 1..Len(AddedTypes) BY CatalogueTypes
  <2> QED BY <2>1, ScriptTypes
<1>4. /\ k = 0 => Rest(TypesUp, k) \o ToHead = TypesUp \o ToHead
      /\ k = Len(TypesUp) => Rest(TypesUp, k) \o ToHead = ToHead
      /\ k < Len(TypesUp) =>
           /\ Rest(TypesUp, k) \o ToHead # <<>>
           /\ Head(Rest(TypesUp, k) \o ToHead) = TypesUp[k + 1]
           /\ Tail(Rest(TypesUp, k) \o ToHead) = Rest(TypesUp, k + 1) \o ToHead
  BY <1>1, ScriptSteps
<1>3. Len(TypesUp) = Len(AddedTypes) BY ScriptTypes
<1> QED BY <1>2, <1>3, <1>4

LEMMA InitialDowngradeSteps ==
  ASSUME NEW k \in 0..Len(Dropped)
  PROVE  /\ k = 0 => Rest(InitialDowngradeScript, k) \o Stamped("base") = InitialDowngradeScript \o Stamped("base")
         /\ k = Len(Dropped) => Rest(InitialDowngradeScript, k) \o Stamped("base") = Stamped("base")
         /\ k < Len(Dropped) =>
              /\ Rest(InitialDowngradeScript, k) \o Stamped("base") # <<>>
              /\ Head(Rest(InitialDowngradeScript, k) \o Stamped("base")) = DropTable(Dropped[k + 1])
              /\ Tail(Rest(InitialDowngradeScript, k) \o Stamped("base")) = Rest(InitialDowngradeScript, k + 1) \o Stamped("base")
<1>0. Stamped("base") \in Seq(Statements) BY TailTypes DEF Revisions
<1>1. InitialDowngradeScript \in Seq(Statements) /\ Stamped("base") \in Seq(Statements) /\ k \in 0..Len(InitialDowngradeScript)
  BY ScriptTypes, TailTypes, <1>0
<1>2. k < Len(Dropped) => InitialDowngradeScript[k + 1] = DropTable(Dropped[k + 1])
  <2>1. k < Len(Dropped) => k + 1 \in 1..Len(Dropped) BY CatalogueTypes
  <2> QED BY <2>1, ScriptTypes
<1>4. /\ k = 0 => Rest(InitialDowngradeScript, k) \o Stamped("base") = InitialDowngradeScript \o Stamped("base")
      /\ k = Len(InitialDowngradeScript) => Rest(InitialDowngradeScript, k) \o Stamped("base") = Stamped("base")
      /\ k < Len(InitialDowngradeScript) =>
           /\ Rest(InitialDowngradeScript, k) \o Stamped("base") # <<>>
           /\ Head(Rest(InitialDowngradeScript, k) \o Stamped("base")) = InitialDowngradeScript[k + 1]
           /\ Tail(Rest(InitialDowngradeScript, k) \o Stamped("base")) = Rest(InitialDowngradeScript, k + 1) \o Stamped("base")
  BY <1>1, ScriptSteps
<1>3. Len(InitialDowngradeScript) = Len(Dropped) BY ScriptTypes
<1> QED BY <1>2, <1>3, <1>4

LEMMA TablesUpSteps ==
  ASSUME NEW k \in 0..3
  PROVE  /\ k = 3 => Rest(TablesUp, k) \o Stamped("head") = Stamped("head")
         /\ k < 3 => /\ Rest(TablesUp, k) \o Stamped("head") # <<>>
                     /\ Head(Rest(TablesUp, k) \o Stamped("head")) = TablesUp[k + 1]
                     /\ Tail(Rest(TablesUp, k) \o Stamped("head"))
                          = Rest(TablesUp, k + 1) \o Stamped("head")
         /\ Rest(TablesUp, 0) \o Stamped("head") = ToHead
<1>1. /\ TablesUp \in Seq(Statements) /\ Stamped("head") \in Seq(Statements)
      /\ k \in 0..Len(TablesUp) /\ 0 \in 0..Len(TablesUp)
  BY TailTypes DEF Revisions
<1>2. Rest(TablesUp, 0) \o Stamped("head") = ToHead BY <1>1, ScriptSteps DEF ToHead
<1>3. /\ k = Len(TablesUp) => Rest(TablesUp, k) \o Stamped("head") = Stamped("head")
      /\ k < Len(TablesUp) =>
           /\ Rest(TablesUp, k) \o Stamped("head") # <<>>
           /\ Head(Rest(TablesUp, k) \o Stamped("head")) = TablesUp[k + 1]
           /\ Tail(Rest(TablesUp, k) \o Stamped("head")) = Rest(TablesUp, k + 1) \o Stamped("head")
  BY <1>1, ScriptSteps
<1> QED BY <1>2, <1>3, TailTypes

LEMMA TablesDownSteps ==
  ASSUME NEW k \in 0..3, NEW rest \in AfterTypes
  PROVE  LET t == TypesDown \o rest IN
         /\ Rest(TablesDown, 0) \o t = TablesDown \o t
         /\ k = 3 => Rest(TablesDown, k) \o t = t
         /\ k < 3 => /\ Rest(TablesDown, k) \o t # <<>>
                     /\ Head(Rest(TablesDown, k) \o t) = TablesDown[k + 1]
                     /\ Tail(Rest(TablesDown, k) \o t) = Rest(TablesDown, k + 1) \o t
<1> DEFINE t == TypesDown \o rest
<1>1. /\ TablesDown \in Seq(Statements) /\ t \in Seq(Statements)
      /\ k \in 0..Len(TablesDown) /\ 0 \in 0..Len(TablesDown)
  <2>1. TypesDown \in Seq(Statements) /\ rest \in Seq(Statements) BY ScriptTypes, TailTypes
  <2>2. t \in Seq(Statements) BY <2>1, ConcatProperties
  <2> QED BY <2>2, TailTypes
<1> HIDE DEF t
<1>2. Rest(TablesDown, 0) \o t = TablesDown \o t BY <1>1, ScriptSteps
<1>3. /\ k = Len(TablesDown) => Rest(TablesDown, k) \o t = t
      /\ k < Len(TablesDown) =>
           /\ Rest(TablesDown, k) \o t # <<>>
           /\ Head(Rest(TablesDown, k) \o t) = TablesDown[k + 1]
           /\ Tail(Rest(TablesDown, k) \o t) = Rest(TablesDown, k + 1) \o t
  BY <1>1, ScriptSteps
<1> QED BY <1>2, <1>3, TailTypes DEF t

LEMMA TypesDownSteps ==
  ASSUME NEW k \in 0..Len(AddedTypes), NEW rest \in AfterTypes
  PROVE  /\ Rest(TypesDown, 0) \o rest = TypesDown \o rest
         /\ k = Len(AddedTypes) => Rest(TypesDown, k) \o rest = rest
         /\ k < Len(AddedTypes) =>
              /\ Rest(TypesDown, k) \o rest # <<>>
              /\ Head(Rest(TypesDown, k) \o rest) = DropType(AddedTypes[k + 1])
              /\ Tail(Rest(TypesDown, k) \o rest) = Rest(TypesDown, k + 1) \o rest
<1>a. TypesDown \in Seq(Statements) /\ Len(TypesDown) = Len(AddedTypes) BY ScriptTypes
<1>b. rest \in Seq(Statements) BY TailTypes
<1>1. k \in 0..Len(TypesDown) /\ 0 \in 0..Len(TypesDown) BY <1>a, CatalogueTypes
<1>2. Rest(TypesDown, 0) \o rest = TypesDown \o rest BY <1>a, <1>b, <1>1, ScriptSteps
<1>3. /\ k = Len(TypesDown) => Rest(TypesDown, k) \o rest = rest
      /\ k < Len(TypesDown) =>
           /\ Rest(TypesDown, k) \o rest # <<>>
           /\ Head(Rest(TypesDown, k) \o rest) = TypesDown[k + 1]
           /\ Tail(Rest(TypesDown, k) \o rest) = Rest(TypesDown, k + 1) \o rest
  <2>1. k \in 0..Len(TypesDown) BY <1>1
  <2> QED BY <1>a, <1>b, <2>1, ScriptSteps
<1>4. k < Len(AddedTypes) => TypesDown[k + 1] = DropType(AddedTypes[k + 1])
  <2>1. k < Len(AddedTypes) => k + 1 \in 1..Len(AddedTypes) BY CatalogueTypes
  <2> QED BY <2>1, ScriptTypes
<1> QED BY <1>a, <1>2, <1>3, <1>4

(* A stamp in front of the rest of a script. *)
LEMMA StampFirst ==
  ASSUME NEW r \in Revisions, NEW t \in Seq(Statements)
  PROVE  /\ Stamped(r) \o t # <<>> /\ Head(Stamped(r) \o t) = Stamp(r)
         /\ Tail(Stamped(r) \o t) = t
         /\ Stamped(r) # <<>> /\ Head(Stamped(r)) = Stamp(r) /\ Tail(Stamped(r)) = <<>>
<1> DEFINE s == Stamped(r)
<1>1. s \in Seq(Statements) /\ Len(s) = 1 /\ s[1] = Stamp(r)
  BY TailTypes DEF Stamped
<1> HIDE DEF s
<1>3. ASSUME NEW u \in Seq(Statements)
      PROVE  s \o u # <<>> /\ Head(s \o u) = Stamp(r) /\ Tail(s \o u) = u
  <2>0. 0 \in 0..Len(s) /\ 1 \in 0..Len(s) /\ 0 < Len(s) /\ 0 + 1 = 1 BY <1>1
  <2>1. /\ Rest(s, 0) \o u = s \o u
        /\ Rest(s, 0) \o u # <<>>
        /\ Head(Rest(s, 0) \o u) = s[0 + 1]
        /\ Tail(Rest(s, 0) \o u) = Rest(s, 0 + 1) \o u
    BY <1>1, <2>0, ScriptSteps
  <2>2. Rest(s, 1) \o u = u BY <1>1, <2>0, ScriptSteps
  <2> QED BY <1>1, <2>0, <2>1, <2>2
<1>4. <<>> \in Seq(Statements) /\ s \o <<>> = s BY <1>1, ConcatEmptySeq
<1> QED BY <1>3, <1>4 DEF s
-----------------------------------------------------------------------------
(* What each kind of statement requires and does. *)
LEMMA CreateTableAccepted ==
  ASSUME NEW T, NEW Y, NEW r, NEW t, NEW c,
         t.name \notin NamesOf(T), Targets(t) \subseteq NamesOf(T) \union {t.name},
         c \intersect Y = {}, t.types \subseteq Y \union c
  PROVE  Accepts(Database(T, Y, r), CreateTable(t, c))
<1>1. /\ CreateTable(t, c).do = "create table" /\ CreateTable(t, c).table = t
      /\ CreateTable(t, c).creates = c
  BY DEF CreateTable
<1>2. Database(T, Y, r).tables = T /\ Database(T, Y, r).types = Y BY DEF Database
<1> QED BY <1>1, <1>2 DEF Accepts, Names, Alterations

LEMMA OnCreateTable ==
  ASSUME NEW T, NEW Y, NEW r, NEW t, NEW c
  PROVE  Result(Database(T, Y, r), CreateTable(t, c)) = Database(T \union {t}, Y \union c, r)
<1> DEFINE d == Database(T, Y, r)
<1>1. /\ CreateTable(t, c).do = "create table" /\ CreateTable(t, c).table = t
      /\ CreateTable(t, c).creates = c
  BY DEF CreateTable
<1>2. d.tables = T /\ d.types = Y BY DEF Database
<1>3. [d EXCEPT !.tables = @ \union {t}, !.types = @ \union c]
        = Database(T \union {t}, Y \union c, r)
  <2> DEFINE e == [d EXCEPT !.tables = T \union {t}]
  <2>1. e = Database(T \union {t}, Y, r) BY DEF Database
  <2>2. [Database(T \union {t}, Y, r) EXCEPT !.types = Y \union c]
          = Database(T \union {t}, Y \union c, r)
    BY DEF Database
  <2>3. [d EXCEPT !.tables = @ \union {t}, !.types = @ \union c] = [e EXCEPT !.types = Y \union c]
    BY <1>2
  <2> QED BY <2>1, <2>2, <2>3
<1> HIDE DEF d
<1>4. Result(d, CreateTable(t, c)) = Database(T \union {t}, Y \union c, r)
  BY <1>1, <1>3 DEF Result, Alterations
<1> QED BY <1>4 DEF d

LEMMA DropTableAccepted ==
  ASSUME NEW T, NEW Y, NEW r, NEW n,
         n \in NamesOf(T), \A u \in T : u.name # n => n \notin Targets(u)
  PROVE  Accepts(Database(T, Y, r), DropTable(n))
<1>1. DropTable(n).do = "drop table" /\ DropTable(n).name = n BY DEF DropTable
<1>2. Database(T, Y, r).tables = T BY DEF Database
<1> QED BY <1>1, <1>2 DEF Accepts, Names, Alterations

LEMMA OnDropTable ==
  ASSUME NEW T, NEW Y, NEW r, NEW n, NEW u \in T, u.name = n,
         \A v \in T : v.name = n => v = u
  PROVE  Result(Database(T, Y, r), DropTable(n)) = Database(T \ {u}, Y, r)
<1> DEFINE d == Database(T, Y, r)
<1>1. DropTable(n).do = "drop table" /\ DropTable(n).name = n BY DEF DropTable
<1>2. d.tables = T BY DEF Database
<1>3. \A X : [d EXCEPT !.tables = @ \ X] = Database(T \ X, Y, r) BY DEF Database
<1> HIDE DEF d
<1>4. Named(d, n) = u BY <1>2 DEF Named
<1>5. Result(d, DropTable(n)) = [d EXCEPT !.tables = @ \ {Named(d, n)}]
  BY <1>1 DEF Result, Alterations
<1> QED BY <1>3, <1>4, <1>5 DEF d

LEMMA CreateTypeAccepted ==
  ASSUME NEW db, NEW n
  PROVE  Accepts(db, CreateType(n))
<1>1. CreateType(n).do = "create type" BY DEF CreateType
<1> QED BY <1>1 DEF Accepts, Alterations

LEMMA OnCreateType ==
  ASSUME NEW T, NEW Y, NEW r, NEW n
  PROVE  Result(Database(T, Y, r), CreateType(n)) = Database(T, Y \union {n}, r)
<1>1. CreateType(n).do = "create type" /\ CreateType(n).name = n BY DEF CreateType
<1>2. [Database(T, Y, r) EXCEPT !.types = @ \union {n}] = Database(T, Y \union {n}, r)
  BY DEF Database
<1> QED BY <1>1, <1>2 DEF Result, Alterations

LEMMA DropTypeAccepted ==
  ASSUME NEW T, NEW Y, NEW r, NEW n, n \notin UNION {t.types : t \in T}
  PROVE  Accepts(Database(T, Y, r), DropType(n))
<1>1. DropType(n).do = "drop type" /\ DropType(n).name = n BY DEF DropType
<1>2. Database(T, Y, r).tables = T BY DEF Database
<1> QED BY <1>1, <1>2 DEF Accepts, UsedTypes, Alterations

LEMMA OnDropType ==
  ASSUME NEW T, NEW Y, NEW r, NEW n
  PROVE  Result(Database(T, Y, r), DropType(n)) = Database(T, Y \ {n}, r)
<1>1. DropType(n).do = "drop type" /\ DropType(n).name = n BY DEF DropType
<1>2. [Database(T, Y, r) EXCEPT !.types = @ \ {n}] = Database(T, Y \ {n}, r) BY DEF Database
<1> QED BY <1>1, <1>2 DEF Result, Alterations

LEMMA StampAccepted ==
  ASSUME NEW db, NEW q
  PROVE  Accepts(db, Stamp(q))
<1>1. Stamp(q).do = "stamp" BY DEF Stamp
<1> QED BY <1>1 DEF Accepts, Alterations

LEMMA OnStamp ==
  ASSUME NEW T, NEW Y, NEW r, NEW q
  PROVE  Result(Database(T, Y, r), Stamp(q)) = Database(T, Y, q)
<1>1. Stamp(q).do = "stamp" /\ Stamp(q).revision = q BY DEF Stamp
<1>2. [Database(T, Y, r) EXCEPT !.revision = q] = Database(T, Y, q) BY DEF Database
<1> QED BY <1>1, <1>2 DEF Result, Alterations

(* An alteration of the only table of its name. *)
LEMMA AlterationAccepted ==
  ASSUME NEW T, NEW Y, NEW r, NEW t, \A u \in T : u.name # t.name,
         NEW s, s.do \in Alterations, s.name = t.name,
         Altered(t, s).types \subseteq Y, Targets(Altered(t, s)) \subseteq NamesOf(T \union {t})
  PROVE  Accepts(Database(T \union {t}, Y, r), s)
<1> DEFINE db == Database(T \union {t}, Y, r)
<1>1. db.tables = T \union {t} /\ db.types = Y BY DEF Database
<1>2. (CHOOSE u \in T \union {t} : u.name = t.name) = t OBVIOUS
<1> HIDE DEF db
<1>3. Named(db, s.name) = t BY <1>1, <1>2 DEF Named
<1>4. t.name \in NamesOf(T \union {t}) BY DEF NamesOf
<1>5. s.do \notin {"create table", "drop table", "create type", "drop type", "stamp"}
  BY DEF Alterations
<1>6. Accepts(db, s) BY <1>1, <1>3, <1>4, <1>5 DEF Accepts, Names
<1> QED BY <1>6 DEF db

LEMMA OnAlterations ==
  ASSUME NEW T, NEW Y, NEW r, NEW t \in T, \A u \in T : u.name = t.name => u = t,
         NEW s, s.do \in Alterations, s.name = t.name,
         NEW Z, Z = (T \ {t}) \union {Altered(t, s)}
  PROVE  Result(Database(T, Y, r), s) = Database(Z, Y, r)
<1> DEFINE db == Database(T, Y, r)
<1>1. db.tables = T BY DEF Database
<1>2. (CHOOSE u \in T : u.name = t.name) = t OBVIOUS
<1>3. \A X : [db EXCEPT !.tables = X] = Database(X, Y, r) BY DEF Database
<1> HIDE DEF db
<1>4. Named(db, s.name) = t BY <1>1, <1>2 DEF Named
<1>5. WithTable(db, s.name, Altered(t, s)) = Database(Z, Y, r)
  BY <1>1, <1>3, <1>4 DEF WithTable
<1>6. s.do \notin {"create table", "drop table", "create type", "drop type", "stamp"}
  BY DEF Alterations
<1>7. Result(db, s) = Database(Z, Y, r)
  BY <1>4, <1>5, <1>6 DEF Result
<1> QED BY <1>7 DEF db

LEMMA OnColumns ==
  ASSUME NEW t, NEW n, NEW c
  PROVE  /\ AddColumns(n, c).do \in Alterations /\ AddColumns(n, c).name = n
         /\ Altered(t, AddColumns(n, c)) = [t EXCEPT !.types = @ \union c]
         /\ DropColumns(n, c).do \in Alterations /\ DropColumns(n, c).name = n
         /\ Altered(t, DropColumns(n, c)) = [t EXCEPT !.types = @ \ c]
BY DEF AddColumns, DropColumns, Altered, Alterations

LEMMA OnKeys ==
  ASSUME NEW t, NEW n, NEW k
  PROVE  /\ AddKey(n, k).do \in Alterations /\ AddKey(n, k).name = n
         /\ Altered(t, AddKey(n, k)) = [t EXCEPT !.keys = @ \union {k}]
         /\ DropKey(n, k).do \in Alterations /\ DropKey(n, k).name = n
         /\ Altered(t, DropKey(n, k)) = [t EXCEPT !.keys = @ \ {k}]
BY DEF AddKey, DropKey, Altered, Alterations
-----------------------------------------------------------------------------
(* One statement at a time, from each of these situations to the next. *)
LEMMA FirstTables ==
  /\ First(Len(Created)) = Initial /\ First(0) = {}
  /\ \A k \in 0..(Len(Created) - 1) :
       LET t == Created[k + 1] IN
         /\ First(k + 1) = First(k) \union {t}
         /\ t.name \notin NamesOf(First(k))
         /\ Targets(t) \subseteq NamesOf(First(k)) \union {t.name}
         /\ t.types \intersect UNION {u.types : u \in First(k)} = {}
<1>0. Len(Created) \in Nat /\ DOMAIN Created = 1..Len(Created) BY CatalogueTypes
<1>1. First(Len(Created)) = Initial /\ First(0) = {} BY <1>0 DEF First, Initial
<1>2. ASSUME NEW k \in 0..(Len(Created) - 1)
      PROVE  LET t == Created[k + 1] IN
               /\ First(k + 1) = First(k) \union {t}
               /\ t.name \notin NamesOf(First(k))
               /\ Targets(t) \subseteq NamesOf(First(k)) \union {t.name}
               /\ t.types \intersect UNION {u.types : u \in First(k)} = {}
  <2> DEFINE t == Created[k + 1]
  <2>1. 1..(k + 1) = 1..k \union {k + 1} /\ k + 1 \in DOMAIN Created /\ 1..k \subseteq DOMAIN Created
    BY <1>0
  <2>2. First(k + 1) = First(k) \union {t} BY <2>1 DEF First
  <2>3. \A i \in 1..k :
          Created[i].name # t.name /\ Created[i].types \intersect t.types = {}
    <3>1. \A i \in 1..k : i # k + 1 BY <1>0
    <3> QED BY <2>1, <3>1, CatalogueAssumption DEF InitialScript
  <2>4. t.name \notin NamesOf(First(k)) BY <2>3 DEF NamesOf, First
  <2>5. t.types \intersect UNION {u.types : u \in First(k)} = {} BY <2>3 DEF First
  <2>6. Targets(t) \subseteq {Created[j].name : j \in 1..(k + 1)}
    BY <2>1, CatalogueAssumption DEF InitialScript
  <2>7. {Created[j].name : j \in 1..(k + 1)} = NamesOf(First(k)) \union {t.name}
    BY <2>1 DEF NamesOf, First
  <2> QED BY <2>2, <2>4, <2>5, <2>6, <2>7
<1> QED BY <1>1, <1>2

LEMMA CreatingTablesStep ==
  ASSUME CreatingTables
  PROVE  /\ script # <<>>
         /\ schema.types = {} => Accepts(draft, Head(script))
         /\ Execute => Underway'
<1>0. PICK k \in 0..Len(Created) :
        /\ script = Rest(InitialUpgrade, k) \o FromBase
        /\ draft = Database(First(k), schema.types \union UNION {t.types : t \in First(k)}, "base")
  BY DEF CreatingTables
<1> DEFINE Types(j) == schema.types \union UNION {t.types : t \in First(j)}
<1>1. Execute => /\ script' = Tail(script) /\ draft' = Result(draft, Head(script))
                 /\ schema' = schema
  BY DEF Execute
<1>2. AtBase(schema) BY DEF CreatingTables
<1>3. Len(Created) \in Nat BY CatalogueTypes
<1>4. CASE k < Len(Created)
  <2> DEFINE t == Created[k + 1]
  <2>1. /\ script # <<>> /\ Head(script) = CreateTable(t, t.types)
        /\ Tail(script) = Rest(InitialUpgrade, k + 1) \o FromBase
    BY <1>0, <1>4, InitialUpgradeSteps
  <2>2. k \in 0..(Len(Created) - 1) /\ k + 1 \in 0..Len(Created) BY <1>3, <1>4
  <2>3. /\ First(k + 1) = First(k) \union {t}
        /\ t.name \notin NamesOf(First(k))
        /\ Targets(t) \subseteq NamesOf(First(k)) \union {t.name}
        /\ t.types \intersect UNION {u.types : u \in First(k)} = {}
    BY <2>2, FirstTables
  <2>4. Types(k) \union t.types = Types(k + 1) BY <2>3
  <2>5. draft = Database(First(k), Types(k), "base") BY <1>0
  <2> HIDE DEF t
  <2>6. Result(draft, Head(script)) = Database(First(k + 1), Types(k + 1), "base")
    <3> HIDE DEF Types
    <3>1. Result(Database(First(k), Types(k), "base"), CreateTable(t, t.types))
            = Database(First(k) \union {t}, Types(k) \union t.types, "base")
      BY OnCreateTable
    <3> QED BY <2>1, <2>3, <2>4, <2>5, <3>1
  <2>7. schema.types = {} => Accepts(draft, Head(script))
    <3>1. schema.types = {} => t.types \intersect Types(k) = {} BY <2>3
    <3> HIDE DEF Types
    <3>2. t.types \subseteq Types(k) \union t.types OBVIOUS
    <3>3. schema.types = {} =>
            Accepts(Database(First(k), Types(k), "base"), CreateTable(t, t.types))
      BY <2>3, <3>1, <3>2, CreateTableAccepted
    <3> QED BY <2>1, <2>5, <3>3
  <2>8. Execute => CreatingTables'
    <3> SUFFICES ASSUME Execute PROVE CreatingTables' OBVIOUS
    <3>1. /\ script' = Rest(InitialUpgrade, k + 1) \o FromBase
          /\ draft' = Database(First(k + 1), schema'.types \union UNION {u.types : u \in First(k + 1)}, "base")
      BY <1>1, <2>1, <2>6
    <3>2. AtBase(schema)' BY <1>1, <1>2 DEF AtBase
    <3> QED BY <2>2, <3>1, <3>2 DEF CreatingTables
  <2> QED BY <2>1, <2>7, <2>8 DEF Underway
<1>5. CASE k = Len(Created)
  <2>1. script = FromBase BY <1>0, <1>5, InitialUpgradeSteps
  <2>2. script # <<>> /\ Head(script) = Stamp("initial") /\ Tail(script) = FromInitial
    BY <2>1, StampFirst, TailTypes DEF FromBase, Revisions
  <2>3. Types(k) = InitialTypes BY <1>2, <1>5, FirstTables DEF InitialTypes, AtBase
  <2>4. draft = Database(Initial, InitialTypes, "base") BY <1>0, <1>5, <2>3, FirstTables
  <2>5. Accepts(draft, Head(script)) BY <2>2, StampAccepted
  <2>6. Result(draft, Head(script)) = Database(Initial, InitialTypes, "initial")
    BY <2>2, <2>4, OnStamp
  <2>7. Execute => CreatingTypes'
    <3> SUFFICES ASSUME Execute PROVE CreatingTypes' OBVIOUS
    <3>1. script' = FromInitial /\ draft' = Database(Initial, InitialTypes, "initial")
      BY <1>1, <2>2, <2>6
    <3>2. 0 \in 0..Len(AddedTypes) /\ {AddedTypes[i] : i \in 1..0} = {} BY CatalogueTypes
    <3>3. FromInitial = Rest(TypesUp, 0) \o ToHead
      BY <3>2, TypesUpSteps DEF FromInitial
    <3>4. InitialTypes \union {AddedTypes[i] : i \in 1..0} = InitialTypes BY <3>2
    <3> QED BY <3>1, <3>2, <3>3, <3>4 DEF CreatingTypes
  <2> QED BY <2>2, <2>5, <2>7 DEF Underway
<1> QED BY <1>3, <1>4, <1>5

LEMMA InitialIsClosed ==
  /\ \A t \in Initial : Targets(t) \subseteq NamesOf(Initial)
  /\ \A t, u \in Initial : t.name = u.name => t = u
<1>1. Len(Created) \in Nat /\ DOMAIN Created = 1..Len(Created) BY CatalogueTypes
<1>2. ASSUME NEW i \in DOMAIN Created PROVE Targets(Created[i]) \subseteq NamesOf(Initial)
  <2>1. Targets(Created[i]) \subseteq {Created[j].name : j \in 1..i}
    BY CatalogueAssumption DEF InitialScript
  <2>2. 1..i \subseteq DOMAIN Created BY <1>1
  <2> QED BY <2>1, <2>2 DEF NamesOf, Initial
<1>3. \A i, j \in DOMAIN Created : Created[i].name = Created[j].name => i = j
  BY CatalogueAssumption DEF InitialScript
<1> QED BY <1>2, <1>3 DEF Initial

LEMMA BaseTable ==
  /\ Base \in Initial /\ Base.name = Altering /\ Initial = Others \union {Base}
  /\ Base \notin Others /\ \A u \in Others : u.name # Altering
  /\ Added \notin Initial /\ Added.name # Altering
  /\ \A u \in Initial : u.name # Added.name /\ Added.name \notin Targets(u)
<1>1. PICK t \in Initial : t.name = Altering
  BY CatalogueAssumption DEF PhaseTwoScript, NamesOf
<1>2. Base \in Initial /\ Base.name = Altering BY <1>1 DEF Base
<1>3. \A u \in Others : u.name # Altering BY <1>2, InitialIsClosed DEF Others
<1>4. Added.name \notin NamesOf(Initial) BY CatalogueAssumption DEF PhaseTwoScript
<1>5. \A u \in Initial : u.name # Added.name BY <1>4 DEF NamesOf
<1>6. \A u \in Initial : Added.name \notin Targets(u) BY <1>4, InitialIsClosed
<1> QED BY <1>2, <1>3, <1>5, <1>6 DEF Others

LEMMA AlteredTables ==
  /\ Widened.name = Altering /\ Widened.types = Base.types \union AlteringTypes
  /\ Targets(Widened) = Targets(Base)
  /\ Keyed.name = Altering /\ Keyed.types = Base.types \union AlteringTypes
  /\ Targets(Keyed) = Targets(Base) \union {AlteringKey.table}
  /\ [Base EXCEPT !.types = @ \union AlteringTypes] = Widened
  /\ [Widened EXCEPT !.keys = @ \union {AlteringKey}] = Keyed
  /\ [Keyed EXCEPT !.keys = @ \ {AlteringKey}] = Widened
  /\ [Widened EXCEPT !.types = @ \ AlteringTypes] = Base
<1>1. Base \in TableRow BY BaseTable, CatalogueTypes
<1>2. Widened.name = Altering /\ Widened.types = Base.types \union AlteringTypes /\ Widened.keys = Base.keys
  BY <1>1, BaseTable DEF Widened, TableRow
<1>3. Keyed.name = Altering /\ Keyed.types = Base.types \union AlteringTypes
      /\ Keyed.keys = Base.keys \union {AlteringKey}
  BY <1>1, BaseTable DEF Keyed, Widened, TableRow
<1>4. Targets(Widened) = Targets(Base) BY <1>2 DEF Targets
<1>5. Targets(Keyed) = Targets(Base) \union {AlteringKey.table} BY <1>3 DEF Targets
<1>6. AlteringKey \notin Base.keys /\ Base.types \intersect AlteringTypes = {}
  <2>1. AlteringKey \notin Base.keys BY BaseTable, CatalogueAssumption DEF PhaseTwoScript
  <2>2. AlteringTypes \subseteq {AddedTypes[i] : i \in DOMAIN AddedTypes}
    BY CatalogueAssumption DEF PhaseTwoScript
  <2>3. \A i \in DOMAIN AddedTypes : AddedTypes[i] \notin Base.types
    BY BaseTable, CatalogueAssumption DEF PhaseTwoScript
  <2> QED BY <2>1, <2>2, <2>3
<1>7. [Keyed EXCEPT !.keys = @ \ {AlteringKey}] = Widened
  <2>1. (Base.keys \union {AlteringKey}) \ {AlteringKey} = Base.keys BY <1>6
  <2> QED BY <1>1, <1>3, <2>1 DEF Keyed, Widened, TableRow
<1>8. [Widened EXCEPT !.types = @ \ AlteringTypes] = Base
  <2>1. (Base.types \union AlteringTypes) \ AlteringTypes = Base.types BY <1>6
  <2> QED BY <1>1, <1>2, <2>1 DEF Widened, TableRow
<1> QED BY <1>2, <1>3, <1>4, <1>5, <1>7, <1>8 DEF Widened, Keyed

LEMMA Phases ==
  /\ Phase(0) = Initial
  /\ Phase(1) = Initial \union {Added}
  /\ Phase(1) = (Others \union {Added}) \union {Base}
  /\ Phase(2) = (Others \union {Added}) \union {Widened}
  /\ Phase(3) = (Others \union {Added}) \union {Keyed}
  /\ Declared = Phase(3)
<1>1. /\ Phase(0) = Others \union {Base} /\ Phase(1) = (Others \union {Base}) \union {Added}
      /\ Phase(2) = (Others \union {Added}) \union {Widened}
      /\ Phase(3) = (Others \union {Added}) \union {Keyed}
  BY DEF Phase
<1>2. Declared = (Others \union {Added}) \union {Keyed}
  <2> DEFINE F(t) == IF t.name = Altering
                     THEN [t EXCEPT !.types = @ \union AlteringTypes, !.keys = @ \union {AlteringKey}]
                     ELSE t
  <2>1. Declared = {Added} \union {F(t) : t \in Initial}
    BY CatalogueAssumption DEF PhaseTwoScript
  <2>2. F(Base) = Keyed
    <3>1. Base \in TableRow /\ Base.name = Altering BY BaseTable, CatalogueTypes
    <3> QED BY <3>1 DEF Keyed, Widened, TableRow
  <2>3. \A u \in Others : F(u) = u BY BaseTable
  <2> HIDE DEF F
  <2>4. {F(t) : t \in Initial} = Others \union {Keyed} BY <2>2, <2>3, BaseTable
  <2> QED BY <2>1, <2>4
<1> QED BY <1>1, <1>2, BaseTable

(* What a statement leads to: each of the lemmas below says that it is accepted
   and that the transaction is where the next statement expects it. *)
LEMMA ExtendingStep ==
  ASSUME Extending
  PROVE  /\ script # <<>> /\ Accepts(draft, Head(script))
         /\ Execute => Underway'
<1>0. PICK k \in 0..3 :
        /\ script = Rest(TablesUp, k) \o Stamped("head")
        /\ draft = Database(Phase(k), InitialTypes \union NewTypes, "initial")
  BY DEF Extending
<1> DEFINE Y == InitialTypes \union NewTypes
<1>1. Execute => script' = Tail(script) /\ draft' = Result(draft, Head(script))
  BY DEF Execute
<1>2. /\ k < 3 => /\ script # <<>> /\ Head(script) = TablesUp[k + 1]
                  /\ Tail(script) = Rest(TablesUp, k + 1) \o Stamped("head")
      /\ k = 3 => script = Stamped("head")
  BY <1>0, TablesUpSteps
<1>3. /\ Base.types \subseteq InitialTypes /\ AlteringTypes \subseteq NewTypes
      /\ Added.types \subseteq NewTypes
  BY BaseTable, CatalogueAssumption DEF PhaseTwoScript, InitialTypes, NewTypes
<1>4. ASSUME k < 3, Accepts(draft, Head(script)),
             Result(draft, Head(script)) = Database(Phase(k + 1), Y, "initial")
      PROVE  /\ script # <<>> /\ Accepts(draft, Head(script))
             /\ Execute => Underway'
  <2>1. k + 1 \in 0..3 BY <1>4
  <2>2. Execute => Extending' BY <1>1, <1>2, <1>4, <2>1 DEF Extending
  <2> QED BY <1>2, <1>4, <2>2 DEF Underway
<1> HIDE DEF Y
<1>5. CASE k = 0
  <2>1. Head(script) = CreateTable(Added, {}) /\ draft = Database(Initial, Y, "initial")
    BY <1>0, <1>2, <1>5, TailTypes, Phases DEF Y
  <2>2. Accepts(Database(Initial, Y, "initial"), CreateTable(Added, {}))
    <3>1. /\ Added.name \notin NamesOf(Initial)
          /\ Targets(Added) \subseteq NamesOf(Initial) \union {Added.name}
      BY CatalogueAssumption DEF PhaseTwoScript
    <3>2. {} \intersect Y = {} /\ Added.types \subseteq Y \union {} BY <1>3 DEF Y
    <3> QED BY <3>1, <3>2, CreateTableAccepted
  <2>3. Result(Database(Initial, Y, "initial"), CreateTable(Added, {}))
          = Database(Initial \union {Added}, Y \union {}, "initial")
    BY OnCreateTable
  <2>4. Result(draft, Head(script)) = Database(Phase(k + 1), Y, "initial")
    <3>1. Y \union {} = Y OBVIOUS
    <3> QED BY <1>5, <2>1, <2>3, <3>1, Phases
  <2> QED BY <1>4, <1>5, <2>1, <2>2, <2>4
<1> DEFINE T == Others \union {Added}
<1>6. \A u \in T : u.name # Altering BY BaseTable
<1>7. Base \notin T /\ Widened \notin T BY <1>6, BaseTable, AlteredTables
<1>8. /\ NamesOf(T \union {Base}) = NamesOf(Initial) \union {Added.name}
      /\ NamesOf(T \union {Widened}) = NamesOf(Initial) \union {Added.name}
  BY BaseTable, AlteredTables DEF NamesOf
<1>9. CASE k = 1
  <2> DEFINE a == AddColumns(Altering, AlteringTypes)
  <2>1. Head(script) = a /\ draft = Database(T \union {Base}, Y, "initial")
    <3>1. Head(script) = TablesUp[2] BY <1>2, <1>9
    <3>2. TablesUp[2] = a BY TailTypes
    <3> QED BY <1>0, <1>9, <3>1, <3>2, Phases DEF Y
  <2>2. a.do \in Alterations /\ a.name = Base.name /\ Altered(Base, a) = Widened
    <3>1. a.do \in Alterations /\ a.name = Altering
          /\ Altered(Base, a) = [Base EXCEPT !.types = @ \union AlteringTypes]
      BY OnColumns
    <3> QED BY <3>1, AlteredTables, BaseTable
  <2>3. Widened.types \subseteq Y BY <1>3, AlteredTables DEF Y
  <2>4. Targets(Widened) \subseteq NamesOf(T \union {Base})
    BY <1>8, AlteredTables, BaseTable, InitialIsClosed
  <2>5. \A u \in T : u.name # Base.name BY <1>6, BaseTable
  <2> HIDE DEF a, T
  <2>6. Accepts(Database(T \union {Base}, Y, "initial"), a)
    BY <2>2, <2>3, <2>4, <2>5, AlterationAccepted
  <2>7. Result(Database(T \union {Base}, Y, "initial"), a)
          = Database(T \union {Widened}, Y, "initial")
    <3> DEFINE S == T \union {Base}
               Z == T \union {Widened}
    <3>1. Base \in S /\ \A u \in S : u.name = Base.name => u = Base BY <2>5
    <3>2. Z = (S \ {Base}) \union {Altered(Base, a)} BY <2>2, <2>5
    <3> HIDE DEF S, Z
    <3>3. Result(Database(S, Y, "initial"), a) = Database(Z, Y, "initial")
      BY <2>2, <3>1, <3>2, OnAlterations
    <3> QED BY <3>3 DEF S, Z
  <2>8. Result(draft, Head(script)) = Database(Phase(k + 1), Y, "initial")
    <3>1. Phase(k + 1) = T \union {Widened} BY <1>9, Phases DEF T
    <3> QED BY <2>1, <2>7, <3>1
  <2> QED BY <1>4, <1>9, <2>1, <2>6, <2>8
<1>10. CASE k = 2
  <2> DEFINE a == AddKey(Altering, AlteringKey)
  <2>1. Head(script) = a /\ draft = Database(T \union {Widened}, Y, "initial")
    <3>1. Head(script) = TablesUp[3] BY <1>2, <1>10
    <3>2. TablesUp[3] = a BY TailTypes
    <3> QED BY <1>0, <1>10, <3>1, <3>2, Phases DEF Y
  <2>2. a.do \in Alterations /\ a.name = Widened.name /\ Altered(Widened, a) = Keyed
    <3>1. a.do \in Alterations /\ a.name = Altering
          /\ Altered(Widened, a) = [Widened EXCEPT !.keys = @ \union {AlteringKey}]
      BY OnKeys
    <3> QED BY <3>1, AlteredTables
  <2>3. Keyed.types \subseteq Y BY <1>3, AlteredTables DEF Y
  <2>4. Targets(Keyed) \subseteq NamesOf(T \union {Widened})
    BY <1>8, AlteredTables, BaseTable, InitialIsClosed, CatalogueAssumption DEF PhaseTwoScript
  <2>5. \A u \in T : u.name # Widened.name BY <1>6, AlteredTables
  <2> HIDE DEF a, T
  <2>6. Accepts(Database(T \union {Widened}, Y, "initial"), a)
    BY <2>2, <2>3, <2>4, <2>5, AlterationAccepted
  <2>7. Result(Database(T \union {Widened}, Y, "initial"), a)
          = Database(T \union {Keyed}, Y, "initial")
    <3> DEFINE S == T \union {Widened}
               Z == T \union {Keyed}
    <3>1. Widened \in S /\ \A u \in S : u.name = Widened.name => u = Widened BY <2>5
    <3>2. Z = (S \ {Widened}) \union {Altered(Widened, a)} BY <2>2, <2>5
    <3> HIDE DEF S, Z
    <3>3. Result(Database(S, Y, "initial"), a) = Database(Z, Y, "initial")
      BY <2>2, <3>1, <3>2, OnAlterations
    <3> QED BY <3>3 DEF S, Z
  <2>8. Result(draft, Head(script)) = Database(Phase(k + 1), Y, "initial")
    <3>1. Phase(k + 1) = T \union {Keyed} BY <1>10, Phases DEF T
    <3> QED BY <2>1, <2>7, <3>1
  <2> QED BY <1>4, <1>10, <2>1, <2>6, <2>8
<1>11. CASE k = 3
  <2>1. script # <<>> /\ Head(script) = Stamp("head") /\ Tail(script) = <<>>
    <3>1. "head" \in Revisions BY DEF Revisions
    <3> QED BY <1>2, <1>11, <3>1, StampFirst, EmptySeq
  <2>2. draft = Database(Declared, Y, "initial") BY <1>0, <1>11, Phases DEF Y
  <2>3. Accepts(draft, Head(script)) BY <2>1, StampAccepted
  <2>4. Result(draft, Head(script)) = Database(Declared, Y, "head") BY <2>1, <2>2, OnStamp
  <2>5. Execute => Finished'
    BY <1>1, <2>1, <2>4 DEF Finished, Settled, AtHead, Y
  <2> QED BY <2>1, <2>3, <2>5 DEF Underway
<1> QED BY <1>5, <1>9, <1>10, <1>11

LEMMA CreatingTypesStep ==
  ASSUME CreatingTypes
  PROVE  /\ script # <<>> /\ Accepts(draft, Head(script))
         /\ Execute => Underway'
<1>0. PICK k \in 0..Len(AddedTypes) :
        /\ script = Rest(TypesUp, k) \o ToHead
        /\ draft = Database(Initial, InitialTypes \union {AddedTypes[i] : i \in 1..k}, "initial")
  BY DEF CreatingTypes
<1> DEFINE some(j) == InitialTypes \union {AddedTypes[i] : i \in 1..j}
<1>1. Execute => script' = Tail(script) /\ draft' = Result(draft, Head(script))
  BY DEF Execute
<1>2. Len(AddedTypes) \in Nat /\ DOMAIN AddedTypes = 1..Len(AddedTypes) BY CatalogueTypes
<1>3. draft = Database(Initial, some(k), "initial") BY <1>0
<1>4. CASE k < Len(AddedTypes)
  <2> DEFINE n == AddedTypes[k + 1]
  <2>1. /\ script # <<>> /\ Head(script) = CreateType(n)
        /\ Tail(script) = Rest(TypesUp, k + 1) \o ToHead
    BY <1>0, <1>4, TypesUpSteps
  <2>2. some(k) \union {n} = some(k + 1) /\ k + 1 \in 0..Len(AddedTypes)
    <3>1. 1..(k + 1) = 1..k \union {k + 1} BY <1>2
    <3> QED BY <3>1, <1>2, <1>4
  <2> HIDE DEF some, n
  <2>3. Accepts(draft, Head(script)) BY <2>1, CreateTypeAccepted
  <2>4. Result(draft, Head(script)) = Database(Initial, some(k) \union {n}, "initial")
    BY <1>3, <2>1, OnCreateType
  <2>5. Execute => CreatingTypes'
    BY <1>1, <2>1, <2>2, <2>4 DEF CreatingTypes, some
  <2> QED BY <2>1, <2>3, <2>5 DEF Underway
<1>5. CASE k = Len(AddedTypes)
  <2>1. some(k) = InitialTypes \union NewTypes BY <1>2, <1>5 DEF NewTypes
  <2>2. script = ToHead BY <1>0, <1>5, TypesUpSteps
  <2>3. 0 \in 0..3 /\ ToHead = Rest(TablesUp, 0) \o Stamped("head")
    <3>1. 0 \in 0..3 OBVIOUS
    <3> QED BY <3>1, TablesUpSteps
  <2> HIDE DEF some
  <2>4. Extending BY <1>3, <2>1, <2>2, <2>3, Phases DEF Extending
  <2> QED BY <2>4, ExtendingStep
<1>6. k < Len(AddedTypes) \/ k = Len(AddedTypes)
  <2>1. Len(AddedTypes) \in Nat BY <1>2
  <2> QED BY <2>1
<1> QED BY <1>4, <1>5, <1>6

LEMMA LeftTables ==
  /\ Left(0) = Initial /\ Left(Len(Dropped)) = {}
  /\ \A k \in 0..(Len(Dropped) - 1) :
       \E u \in Left(k) :
         /\ u.name = Dropped[k + 1] /\ \A v \in Left(k) : v.name = Dropped[k + 1] => v = u
         /\ Left(k + 1) = Left(k) \ {u}
         /\ \A v \in Left(k) : v.name # Dropped[k + 1] => Dropped[k + 1] \notin Targets(v)
<1>1. Len(Dropped) \in Nat /\ DOMAIN Dropped = 1..Len(Dropped) BY CatalogueTypes
<1>2. {Dropped[i] : i \in 1..Len(Dropped)} = NamesOf(Initial)
  BY <1>1, CatalogueAssumption DEF InitialScript
<1>3. \A t \in Initial : \E i \in 1..Len(Dropped) : t.name = Dropped[i]
  BY <1>2 DEF NamesOf
<1>4. Left(0) = Initial
  <2>1. 0 + 1 = 1 OBVIOUS
  <2> QED BY <1>3, <2>1 DEF Left
<1>5. Left(Len(Dropped)) = {}
  <2>1. (Len(Dropped) + 1)..Len(Dropped) = {} BY <1>1
  <2> QED BY <2>1 DEF Left
<1>6. ASSUME NEW k \in 0..(Len(Dropped) - 1)
      PROVE  \E u \in Left(k) :
               /\ u.name = Dropped[k + 1] /\ \A v \in Left(k) : v.name = Dropped[k + 1] => v = u
               /\ Left(k + 1) = Left(k) \ {u}
               /\ \A v \in Left(k) : v.name # Dropped[k + 1] => Dropped[k + 1] \notin Targets(v)
  <2>1. /\ k + 1 \in 1..Len(Dropped) /\ k + 1 \in (k + 1)..Len(Dropped)
        /\ (k + 1)..Len(Dropped) = {k + 1} \union (k + 1 + 1)..Len(Dropped)
        /\ \A i \in (k + 1 + 1)..Len(Dropped) : i \in 1..Len(Dropped) /\ k + 1 < i
    BY <1>1
  <2>2. PICK u \in Initial : u.name = Dropped[k + 1] BY <1>2, <2>1 DEF NamesOf
  <2>3. u \in Left(k) BY <2>1, <2>2 DEF Left
  <2>4. \A v \in Left(k) : v.name = Dropped[k + 1] => v = u BY <2>2, InitialIsClosed DEF Left
  <2>5. \A i \in (k + 1 + 1)..Len(Dropped) :
          /\ Dropped[k + 1] # Dropped[i]
          /\ \A t \in Initial : t.name = Dropped[i] => Dropped[k + 1] \notin Targets(t)
    BY <1>1, <2>1, CatalogueAssumption DEF InitialScript
  <2>6. Left(k + 1) = Left(k) \ {u}
    <3>1. u \notin Left(k + 1) BY <2>2, <2>5 DEF Left
    <3>2. Left(k + 1) \subseteq Left(k) BY <2>1 DEF Left
    <3>3. ASSUME NEW v \in Left(k), v # u PROVE v \in Left(k + 1)
      <4>1. v.name # Dropped[k + 1] BY <2>4, <3>3
      <4> QED BY <2>1, <4>1 DEF Left
    <3> QED BY <3>1, <3>2, <3>3
  <2>7. \A v \in Left(k) : v.name # Dropped[k + 1] => Dropped[k + 1] \notin Targets(v)
    BY <2>1, <2>5 DEF Left
  <2> QED BY <2>2, <2>3, <2>4, <2>6, <2>7
<1> QED BY <1>4, <1>5, <1>6

LEMMA DroppingTablesStep ==
  ASSUME DroppingTables
  PROVE  /\ script # <<>> /\ Accepts(draft, Head(script))
         /\ Execute => Underway'
<1>0. PICK k \in 0..Len(Dropped) :
        /\ script = Rest(InitialDowngradeScript, k) \o Stamped("base")
        /\ draft = Database(Left(k), InitialTypes, "initial")
  BY DEF DroppingTables
<1>1. Execute => script' = Tail(script) /\ draft' = Result(draft, Head(script))
  BY DEF Execute
<1>2. Len(Dropped) \in Nat BY CatalogueTypes
<1>3. CASE k < Len(Dropped)
  <2> DEFINE n == Dropped[k + 1]
  <2>1. /\ script # <<>> /\ Head(script) = DropTable(n)
        /\ Tail(script) = Rest(InitialDowngradeScript, k + 1) \o Stamped("base")
    BY <1>0, <1>3, InitialDowngradeSteps
  <2>2. k \in 0..(Len(Dropped) - 1) /\ k + 1 \in 0..Len(Dropped) BY <1>2, <1>3
  <2>3. PICK u \in Left(k) :
          /\ u.name = n /\ \A v \in Left(k) : v.name = n => v = u
          /\ Left(k + 1) = Left(k) \ {u}
          /\ \A v \in Left(k) : v.name # n => n \notin Targets(v)
    BY <2>2, LeftTables
  <2>4. n \in NamesOf(Left(k)) BY <2>3 DEF NamesOf
  <2> HIDE DEF n
  <2>5. Accepts(Database(Left(k), InitialTypes, "initial"), DropTable(n))
    BY <2>3, <2>4, DropTableAccepted
  <2>6. Result(Database(Left(k), InitialTypes, "initial"), DropTable(n))
          = Database(Left(k) \ {u}, InitialTypes, "initial")
    BY <2>3, OnDropTable
  <2>7. Execute => DroppingTables'
    <3>1. Execute => /\ script' = Rest(InitialDowngradeScript, k + 1) \o Stamped("base")
                     /\ draft' = Database(Left(k + 1), InitialTypes, "initial")
      BY <1>0, <1>1, <2>1, <2>3, <2>6
    <3> QED BY <2>2, <3>1 DEF DroppingTables
  <2> QED BY <1>0, <2>1, <2>5, <2>7 DEF Underway
<1>4. CASE k = Len(Dropped)
  <2>1. script = Stamped("base") BY <1>0, <1>4, InitialDowngradeSteps
  <2>2. script # <<>> /\ Head(script) = Stamp("base") /\ Tail(script) = <<>>
    <3>1. "base" \in Revisions BY DEF Revisions
    <3> QED BY <2>1, <3>1, StampFirst, EmptySeq
  <2>3. Accepts(draft, Head(script)) BY <2>2, StampAccepted
  <2>4. Result(draft, Head(script)) = Database({}, InitialTypes, "base")
    <3>1. draft = Database({}, InitialTypes, "initial") BY <1>0, <1>4, LeftTables
    <3> QED BY <2>2, <3>1, OnStamp
  <2>5. AtBase(Database({}, InitialTypes, "base")) BY DEF AtBase, Database
  <2>6. Execute => Finished'
    <3>1. Execute => script' = <<>> /\ AtBase(draft') BY <1>1, <2>2, <2>4, <2>5
    <3> QED BY <3>1 DEF Finished, Settled
  <2> QED BY <2>2, <2>3, <2>6 DEF Underway
<1>5. k < Len(Dropped) \/ k = Len(Dropped) BY <1>2
<1> QED BY <1>3, <1>4, <1>5

LEMMA DroppingTypesStep ==
  ASSUME DroppingTypes
  PROVE  /\ script # <<>> /\ Accepts(draft, Head(script))
         /\ Execute => Underway'
<1>0. PICK k \in 0..Len(AddedTypes), rest \in AfterTypes :
        /\ script = Rest(TypesDown, k) \o rest
        /\ draft = Database(Initial,
                     InitialTypes \union {AddedTypes[i] : i \in (k + 1)..Len(AddedTypes)}, "head")
  BY DEF DroppingTypes
<1> DEFINE left(j) == InitialTypes \union {AddedTypes[i] : i \in (j + 1)..Len(AddedTypes)}
<1>1. Execute => script' = Tail(script) /\ draft' = Result(draft, Head(script))
  BY DEF Execute
<1>2. Len(AddedTypes) \in Nat /\ DOMAIN AddedTypes = 1..Len(AddedTypes) BY CatalogueTypes
<1>3. draft = Database(Initial, left(k), "head") BY <1>0
<1>4. CASE k < Len(AddedTypes)
  <2> DEFINE n == AddedTypes[k + 1]
  <2>1. /\ script # <<>> /\ Head(script) = DropType(n)
        /\ Tail(script) = Rest(TypesDown, k + 1) \o rest
    BY <1>0, <1>4, TypesDownSteps
  <2>2. /\ k + 1 \in 0..Len(AddedTypes) /\ k + 1 \in DOMAIN AddedTypes
        /\ (k + 1)..Len(AddedTypes) = {k + 1} \union (k + 1 + 1)..Len(AddedTypes)
        /\ \A i \in (k + 1 + 1)..Len(AddedTypes) : i \in DOMAIN AddedTypes /\ i # k + 1
    BY <1>2, <1>4
  <2>3. n \notin InitialTypes
    <3>1. \A t \in Initial : n \notin t.types BY <2>2, CatalogueAssumption DEF PhaseTwoScript
    <3> HIDE DEF n
    <3> QED BY <3>1 DEF InitialTypes
  <2>4. \A i \in (k + 1 + 1)..Len(AddedTypes) : AddedTypes[i] # n
    BY <2>2, CatalogueAssumption DEF PhaseTwoScript
  <2>5. left(k) \ {n} = left(k + 1) BY <2>2, <2>3, <2>4
  <2> HIDE DEF left, n
  <2>6. n \notin UNION {t.types : t \in Initial} BY <2>3 DEF InitialTypes
  <2>7. Accepts(Database(Initial, left(k), "head"), DropType(n)) BY <2>6, DropTypeAccepted
  <2>8. Result(Database(Initial, left(k), "head"), DropType(n))
          = Database(Initial, left(k) \ {n}, "head")
    BY OnDropType
  <2>9. Execute => DroppingTypes'
    <3>1. Execute => /\ script' = Rest(TypesDown, k + 1) \o rest
                     /\ draft' = Database(Initial, left(k + 1), "head")
      BY <1>1, <1>3, <2>1, <2>5, <2>8
    <3> QED BY <2>2, <3>1 DEF DroppingTypes, left
  <2> QED BY <1>3, <2>1, <2>7, <2>9 DEF Underway
<1>5. CASE k = Len(AddedTypes)
  <2>1. left(k) = InitialTypes
    <3>1. (k + 1)..Len(AddedTypes) = {} BY <1>2, <1>5
    <3> QED BY <3>1
  <2>2. script = rest BY <1>0, <1>5, TypesDownSteps
  <2>3. draft = Database(Initial, InitialTypes, "head") BY <1>3, <2>1
  <2>4. /\ script # <<>> /\ Head(script) = Stamp("initial")
        /\ Tail(script) = <<>> \/ Tail(script) = ToBase
    <3>1. "initial" \in Revisions /\ ToBase \in Seq(Statements) BY TailTypes DEF Revisions
    <3>2. /\ Stamped("initial") # <<>> /\ Head(Stamped("initial")) = Stamp("initial")
          /\ Tail(Stamped("initial")) = <<>>
      BY <3>1, StampFirst
    <3>3. /\ Stamped("initial") \o ToBase # <<>>
          /\ Head(Stamped("initial") \o ToBase) = Stamp("initial")
          /\ Tail(Stamped("initial") \o ToBase) = ToBase
      BY <3>1, StampFirst
    <3>4. rest = Stamped("initial") \/ rest = Stamped("initial") \o ToBase BY DEF AfterTypes
    <3> QED BY <2>2, <3>2, <3>3, <3>4
  <2>5. Accepts(draft, Head(script)) BY <2>4, StampAccepted
  <2>6. Result(draft, Head(script)) = Database(Initial, InitialTypes, "initial")
    BY <2>3, <2>4, OnStamp
  <2>7. ASSUME Execute, Tail(script) = <<>> PROVE Finished'
    <3>1. script' = <<>> /\ AtInitial(draft') BY <1>1, <2>6, <2>7 DEF AtInitial
    <3> QED BY <3>1 DEF Finished, Settled
  <2>8. ASSUME Execute, Tail(script) = ToBase PROVE DroppingTables'
    <3>1. 0 \in 0..Len(Dropped) /\ Left(0) = Initial BY CatalogueTypes, LeftTables
    <3>2. ToBase = Rest(InitialDowngradeScript, 0) \o Stamped("base")
      BY <3>1, InitialDowngradeSteps DEF ToBase
    <3>3. script' = ToBase /\ draft' = Database(Initial, InitialTypes, "initial")
      BY <1>1, <2>6, <2>8
    <3> QED BY <3>1, <3>2, <3>3 DEF DroppingTables
  <2> QED BY <2>4, <2>5, <2>7, <2>8 DEF Underway
<1>6. k < Len(AddedTypes) \/ k = Len(AddedTypes)
  <2>1. Len(AddedTypes) \in Nat BY <1>2
  <2> QED BY <2>1
<1> QED BY <1>4, <1>5, <1>6

LEMMA ReducingStep ==
  ASSUME Reducing
  PROVE  /\ script # <<>> /\ Accepts(draft, Head(script))
         /\ Execute => Underway'
<1>0. PICK k \in 0..3, rest \in AfterTypes :
        /\ script = Rest(TablesDown, k) \o (TypesDown \o rest)
        /\ draft = Database(Phase(3 - k), InitialTypes \union NewTypes, "head")
  BY DEF Reducing
<1> DEFINE Y == InitialTypes \union NewTypes
<1>1. Execute => script' = Tail(script) /\ draft' = Result(draft, Head(script))
  BY DEF Execute
<1>2. /\ k < 3 => /\ script # <<>> /\ Head(script) = TablesDown[k + 1]
                  /\ Tail(script) = Rest(TablesDown, k + 1) \o (TypesDown \o rest)
      /\ k = 3 => script = TypesDown \o rest
  BY <1>0, TablesDownSteps
<1>3. /\ Base.types \subseteq InitialTypes /\ AlteringTypes \subseteq NewTypes
  BY BaseTable, CatalogueAssumption DEF PhaseTwoScript, InitialTypes, NewTypes
<1>4. ASSUME k < 3, Accepts(draft, Head(script)),
             Result(draft, Head(script)) = Database(Phase(3 - (k + 1)), Y, "head")
      PROVE  /\ script # <<>> /\ Accepts(draft, Head(script))
             /\ Execute => Underway'
  <2>1. k + 1 \in 0..3 BY <1>4
  <2>2. Execute => Reducing' BY <1>1, <1>2, <1>4, <2>1 DEF Reducing
  <2> QED BY <1>2, <1>4, <2>2 DEF Underway
<1>5. draft = Database(Phase(3 - k), Y, "head") BY <1>0
<1> HIDE DEF Y
<1> DEFINE T == Others \union {Added}
<1>6. \A u \in T : u.name # Altering BY BaseTable
<1>7. /\ NamesOf(T \union {Keyed}) = NamesOf(Initial) \union {Added.name}
      /\ NamesOf(T \union {Widened}) = NamesOf(Initial) \union {Added.name}
  BY BaseTable, AlteredTables DEF NamesOf
<1>8. Targets(Base) \subseteq NamesOf(Initial) BY BaseTable, InitialIsClosed
<1>9. CASE k = 0
  <2> DEFINE a == DropKey(Altering, AlteringKey)
  <2>1. Head(script) = a /\ draft = Database(T \union {Keyed}, Y, "head")
    <3>1. Head(script) = TablesDown[1] BY <1>2, <1>9
    <3>2. TablesDown[1] = a BY TailTypes
    <3>3. 3 - k = 3 BY <1>9
    <3> QED BY <1>5, <3>1, <3>2, <3>3, Phases
  <2>2. a.do \in Alterations /\ a.name = Keyed.name /\ Altered(Keyed, a) = Widened
    <3>1. a.do \in Alterations /\ a.name = Altering
          /\ Altered(Keyed, a) = [Keyed EXCEPT !.keys = @ \ {AlteringKey}]
      BY OnKeys
    <3> QED BY <3>1, AlteredTables
  <2>3. Widened.types \subseteq Y BY <1>3, AlteredTables DEF Y
  <2>4. Targets(Widened) \subseteq NamesOf(T \union {Keyed}) BY <1>7, <1>8, AlteredTables
  <2>5. \A u \in T : u.name # Keyed.name BY <1>6, AlteredTables
  <2> HIDE DEF a, T
  <2>6. Accepts(Database(T \union {Keyed}, Y, "head"), a)
    BY <2>2, <2>3, <2>4, <2>5, AlterationAccepted
  <2>7. Result(Database(T \union {Keyed}, Y, "head"), a) = Database(T \union {Widened}, Y, "head")
    <3> DEFINE S == T \union {Keyed}
               Z == T \union {Widened}
    <3>1. Keyed \in S /\ \A u \in S : u.name = Keyed.name => u = Keyed BY <2>5
    <3>2. Z = (S \ {Keyed}) \union {Altered(Keyed, a)} BY <2>2, <2>5
    <3> HIDE DEF S, Z
    <3>3. Result(Database(S, Y, "head"), a) = Database(Z, Y, "head")
      BY <2>2, <3>1, <3>2, OnAlterations
    <3> QED BY <3>3 DEF S, Z
  <2>8. Result(draft, Head(script)) = Database(Phase(3 - (k + 1)), Y, "head")
    <3>1. 3 - (k + 1) = 2 BY <1>9
    <3>2. Phase(3 - (k + 1)) = T \union {Widened} BY <3>1, Phases DEF T
    <3> QED BY <2>1, <2>7, <3>2
  <2> QED BY <1>4, <1>9, <2>1, <2>6, <2>8
<1>10. CASE k = 1
  <2> DEFINE a == DropColumns(Altering, AlteringTypes)
  <2>1. Head(script) = a /\ draft = Database(T \union {Widened}, Y, "head")
    <3>1. Head(script) = TablesDown[2] BY <1>2, <1>10
    <3>2. TablesDown[2] = a BY TailTypes
    <3>3. 3 - k = 2 BY <1>10
    <3> QED BY <1>5, <3>1, <3>2, <3>3, Phases
  <2>2. a.do \in Alterations /\ a.name = Widened.name /\ Altered(Widened, a) = Base
    <3>1. a.do \in Alterations /\ a.name = Altering
          /\ Altered(Widened, a) = [Widened EXCEPT !.types = @ \ AlteringTypes]
      BY OnColumns
    <3> QED BY <3>1, AlteredTables
  <2>3. Base.types \subseteq Y BY <1>3 DEF Y
  <2>4. Targets(Base) \subseteq NamesOf(T \union {Widened}) BY <1>7, <1>8
  <2>5. \A u \in T : u.name # Widened.name BY <1>6, AlteredTables
  <2> HIDE DEF a, T
  <2>6. Accepts(Database(T \union {Widened}, Y, "head"), a)
    BY <2>2, <2>3, <2>4, <2>5, AlterationAccepted
  <2>7. Result(Database(T \union {Widened}, Y, "head"), a) = Database(T \union {Base}, Y, "head")
    <3> DEFINE S == T \union {Widened}
               Z == T \union {Base}
    <3>1. Widened \in S /\ \A u \in S : u.name = Widened.name => u = Widened BY <2>5
    <3>2. Z = (S \ {Widened}) \union {Altered(Widened, a)} BY <2>2, <2>5
    <3> HIDE DEF S, Z
    <3>3. Result(Database(S, Y, "head"), a) = Database(Z, Y, "head")
      BY <2>2, <3>1, <3>2, OnAlterations
    <3> QED BY <3>3 DEF S, Z
  <2>8. Result(draft, Head(script)) = Database(Phase(3 - (k + 1)), Y, "head")
    <3>1. 3 - (k + 1) = 1 BY <1>10
    <3>2. Phase(3 - (k + 1)) = T \union {Base} BY <3>1, Phases DEF T
    <3> QED BY <2>1, <2>7, <3>2
  <2> QED BY <1>4, <1>10, <2>1, <2>6, <2>8
<1>11. CASE k = 2
  <2> DEFINE n == Added.name
             S == Initial \union {Added}
  <2>1. Head(script) = DropTable(n) /\ draft = Database(S, Y, "head")
    <3>1. Head(script) = TablesDown[3] BY <1>2, <1>11
    <3>2. TablesDown[3] = DropTable(n) BY TailTypes
    <3>3. 3 - k = 1 BY <1>11
    <3> QED BY <1>5, <3>1, <3>2, <3>3, Phases
  <2>2. /\ Added \in S /\ Added.name = n /\ \A v \in S : v.name = n => v = Added
        /\ \A u \in S : u.name # n => n \notin Targets(u)
        /\ n \in NamesOf(S) /\ S \ {Added} = Initial
    BY BaseTable DEF NamesOf
  <2> HIDE DEF n, S
  <2>3. Accepts(Database(S, Y, "head"), DropTable(n)) BY <2>2, DropTableAccepted
  <2>4. Result(Database(S, Y, "head"), DropTable(n)) = Database(S \ {Added}, Y, "head")
    BY <2>2, OnDropTable
  <2>5. Result(draft, Head(script)) = Database(Phase(3 - (k + 1)), Y, "head")
    <3>1. 3 - (k + 1) = 0 BY <1>11
    <3>2. Phase(3 - (k + 1)) = Initial BY <3>1, Phases
    <3> QED BY <2>1, <2>2, <2>4, <3>2
  <2> QED BY <1>4, <1>11, <2>1, <2>3, <2>5
<1>12. CASE k = 3
  <2>1. Phase(3 - k) = Initial
    <3>1. 3 - k = 0 BY <1>12
    <3> QED BY <3>1, Phases
  <2>2. /\ 0 \in 0..Len(AddedTypes)
        /\ Y = InitialTypes \union {AddedTypes[i] : i \in (0 + 1)..Len(AddedTypes)}
    <3>1. Len(AddedTypes) \in Nat /\ DOMAIN AddedTypes = 1..Len(AddedTypes) /\ 0 + 1 = 1
      BY CatalogueTypes
    <3> QED BY <3>1 DEF Y, NewTypes
  <2>3. script = Rest(TypesDown, 0) \o rest BY <1>2, <1>12, <2>2, TypesDownSteps
  <2>4. draft = Database(Initial, Y, "head") BY <1>5, <2>1
  <2>5. DroppingTypes BY <2>2, <2>3, <2>4 DEF DroppingTypes
  <2> QED BY <2>5, DroppingTypesStep
<1>13. k = 0 \/ k = 1 \/ k = 2 \/ k = 3 OBVIOUS
<1> QED BY <1>9, <1>10, <1>11, <1>12, <1>13
-----------------------------------------------------------------------------
(* The commands, and their whole scripts. *)
LEMMA ScriptsAssociate ==
  \A s, t, u \in Seq(Statements) : (s \o t) \o u = s \o (t \o u)
BY ConcatAssociative

LEMMA UpgradeScripts ==
  /\ UpgradeFrom("base") = InitialUpgrade \o FromBase
  /\ UpgradeFrom("initial") = FromInitial
  /\ UpgradeFrom("head") = <<>>
<1>1. /\ InitialUpgrade \in Seq(Statements) /\ TypesUp \in Seq(Statements)
      /\ TablesUp \in Seq(Statements) /\ Stamped("initial") \in Seq(Statements)
      /\ Stamped("head") \in Seq(Statements) /\ ToHead \in Seq(Statements)
      /\ FromInitial \in Seq(Statements)
  BY ScriptTypes, TailTypes DEF Revisions
<1>2. PhaseTwoUpgrade = TypesUp \o TablesUp BY DEF PhaseTwoUpgrade, TypesUp, TablesUp
<1>3. PhaseTwoUpgrade \o Stamped("head") = FromInitial
  <2>1. (TypesUp \o TablesUp) \o Stamped("head") = TypesUp \o (TablesUp \o Stamped("head"))
    <3>1. \A u \in Seq(Statements) : (TypesUp \o TablesUp) \o u = TypesUp \o (TablesUp \o u)
      BY <1>1, ScriptsAssociate
    <3> QED BY <1>1, <3>1
  <2> QED BY <1>2, <2>1 DEF FromInitial, ToHead
<1> DEFINE tables == InitialUpgrade \o Stamped("initial")
<1>4. (tables \o PhaseTwoUpgrade) \o Stamped("head") = InitialUpgrade \o FromBase
  <2>1. PhaseTwoUpgrade \in Seq(Statements) BY <1>1, <1>2, ConcatProperties
  <2>2. tables \in Seq(Statements) BY <1>1, ConcatProperties
  <2>3. \A u \in Seq(Statements) : tables \o u = InitialUpgrade \o (Stamped("initial") \o u)
    BY <1>1, ScriptsAssociate
  <2>4. tables \o FromInitial = InitialUpgrade \o (Stamped("initial") \o FromInitial)
    BY <1>1, <2>3
  <2> HIDE DEF tables
  <2>5. (tables \o PhaseTwoUpgrade) \o Stamped("head")
          = tables \o (PhaseTwoUpgrade \o Stamped("head"))
    <3>1. \A u \in Seq(Statements) :
            (tables \o PhaseTwoUpgrade) \o u = tables \o (PhaseTwoUpgrade \o u)
      BY <2>1, <2>2, ScriptsAssociate
    <3> QED BY <1>1, <3>1
  <2> QED BY <1>3, <2>4, <2>5 DEF FromBase
<1>5. /\ UpgradeFrom("base")
           = ((InitialUpgrade \o Stamped("initial")) \o PhaseTwoUpgrade) \o Stamped("head")
      /\ UpgradeFrom("initial") = PhaseTwoUpgrade \o Stamped("head")
      /\ UpgradeFrom("head") = <<>>
  BY DEF UpgradeFrom, Stamped
<1> QED BY <1>3, <1>4, <1>5

LEMMA DowngradeScripts ==
  /\ schema.revision = "head" =>
       /\ DowngradeTo("initial") = TablesDown \o (TypesDown \o Stamped("initial"))
       /\ DowngradeTo("base") = TablesDown \o (TypesDown \o (Stamped("initial") \o ToBase))
  /\ schema.revision = "initial" =>
       DowngradeTo("initial") = <<>> /\ DowngradeTo("base") = ToBase
<1>1. /\ TypesDown \in Seq(Statements) /\ TablesDown \in Seq(Statements)
      /\ Stamped("initial") \in Seq(Statements) /\ Stamped("base") \in Seq(Statements)
      /\ ToBase \in Seq(Statements)
  BY ScriptTypes, TailTypes DEF Revisions
<1> DEFINE types == TypesDown \o Stamped("initial")
           all == TablesDown \o types
<1>a. types \in Seq(Statements) BY <1>1, ConcatProperties
<1>b. \A u \in Seq(Statements) : types \o u = TypesDown \o (Stamped("initial") \o u)
  BY <1>1, ScriptsAssociate
<1>2. PhaseTwoDowngrade \o Stamped("initial") = all
  <2>1. PhaseTwoDowngrade = TablesDown \o TypesDown
    BY DEF PhaseTwoDowngrade, TypesDown, TablesDown
  <2>2. \A u \in Seq(Statements) : (TablesDown \o TypesDown) \o u = TablesDown \o (TypesDown \o u)
    BY <1>1, ScriptsAssociate
  <2> QED BY <1>1, <2>1, <2>2
<1>3. all \in Seq(Statements)
  <2> HIDE DEF types
  <2> QED BY <1>1, <1>a, ConcatProperties
<1>4. all \o ToBase = TablesDown \o (TypesDown \o (Stamped("initial") \o ToBase))
  <2>1. types \o ToBase = TypesDown \o (Stamped("initial") \o ToBase) BY <1>1, <1>b
  <2> HIDE DEF types
  <2>2. \A u \in Seq(Statements) : (TablesDown \o types) \o u = TablesDown \o (types \o u)
    BY <1>1, <1>a, ScriptsAssociate
  <2>3. all \o ToBase = TablesDown \o (types \o ToBase) BY <1>1, <2>2
  <2> QED BY <2>1, <2>3
<1>5. all \o <<>> = all /\ <<>> \o ToBase = ToBase BY <1>1, <1>3, ConcatEmptySeq
<1> HIDE DEF all, types
<1>6. schema.revision = "head" =>
        /\ DowngradeTo("initial") = (PhaseTwoDowngrade \o Stamped("initial")) \o <<>>
        /\ DowngradeTo("base") = (PhaseTwoDowngrade \o Stamped("initial")) \o ToBase
  BY DEF DowngradeTo, Stamped, ToBase
<1>7. schema.revision = "initial" =>
        DowngradeTo("initial") = <<>> \o <<>> /\ DowngradeTo("base") = <<>> \o ToBase
  BY DEF DowngradeTo, Stamped, ToBase
<1>8. <<>> \o <<>> = <<>> BY ConcatEmptySeq, EmptySeq
<1> QED BY <1>2, <1>4, <1>5, <1>6, <1>7, <1>8 DEF all, types

LEMMA UpgradeBegins ==
  ASSUME Settled(schema), Upgrade
  PROVE  Underway'
<1>1. /\ UpgradeFrom(schema.revision) # <<>> /\ script' = UpgradeFrom(schema.revision)
      /\ draft' = schema /\ schema' = schema
  BY DEF Upgrade, Begin
<1>2. CASE AtBase(schema)
  <2>1. schema = Database({}, schema.types, "base") /\ schema.revision = "base"
    BY <1>2 DEF AtBase, Database
  <2>2. 0 \in 0..Len(Created) /\ First(0) = {} BY CatalogueTypes, FirstTables
  <2>3. script' = Rest(InitialUpgrade, 0) \o FromBase
    BY <1>1, <2>1, <2>2, UpgradeScripts, InitialUpgradeSteps
  <2>4. draft' = Database(First(0), schema'.types \union UNION {t.types : t \in First(0)}, "base")
    <3>1. schema.types \union UNION {t.types : t \in {}} = schema.types OBVIOUS
    <3> QED BY <1>1, <2>1, <2>2, <3>1
  <2>5. AtBase(schema)' BY <1>1, <1>2 DEF AtBase
  <2> QED BY <2>2, <2>3, <2>4, <2>5 DEF CreatingTables, Underway
<1>3. CASE AtInitial(schema)
  <2>1. schema = Database(Initial, InitialTypes, "initial") /\ schema.revision = "initial"
    BY <1>3 DEF AtInitial, Database
  <2>2. 0 \in 0..Len(AddedTypes) /\ {AddedTypes[i] : i \in 1..0} = {} BY CatalogueTypes
  <2>3. script' = Rest(TypesUp, 0) \o ToHead
    BY <1>1, <2>1, <2>2, UpgradeScripts, TypesUpSteps DEF FromInitial
  <2>4. draft' = Database(Initial, InitialTypes \union {AddedTypes[i] : i \in 1..0}, "initial")
    <3>1. InitialTypes \union {AddedTypes[i] : i \in 1..0} = InitialTypes BY <2>2
    <3> QED BY <1>1, <2>1, <3>1
  <2> QED BY <2>2, <2>3, <2>4 DEF CreatingTypes, Underway
<1>4. CASE AtHead(schema)
  <2>1. schema.revision = "head" BY <1>4 DEF AtHead, Database
  <2> QED BY <1>1, <2>1, UpgradeScripts
<1> QED BY <1>2, <1>3, <1>4 DEF Settled

LEMMA DowngradeBegins ==
  ASSUME NEW r \in {"initial", "base"}, Settled(schema), Downgrade(r)
  PROVE  Underway'
<1>1. /\ schema.revision # "base" /\ DowngradeTo(r) # <<>> /\ script' = DowngradeTo(r)
      /\ draft' = schema
  BY DEF Downgrade, Begin
<1>2. CASE AtBase(schema) BY <1>1, <1>2 DEF AtBase, Database
<1>3. CASE AtInitial(schema)
  <2>1. schema = Database(Initial, InitialTypes, "initial") /\ schema.revision = "initial"
    BY <1>3 DEF AtInitial, Database
  <2>2. 0 \in 0..Len(Dropped) /\ Left(0) = Initial BY CatalogueTypes, LeftTables
  <2>3. script' = ToBase BY <1>1, <2>1, DowngradeScripts
  <2>4. script' = Rest(InitialDowngradeScript, 0) \o Stamped("base")
    BY <2>2, <2>3, InitialDowngradeSteps DEF ToBase
  <2>5. draft' = Database(Left(0), InitialTypes, "initial") BY <1>1, <2>1, <2>2
  <2> QED BY <2>2, <2>4, <2>5 DEF DroppingTables, Underway
<1>4. CASE AtHead(schema)
  <2>1. /\ schema = Database(Declared, InitialTypes \union NewTypes, "head")
        /\ schema.revision = "head"
    BY <1>4 DEF AtHead, Database
  <2>2. PICK rest \in AfterTypes : script' = TablesDown \o (TypesDown \o rest)
    <3>1. Stamped("initial") \in AfterTypes /\ Stamped("initial") \o ToBase \in AfterTypes
      BY DEF AfterTypes
    <3> QED BY <1>1, <2>1, <3>1, DowngradeScripts
  <2>3. 0 \in 0..3 /\ 3 - 0 = 3 OBVIOUS
  <2>4. script' = Rest(TablesDown, 0) \o (TypesDown \o rest) BY <2>2, <2>3, TablesDownSteps
  <2>5. draft' = Database(Phase(3 - 0), InitialTypes \union NewTypes, "head")
    BY <1>1, <2>1, <2>3, Phases
  <2> QED BY <2>3, <2>4, <2>5 DEF Reducing, Underway
<1> QED BY <1>2, <1>3, <1>4 DEF Settled

(* Only an upgrade of a database with types of an earlier upgrade is refused. *)
LEMMA UnderwaySteps ==
  ASSUME Underway
  PROVE  /\ script = <<>> => Settled(draft)
         /\ script # <<>> =>
              Accepts(draft, Head(script)) \/ (AtBase(schema) /\ schema.types # {})
         /\ Execute => Underway'
<1>1. CASE CreatingTables BY <1>1, CreatingTablesStep DEF CreatingTables
<1>2. CASE CreatingTypes BY <1>2, CreatingTypesStep
<1>3. CASE Extending BY <1>3, ExtendingStep
<1>4. CASE Reducing BY <1>4, ReducingStep
<1>5. CASE DroppingTypes BY <1>5, DroppingTypesStep
<1>6. CASE DroppingTables BY <1>6, DroppingTablesStep
<1>7. CASE Finished BY <1>7 DEF Finished, Execute
<1> QED BY <1>1, <1>2, <1>3, <1>4, <1>5, <1>6, <1>7 DEF Underway

LEMMA SchemaInvInit == SchemaInit => SchemaInv
<1> SUFFICES ASSUME SchemaInit PROVE SchemaInv OBVIOUS
<1>1. AtBase(schema) BY DEF SchemaInit, EmptyDatabase, AtBase, Database
<1> QED BY <1>1 DEF SchemaInit, SchemaInv, Settled, OnlyStrandedTypesRefuse

LEMMA SchemaInvNext == SchemaInv /\ [SchemaNext]_schemaVars => SchemaInv'
<1> SUFFICES ASSUME SchemaInv, [SchemaNext]_schemaVars PROVE SchemaInv' OBVIOUS
<1>0. /\ Settled(schema) /\ (outcome = "running" => Underway) /\ OnlyStrandedTypesRefuse
  BY DEF SchemaInv
<1>1. ASSUME schema' = schema, outcome' # "refused", outcome' = "running" => Underway'
      PROVE  SchemaInv'
  <2>1. Settled(schema)' BY <1>0, <1>1 DEF Settled, AtBase, AtInitial, AtHead
  <2> QED BY <1>1, <2>1 DEF SchemaInv, OnlyStrandedTypesRefuse
<1>2. CASE Upgrade
  <2>1. schema' = schema /\ outcome' = "running" BY <1>2 DEF Upgrade, Begin
  <2> QED BY <1>0, <1>1, <1>2, <2>1, UpgradeBegins
<1>3. ASSUME NEW r \in {"initial", "base"}, Downgrade(r) PROVE SchemaInv'
  <2>1. schema' = schema /\ outcome' = "running" BY <1>3 DEF Downgrade, Begin
  <2> QED BY <1>0, <1>1, <1>3, <2>1, DowngradeBegins
<1>4. CASE Execute
  <2>1. schema' = schema /\ outcome' = "running" /\ outcome = "running" BY <1>4 DEF Execute
  <2> QED BY <1>0, <1>1, <1>4, <2>1, UnderwaySteps
<1>5. CASE Refused
  <2>1. /\ schema' = schema /\ outcome' = "refused" /\ outcome = "running"
        /\ script # <<>> /\ ~Accepts(draft, Head(script))
    BY <1>5 DEF Refused, RollBack, KeptByRollback
  <2>2. AtBase(schema) /\ schema.types # {} BY <1>0, <2>1, UnderwaySteps
  <2>3. schema.revision = "base" BY <2>2 DEF AtBase, Database
  <2>4. Settled(schema)' BY <2>1, <2>2 DEF Settled, AtBase
  <2> QED BY <2>1, <2>2, <2>3, <2>4 DEF SchemaInv, OnlyStrandedTypesRefuse
<1>6. CASE Interrupted
  BY <1>1, <1>6 DEF Interrupted, RollBack, KeptByRollback
<1>7. CASE CommitCommand
  <2>1. script = <<>> /\ schema' = draft /\ outcome' = "done" /\ outcome = "running"
    BY <1>7 DEF CommitCommand
  <2>2. Settled(draft) BY <1>0, <2>1, UnderwaySteps
  <2>3. Settled(schema)' BY <2>1, <2>2 DEF Settled, AtBase, AtInitial, AtHead
  <2> QED BY <2>1, <2>3 DEF SchemaInv, OnlyStrandedTypesRefuse
<1>8. CASE UNCHANGED schemaVars
  <2>1. schema' = schema /\ draft' = draft /\ script' = script /\ outcome' = outcome
    BY <1>8 DEF schemaVars
  <2> QED BY <1>0, <2>1 DEF SchemaInv, OnlyStrandedTypesRefuse, Settled, AtBase, AtInitial,
       AtHead, Underway, CreatingTables, CreatingTypes, Extending, Reducing, DroppingTypes,
       DroppingTables, Finished
<1> QED BY <1>2, <1>3, <1>4, <1>5, <1>6, <1>7, <1>8 DEF SchemaNext

(* Where a settled database stands, its tables use exactly its types. *)
LEMMA SettledTypes == \A db : Settled(db) =>
  /\ db.revision = "head" => db.tables = Declared
  /\ db.revision = "initial" => db.tables = Initial
  /\ db.revision = "base" => db.tables = {}
  /\ db.revision # "base" => db.types = UsedTypes(db)
<1>1. UNION {t.types : t \in Declared} = InitialTypes \union NewTypes
  <2>1. Declared = (Others \union {Added}) \union {Keyed} BY Phases
  <2>2. Initial = Others \union {Base} BY BaseTable
  <2>3. Keyed.types = Base.types \union AlteringTypes BY AlteredTables
  <2>4. Added.types \union AlteringTypes = NewTypes
    BY CatalogueAssumption DEF PhaseTwoScript, NewTypes
  <2> DEFINE other == UNION {t.types : t \in Others}
  <2>5. UNION {t.types : t \in Declared} = (other \union Added.types) \union Keyed.types
    BY <2>1
  <2>6. InitialTypes = other \union Base.types BY <2>2 DEF InitialTypes
  <2> HIDE DEF other
  <2> QED BY <2>3, <2>4, <2>5, <2>6
<1> TAKE db
<1> HAVE Settled(db)
<1>2. CASE AtBase(db)
  <2>1. db.tables = {} /\ db.revision = "base" BY <1>2 DEF AtBase, Database
  <2> QED BY <2>1
<1>3. CASE AtInitial(db)
  <2>1. db.tables = Initial /\ db.types = InitialTypes /\ db.revision = "initial"
    BY <1>3 DEF AtInitial, Database
  <2> QED BY <2>1 DEF UsedTypes, InitialTypes
<1>4. CASE AtHead(db)
  <2>1. db.tables = Declared /\ db.types = InitialTypes \union NewTypes /\ db.revision = "head"
    BY <1>4 DEF AtHead, Database
  <2> QED BY <1>1, <2>1 DEF UsedTypes
<1> QED BY <1>2, <1>3, <1>4 DEF Settled

(* The invariant of the migrations: between two commands the database is at
   base, perhaps with types left, at the initial revision or at head, and a
   running command has done exactly the statements before those left. *)
THEOREM SchemaStands == SchemaSpec => []SchemaInv
BY SchemaInvInit, SchemaInvNext, PTL DEF SchemaSpec

(* The version that alembic stamped describes the tables, whatever commands
   were run, refused or cut off: infra/migrations/env.py, one transaction. *)
THEOREM RevisionIsDescriptive == SchemaSpec => []RevisionDescribesTables
<1>1. SchemaInv => RevisionDescribesTables
  BY SettledTypes DEF SchemaInv, RevisionDescribesTables
<1> QED BY <1>1, SchemaStands, PTL

(* Away from base the enum types are exactly those the tables use: what the
   phase 2 downgrade drops is what its upgrade created. *)
THEOREM TypesAreUsed == SchemaSpec => []TypesMatchTables
<1>1. SchemaInv => TypesMatchTables BY SettledTypes DEF SchemaInv, TypesMatchTables
<1> QED BY <1>1, SchemaStands, PTL

(* PostgreSQL refuses a statement of the two scripts only where an earlier
   downgrade to base left the enum types of the initial script. *)
THEOREM RefusalIsStrandedTypes == SchemaSpec => []OnlyStrandedTypesRefuse
<1>1. SchemaInv => OnlyStrandedTypesRefuse BY DEF SchemaInv
<1> QED BY <1>1, SchemaStands, PTL
-----------------------------------------------------------------------------
PCs == {"new", "rejected", "checked", "user", "organization", "valid", "revoked", "done"}
Registering == {"checked", "user", "organization"}
Refreshing == {"valid", "revoked"}

TokenRows ==
  [user : Emails \union {"none"}, revoked : BOOLEAN, expired : BOOLEAN,
   parent : Tokens \union {0}, after : SUBSET Tokens]
Requests ==
  [pc : PCs, email : Emails \union {"none"}, slug : Slugs \union {"none"},
   token : Tokens \union {0}, after : SUBSET Tokens]

(* What the first read of a request leaves in its hands. *)
Rejected == [NewHandler EXCEPT !.pc = "rejected"]
Checked(email, slug) == [NewHandler EXCEPT !.pc = "checked", !.email = email, !.slug = slug]
Validated(t) == [NewHandler EXCEPT !.pc = "valid", !.token = t, !.after = Stored]

SessionTypes ==
  /\ users \subseteq Emails
  /\ organizations \subseteq Slugs
  /\ members \subseteq users \X organizations
  /\ tokens \in [Tokens -> TokenRows]
  /\ handler \in [Handlers -> Requests]

InHand ==
  \A h \in Handlers :
    /\ handler[h].pc \in Registering => handler[h].email \in Emails /\ handler[h].slug \in Slugs
    /\ handler[h].pc \in Refreshing => handler[h].token \in Stored

(* The unique constraint on the slug, with the transactions that are open. *)
SlugIsHeldOnce ==
  \A h \in Handlers : handler[h].pc = "organization" =>
    /\ handler[h].slug \notin organizations
    /\ \A g \in Handlers : handler[g].pc = "organization" /\ handler[g].slug = handler[h].slug => g = h

(* An organization is its founder's. *)
OneFounder ==
  \A slug \in organizations : \E email \in users : {m \in members : m[2] = slug} = {<<email, slug>>}

EveryUserBelongs ==
  \A email \in users :
    /\ \E slug \in organizations : <<email, slug>> \in members
    /\ \E t \in Tokens : tokens[t].user = email

(* A token that has a successor is revoked. *)
ParentIsRevoked ==
  \A s \in Stored : tokens[s].parent # 0 =>
    tokens[s].parent \in Stored /\ tokens[tokens[s].parent].revoked

(* What a request had seen when it found its token usable: no successor. *)
SawNoSuccessor ==
  /\ \A h \in Handlers : handler[h].pc \in Refreshing =>
       \A s \in handler[h].after : s \in Stored /\ tokens[s].parent # handler[h].token
  /\ \A t \in Stored : tokens[t].parent # 0 =>
       \A s \in tokens[t].after : s \in Stored /\ tokens[s].parent # tokens[t].parent

TenantInv == SessionTypes /\ InHand /\ SlugIsHeldOnce /\ OneFounder /\ EveryUserBelongs
RotationInv == SessionTypes /\ InHand /\ ParentIsRevoked /\ SawNoSuccessor
-----------------------------------------------------------------------------
(* A stored token keeps its owner, its parent and what preceded it, and once it
   is revoked it stays revoked. *)
LEMMA RowsAreKept ==
  ASSUME SessionTypes, InHand, [SessionsNext]_sessionVars, NEW t \in Stored
  PROVE  /\ t \in Stored'
         /\ tokens'[t].user = tokens[t].user
         /\ tokens'[t].parent = tokens[t].parent
         /\ tokens'[t].after = tokens[t].after
         /\ tokens[t].revoked => tokens'[t].revoked
<1> USE DEF Stored
<1>1. CASE UNCHANGED tokens
  BY <1>1
<1>2. ASSUME NEW h \in Handlers, CommitRegistration(h) PROVE tokens'[t] = tokens[t]
  BY <1>2 DEF CommitRegistration, Unused, SessionTypes
<1>3. ASSUME NEW h \in Handlers, NEW email \in Emails, Login(h, email)
      PROVE tokens'[t] = tokens[t]
  BY <1>3 DEF Login, Unused, SessionTypes
<1>4. ASSUME NEW h \in Handlers, CommitRefresh(h)
      PROVE tokens'[t] = tokens[t] \/ tokens'[t] = [tokens[t] EXCEPT !.revoked = TRUE]
  BY <1>4 DEF CommitRefresh, RevokedRow, Unused, SessionTypes
<1>5. ASSUME NEW u \in Tokens, ExpireToken(u)
      PROVE tokens'[t] = tokens[t] \/ tokens'[t] = [tokens[t] EXCEPT !.expired = TRUE]
  BY <1>5 DEF ExpireToken, SessionTypes
<1>6. tokens[t] \in TokenRows
  BY DEF SessionTypes
<1> QED
  BY <1>1, <1>2, <1>3, <1>4, <1>5, <1>6
  DEF SessionsNext, CheckRegistration, InsertUser, InsertOrganization, Validate, Revoke,
      RollBackRequest, sessionVars, TokenRows

(* A step that only moves one request on. *)
LEMMA OneRequestMoves ==
  ASSUME SessionTypes, InHand, NEW h \in Handlers, NEW r \in Requests,
         handler' = [handler EXCEPT ![h] = r],
         UNCHANGED <<users, organizations, members, tokens>>,
         r.pc \in Registering => r.email \in Emails /\ r.slug \in Slugs,
         r.pc \in Refreshing => r.token \in Stored
  PROVE  SessionTypes' /\ InHand'
<1>1. SessionTypes'
  BY DEF SessionTypes
<1>2. \A g \in Handlers : handler'[g] = IF g = h THEN r ELSE handler[g]
  BY DEF SessionTypes
<1>3. Stored' = Stored
  BY DEF Stored
<1> QED
  BY <1>1, <1>2, <1>3 DEF InHand

(* The types, and what a request holds while it works. *)
LEMMA StepTypes ==
  ASSUME SessionTypes, InHand, [SessionsNext]_sessionVars
  PROVE  SessionTypes' /\ InHand'
<1> USE DEF SessionTypes, InHand, Requests, PCs, Registering, Refreshing
<1>0. /\ NewHandler \in Requests
      /\ \A pc \in PCs : [NewHandler EXCEPT !.pc = pc] \in Requests
      /\ Rejected \in Requests /\ Rejected.pc = "rejected"
  BY DEF NewHandler, Rejected
<1>1. \A h \in Handlers : handler[h].pc \in Refreshing => handler[h].token \in Stored'
  BY RowsAreKept
<1>2. ASSUME NEW h \in Handlers, NEW email \in Emails, NEW slug \in Slugs,
             CheckRegistration(h, email, slug)
      PROVE  SessionTypes' /\ InHand'
  <2>1. /\ Checked(email, slug) \in Requests
        /\ Checked(email, slug).pc = "checked"
        /\ Checked(email, slug).email = email /\ Checked(email, slug).slug = slug
    BY DEF NewHandler, Checked
  <2>2. \/ handler' = [handler EXCEPT ![h] = Rejected]
        \/ handler' = [handler EXCEPT ![h] = Checked(email, slug)]
    BY ONLY <1>2 DEF CheckRegistration, Rejected, Checked
  <2>3. UNCHANGED <<users, organizations, members, tokens>>
    BY <1>2 DEF CheckRegistration
  <2>4. CASE handler' = [handler EXCEPT ![h] = Rejected]
    <3> HIDE DEF Requests, InHand, SessionTypes
    <3> QED
      BY <1>0, <2>3, <2>4, OneRequestMoves
  <2>5. CASE handler' = [handler EXCEPT ![h] = Checked(email, slug)]
    <3> HIDE DEF Requests, InHand, SessionTypes
    <3> QED
      BY <2>1, <2>3, <2>5, OneRequestMoves
  <2> QED
    BY <2>2, <2>4, <2>5
<1>3. ASSUME NEW h \in Handlers, InsertUser(h) PROVE SessionTypes' /\ InHand'
  <2> DEFINE flushed == [handler[h] EXCEPT !.pc = "user"]
  <2>1. UNCHANGED <<users, organizations, members, tokens>> /\ handler[h].pc \in Registering
    BY <1>3 DEF InsertUser, UserCommits
  <2>2. /\ flushed \in Requests /\ flushed.pc = "user"
        /\ flushed.email \in Emails /\ flushed.slug \in Slugs
    BY <2>1
  <2>3. CASE handler' = [handler EXCEPT ![h] = Rejected]
    <3> HIDE DEF Requests, InHand, SessionTypes
    <3> QED
      BY <1>0, <2>1, <2>3, OneRequestMoves
  <2>4. CASE handler' = [handler EXCEPT ![h] = flushed]
    <3> HIDE DEF Requests, InHand, SessionTypes, flushed
    <3> QED
      BY <2>1, <2>2, <2>4, OneRequestMoves
  <2> QED
    BY <1>3, <2>3, <2>4 DEF InsertUser, Reject, Answer, Goto, Rejected
<1>4. ASSUME NEW h \in Handlers, InsertOrganization(h) PROVE SessionTypes' /\ InHand'
  <2> DEFINE flushed == [handler[h] EXCEPT !.pc = "organization"]
  <2>1. UNCHANGED <<users, organizations, members, tokens>> /\ handler[h].pc \in Registering
    BY <1>4 DEF InsertOrganization
  <2>2. /\ flushed \in Requests /\ flushed.pc = "organization"
        /\ flushed.email \in Emails /\ flushed.slug \in Slugs
    BY <2>1
  <2>3. CASE handler' = [handler EXCEPT ![h] = Rejected]
    <3> HIDE DEF Requests, InHand, SessionTypes
    <3> QED
      BY <1>0, <2>1, <2>3, OneRequestMoves
  <2>4. CASE handler' = [handler EXCEPT ![h] = flushed]
    <3> HIDE DEF Requests, InHand, SessionTypes, flushed
    <3> QED
      BY <2>1, <2>2, <2>4, OneRequestMoves
  <2> QED
    BY <1>4, <2>3, <2>4 DEF InsertOrganization, Reject, Answer, Goto, Rejected
<1>5. ASSUME NEW h \in Handlers, CommitRegistration(h) PROVE SessionTypes' /\ InHand'
  <2>1. handler[h].email \in Emails /\ handler[h].slug \in Slugs
    BY <1>5 DEF CommitRegistration
  <2>2. Fresh(handler[h].email, 0, {}) \in TokenRows
    BY <2>1 DEF Fresh, NoToken, TokenRows
  <2> QED
    BY <1>0, <1>1, <1>5, <2>1, <2>2 DEF CommitRegistration, Answer, NewHandler
<1>6. ASSUME NEW h \in Handlers, NEW email \in Emails, Login(h, email)
      PROVE SessionTypes' /\ InHand'
  <2>1. Fresh(email, 0, {}) \in TokenRows
    BY DEF Fresh, NoToken, TokenRows
  <2> QED
    BY <1>0, <1>1, <1>6, <2>1 DEF Login, Answer, NewHandler
<1>7. ASSUME NEW h \in Handlers, NEW t \in Tokens, Validate(h, t) PROVE SessionTypes' /\ InHand'
  <2>1. Stored \subseteq Tokens
    BY DEF Stored
  <2>2. /\ Validated(t) \in Requests
        /\ Validated(t).pc = "valid" /\ Validated(t).token = t
    BY <2>1 DEF NewHandler, Validated
  <2>3. \/ handler' = [handler EXCEPT ![h] = Rejected]
        \/ handler' = [handler EXCEPT ![h] = Validated(t)]
    BY ONLY <1>7 DEF Validate, Rejected, Validated
  <2>4. UNCHANGED <<users, organizations, members, tokens>> /\ t \in Stored
    BY <1>7 DEF Validate
  <2>5. CASE handler' = [handler EXCEPT ![h] = Rejected]
    <3> HIDE DEF Requests, InHand, SessionTypes
    <3> QED
      BY <1>0, <2>4, <2>5, OneRequestMoves
  <2>6. CASE handler' = [handler EXCEPT ![h] = Validated(t)]
    <3> HIDE DEF Requests, InHand, SessionTypes
    <3> QED
      BY <2>2, <2>4, <2>6, OneRequestMoves
  <2> QED
    BY <2>3, <2>5, <2>6
<1>8. ASSUME NEW h \in Handlers, Revoke(h) PROVE SessionTypes' /\ InHand'
  BY <1>1, <1>8 DEF Revoke, Goto
<1>9. ASSUME NEW h \in Handlers, CommitRefresh(h) PROVE SessionTypes' /\ InHand'
  <2> DEFINE token == handler[h].token
  <2>1. token \in Stored /\ token \in Tokens
    BY <1>9 DEF CommitRefresh, Stored
  <2>0. tokens[token] \in TokenRows
    BY <2>1
  <2>2. RevokedRow(token) \in TokenRows
    BY <2>0 DEF RevokedRow, TokenRows
  <2>3. Fresh(tokens[token].user, token, handler[h].after) \in TokenRows
    BY <2>0, <2>1 DEF Fresh, NoToken, TokenRows
  <2>4. tokens' \in [Tokens -> TokenRows]
    BY <1>9, <2>1, <2>2, <2>3 DEF CommitRefresh
  <2> QED
    BY <1>0, <1>1, <1>9, <2>4 DEF CommitRefresh, Answer, NewHandler
<1>10. ASSUME NEW h \in Handlers, RollBackRequest(h) PROVE SessionTypes' /\ InHand'
  BY <1>0, <1>1, <1>10 DEF RollBackRequest, Reject, Answer, NewHandler
<1>11. ASSUME NEW t \in Tokens, ExpireToken(t) PROVE SessionTypes' /\ InHand'
  <2>0. tokens[t] \in TokenRows
    OBVIOUS
  <2>1. [tokens[t] EXCEPT !.expired = TRUE] \in TokenRows
    BY <2>0 DEF TokenRows
  <2> QED
    BY <1>1, <1>11, <2>1 DEF ExpireToken
<1>12. CASE UNCHANGED sessionVars
  BY <1>1, <1>12 DEF sessionVars, Stored
<1> QED
  BY <1>2, <1>3, <1>4, <1>5, <1>6, <1>7, <1>8, <1>9, <1>10, <1>11, <1>12 DEF SessionsNext
-----------------------------------------------------------------------------
(* Only the commit of a registration adds users, organizations or members. *)
LEMMA RegistrationAdds ==
  ASSUME [SessionsNext]_sessionVars
  PROVE  \/ UNCHANGED <<users, organizations, members>>
         \/ \E h \in Handlers : CommitRegistration(h)
BY DEF SessionsNext, sessionVars, CheckRegistration, InsertUser, UserCommits, InsertOrganization,
       Login, Validate, Revoke, CommitRefresh, RollBackRequest, ExpireToken

(* A request that has flushed an organization did so in this step, when nobody
   held its slug, or had done so before. *)
LEMMA FlushedOrganization ==
  ASSUME SessionTypes, [SessionsNext]_sessionVars,
         NEW g \in Handlers, handler'[g].pc = "organization"
  PROVE  \/ handler'[g] = handler[g]
         \/ /\ HoldsSlug(handler'[g].slug) = {}
            /\ handler'[g].slug \notin organizations
            /\ \A h \in Handlers \ {g} : handler'[h] = handler[h]
            /\ UNCHANGED organizations
<1> USE DEF SessionTypes, NewHandler, Answer, Reject, Goto, Requests
<1>1. CASE UNCHANGED handler
  BY <1>1
<1>2. ASSUME NEW h \in Handlers, NEW email \in Emails, NEW slug \in Slugs,
             CheckRegistration(h, email, slug)
      PROVE  handler'[g] = handler[g]
  BY <1>2 DEF CheckRegistration
<1>3. ASSUME NEW h \in Handlers, InsertUser(h) PROVE handler'[g] = handler[g]
  BY <1>3 DEF InsertUser
<1>4. ASSUME NEW h \in Handlers, InsertOrganization(h), h # g PROVE handler'[g] = handler[g]
  BY <1>4 DEF InsertOrganization
<1>5. ASSUME InsertOrganization(g)
      PROVE  /\ HoldsSlug(handler'[g].slug) = {}
             /\ handler'[g].slug \notin organizations
             /\ \A h \in Handlers \ {g} : handler'[h] = handler[h]
             /\ UNCHANGED organizations
  <2>1. handler' = [handler EXCEPT ![g].pc = "organization"] /\ handler[g].slug \notin organizations
    BY <1>5 DEF InsertOrganization
  <2>2. handler'[g].slug = handler[g].slug
    BY <2>1
  <2> QED
    BY <1>5, <2>1, <2>2 DEF InsertOrganization
<1>6. ASSUME NEW h \in Handlers, CommitRegistration(h) \/ CommitRefresh(h) \/ RollBackRequest(h)
      PROVE  handler'[g] = handler[g]
  BY <1>6 DEF CommitRegistration, CommitRefresh, RollBackRequest
<1>7. ASSUME NEW h \in Handlers, NEW email \in Emails, Login(h, email)
      PROVE  handler'[g] = handler[g]
  BY <1>7 DEF Login
<1>8. ASSUME NEW h \in Handlers, NEW t \in Tokens, Validate(h, t) PROVE handler'[g] = handler[g]
  BY <1>8 DEF Validate
<1>9. ASSUME NEW h \in Handlers, Revoke(h) PROVE handler'[g] = handler[g]
  BY <1>9 DEF Revoke
<1> QED
  BY <1>1, <1>2, <1>3, <1>4, <1>5, <1>6, <1>7, <1>8, <1>9 DEF SessionsNext, ExpireToken, sessionVars

LEMMA StepSlugs ==
  ASSUME TenantInv, [SessionsNext]_sessionVars PROVE SlugIsHeldOnce'
<1> USE DEF TenantInv
<1> SUFFICES ASSUME NEW g \in Handlers, handler'[g].pc = "organization"
    PROVE  /\ handler'[g].slug \notin organizations'
           /\ \A h \in Handlers :
                handler'[h].pc = "organization" /\ handler'[h].slug = handler'[g].slug => h = g
  BY DEF SlugIsHeldOnce
<1>1. CASE handler'[g] = handler[g]
  <2>1. handler'[g].slug \notin organizations'
    <3>1. CASE UNCHANGED organizations
      BY <1>1, <3>1 DEF SlugIsHeldOnce
    <3>2. ASSUME NEW h \in Handlers, CommitRegistration(h) PROVE handler'[g].slug \notin organizations'
      <4>1. handler[h].pc = "organization" /\ handler'[h].pc = "done"
        BY <3>2 DEF CommitRegistration, Answer, SessionTypes, NewHandler
      <4>2. handler[g].slug # handler[h].slug
        BY <1>1, <4>1 DEF SlugIsHeldOnce
      <4> QED
        BY <1>1, <3>2, <4>2 DEF CommitRegistration, SlugIsHeldOnce
    <3> QED
      BY <3>1, <3>2, RegistrationAdds
  <2>2. ASSUME NEW h \in Handlers, handler'[h].pc = "organization", handler'[h].slug = handler'[g].slug
        PROVE  h = g
    BY <1>1, <2>2, FlushedOrganization DEF SlugIsHeldOnce, HoldsSlug
  <2> QED
    BY <2>1, <2>2
<1>2. CASE /\ HoldsSlug(handler'[g].slug) = {}
           /\ handler'[g].slug \notin organizations
           /\ \A h \in Handlers \ {g} : handler'[h] = handler[h]
           /\ UNCHANGED organizations
  BY <1>2 DEF HoldsSlug
<1> QED
  BY <1>1, <1>2, FlushedOrganization

LEMMA StepFounder ==
  ASSUME TenantInv, [SessionsNext]_sessionVars PROVE OneFounder'
<1> USE DEF TenantInv
<1>1. CASE UNCHANGED <<users, organizations, members>>
  BY <1>1 DEF OneFounder
<1>2. ASSUME NEW h \in Handlers, CommitRegistration(h) PROVE OneFounder'
  <2> DEFINE founder == handler[h].email
             mine == handler[h].slug
  <2>1. /\ mine \notin organizations
        /\ users' = users \union {founder}
        /\ organizations' = organizations \union {mine}
        /\ members' = members \union {<<founder, mine>>}
    BY <1>2 DEF CommitRegistration, SlugIsHeldOnce
  <2>2. \A m \in members : m[2] \in organizations
    BY DEF SessionTypes
  <2>3. {m \in members' : m[2] = mine} = {<<founder, mine>>}
    BY <2>1, <2>2
  <2>4. \A slug \in organizations :
          {m \in members' : m[2] = slug} = {m \in members : m[2] = slug}
    BY <2>1
  <2> QED
    BY <2>1, <2>3, <2>4 DEF OneFounder
<1> QED
  BY <1>1, <1>2, RegistrationAdds

LEMMA StepMembers ==
  ASSUME TenantInv, [SessionsNext]_sessionVars PROVE EveryUserBelongs'
<1> USE DEF TenantInv
<1>1. ASSUME NEW email \in users PROVE \E t \in Tokens : tokens'[t].user = email
  <2>1. PICK t \in Tokens : tokens[t].user = email
    BY DEF EveryUserBelongs
  <2>2. t \in Stored
    BY <2>1, SessionsAssumption DEF Stored, SessionTypes
  <2> QED
    BY <2>1, <2>2, RowsAreKept
<1>2. CASE UNCHANGED <<users, organizations, members>>
  BY <1>1, <1>2 DEF EveryUserBelongs
<1>3. ASSUME NEW h \in Handlers, CommitRegistration(h) PROVE EveryUserBelongs'
  <2>1. \E t \in Tokens : tokens'[t].user = handler[h].email
    BY <1>3 DEF CommitRegistration, SessionTypes, Fresh, NoToken
  <2>2. /\ users' = users \union {handler[h].email}
        /\ organizations' = organizations \union {handler[h].slug}
        /\ members' = members \union {<<handler[h].email, handler[h].slug>>}
    BY <1>3 DEF CommitRegistration
  <2> QED
    BY <1>1, <2>1, <2>2 DEF EveryUserBelongs
<1> QED
  BY <1>2, <1>3, RegistrationAdds
-----------------------------------------------------------------------------
LEMMA InitTenants == SessionsInit => TenantInv /\ RotationInv
<1> SUFFICES ASSUME SessionsInit PROVE TenantInv /\ RotationInv
  OBVIOUS
<1>1. NoToken \in TokenRows /\ NoToken.user = "none"
  BY DEF NoToken, TokenRows
<1>2. NewHandler \in Requests /\ NewHandler.pc = "new"
  BY DEF NewHandler, Requests, PCs
<1>3. Stored = {}
  BY <1>1 DEF SessionsInit, Stored
<1>4. SessionTypes
  BY <1>1, <1>2 DEF SessionsInit, SessionTypes
<1>5. \A h \in Handlers : handler[h].pc = "new"
  BY <1>2 DEF SessionsInit
<1>6. InHand
  BY <1>5 DEF InHand, Registering, Refreshing
<1>7. SlugIsHeldOnce /\ OneFounder /\ EveryUserBelongs
  BY <1>5 DEF SessionsInit, SlugIsHeldOnce, OneFounder, EveryUserBelongs
<1>8. ParentIsRevoked /\ SawNoSuccessor
  BY <1>3, <1>5 DEF ParentIsRevoked, SawNoSuccessor, Refreshing
<1> QED
  BY <1>4, <1>6, <1>7, <1>8 DEF TenantInv, RotationInv

LEMMA TenantInvSuffices == TenantInv => TenantsAreWhole
<1> SUFFICES ASSUME TenantInv PROVE TenantsAreWhole
  OBVIOUS
<1>1. ASSUME NEW slug \in organizations PROVE Cardinality({m \in members : m[2] = slug}) = 1
  <2>1. PICK email \in users : {m \in members : m[2] = slug} = {<<email, slug>>}
    BY DEF TenantInv, OneFounder
  <2> QED
    BY <2>1, FS_Singleton
<1> QED
  BY <1>1 DEF TenantInv, TenantsAreWhole, SessionTypes, EveryUserBelongs

(* Whatever registers at the same time and whatever fails, every user has an
   organization and a token, and every organization its one founder. *)
THEOREM TenantsStayWhole == SessionsSpec => []TenantsAreWhole
<1>1. SessionsInit => TenantInv
  BY InitTenants
<1>2. TenantInv /\ [SessionsNext]_sessionVars => TenantInv'
  BY StepTypes, StepSlugs, StepFounder, StepMembers DEF TenantInv
<1> QED
  BY <1>1, <1>2, TenantInvSuffices, PTL DEF SessionsSpec
-----------------------------------------------------------------------------
(* A new token has no parent, or is the successor of the token its request held. *)
LEMMA NewRows ==
  ASSUME SessionTypes, InHand, [SessionsNext]_sessionVars, NEW s \in Stored', s \notin Stored
  PROVE  \/ tokens'[s].parent = 0
         \/ \E h \in Handlers :
              /\ handler[h].pc \in Refreshing
              /\ tokens'[s].parent = handler[h].token
              /\ tokens'[s].after = handler[h].after
              /\ tokens'[handler[h].token].revoked
<1> USE DEF Stored, SessionTypes
<1>1. CASE UNCHANGED tokens
  BY <1>1
<1>2. ASSUME NEW h \in Handlers, CommitRegistration(h) PROVE tokens'[s].parent = 0
  BY <1>2 DEF CommitRegistration, Fresh, NoToken
<1>3. ASSUME NEW h \in Handlers, NEW email \in Emails, Login(h, email) PROVE tokens'[s].parent = 0
  BY <1>3 DEF Login, Fresh, NoToken
<1>4. ASSUME NEW h \in Handlers, CommitRefresh(h)
      PROVE  /\ handler[h].pc \in Refreshing
             /\ tokens'[s].parent = handler[h].token
             /\ tokens'[s].after = handler[h].after
             /\ tokens'[handler[h].token].revoked
  <2> DEFINE me == handler[h]
  <2>1. me.pc = "revoked" /\ me.token \in Stored
    BY <1>4 DEF CommitRefresh, InHand, Refreshing
  <2>2. RevokedRow(me.token).user = tokens[me.token].user /\ RevokedRow(me.token).revoked
    BY <2>1 DEF RevokedRow, TokenRows
  <2>3. PICK t \in Tokens :
          /\ t \notin Stored
          /\ tokens' = [tokens EXCEPT
               ![me.token] = RevokedRow(me.token),
               ![t] = Fresh(tokens[me.token].user, me.token, me.after)]
    BY <1>4 DEF CommitRefresh, Unused
  <2>4. s = t /\ t # me.token
    BY <2>1, <2>2, <2>3
  <2> QED
    BY <2>1, <2>2, <2>3, <2>4 DEF Fresh, NoToken, Refreshing
<1>5. ASSUME NEW t \in Tokens, ExpireToken(t) PROVE FALSE
  BY <1>5 DEF ExpireToken, TokenRows
<1> QED
  BY <1>1, <1>2, <1>3, <1>4, <1>5
  DEF SessionsNext, CheckRegistration, InsertUser, InsertOrganization, Validate, Revoke,
      RollBackRequest, sessionVars

(* A request that refreshes found its token usable in this step, or holds what it held. *)
LEMMA RefreshingRequests ==
  ASSUME SessionTypes, [SessionsNext]_sessionVars,
         NEW g \in Handlers, handler'[g].pc \in Refreshing
  PROVE  \/ /\ handler[g].pc \in Refreshing
            /\ handler'[g].token = handler[g].token
            /\ handler'[g].after = handler[g].after
         \/ /\ handler'[g].token \in Tokens
            /\ Valid(handler'[g].token)
            /\ handler'[g].after = Stored
<1> USE DEF SessionTypes, NewHandler, Answer, Reject, Goto, Requests, Refreshing
<1>1. CASE UNCHANGED handler
  BY <1>1
<1>2. ASSUME NEW h \in Handlers, NEW email \in Emails, NEW slug \in Slugs,
             CheckRegistration(h, email, slug)
      PROVE  handler'[g] = handler[g]
  BY <1>2 DEF CheckRegistration
<1>3. ASSUME NEW h \in Handlers, InsertUser(h) \/ InsertOrganization(h) PROVE handler'[g] = handler[g]
  BY <1>3 DEF InsertUser, InsertOrganization
<1>4. ASSUME NEW h \in Handlers, CommitRegistration(h) \/ CommitRefresh(h) \/ RollBackRequest(h)
      PROVE  handler'[g] = handler[g]
  BY <1>4 DEF CommitRegistration, CommitRefresh, RollBackRequest
<1>5. ASSUME NEW h \in Handlers, NEW email \in Emails, Login(h, email)
      PROVE  handler'[g] = handler[g]
  BY <1>5 DEF Login
<1>6. ASSUME NEW h \in Handlers, NEW t \in Tokens, Validate(h, t), h # g
      PROVE handler'[g] = handler[g]
  BY <1>6 DEF Validate
<1>7. ASSUME NEW t \in Tokens, Validate(g, t)
      PROVE  handler'[g].token = t /\ Valid(t) /\ handler'[g].after = Stored
  BY <1>7 DEF Validate
<1>8. ASSUME NEW h \in Handlers, Revoke(h)
      PROVE  /\ handler[g].pc \in Refreshing
             /\ handler'[g].token = handler[g].token
             /\ handler'[g].after = handler[g].after
  BY <1>8 DEF Revoke
<1> QED
  BY <1>1, <1>2, <1>3, <1>4, <1>5, <1>6, <1>7, <1>8 DEF SessionsNext, ExpireToken, sessionVars

LEMMA StepParents ==
  ASSUME RotationInv, [SessionsNext]_sessionVars PROVE ParentIsRevoked'
<1> USE DEF RotationInv
<1> SUFFICES ASSUME NEW s \in Stored', tokens'[s].parent # 0
    PROVE  tokens'[s].parent \in Stored' /\ tokens'[tokens'[s].parent].revoked
  BY DEF ParentIsRevoked
<1>1. CASE s \in Stored
  <2>1. tokens'[s].parent = tokens[s].parent
    BY <1>1, RowsAreKept
  <2>2. tokens[s].parent \in Stored /\ tokens[tokens[s].parent].revoked
    BY <1>1, <2>1 DEF ParentIsRevoked
  <2> QED
    BY <2>1, <2>2, RowsAreKept
<1>2. CASE s \notin Stored
  <2>1. PICK h \in Handlers :
          /\ handler[h].pc \in Refreshing
          /\ tokens'[s].parent = handler[h].token
          /\ tokens'[handler[h].token].revoked
    BY <1>2, NewRows
  <2> QED
    BY <2>1, RowsAreKept DEF InHand
<1> QED
  BY <1>1, <1>2

LEMMA StepSuccessors ==
  ASSUME RotationInv, [SessionsNext]_sessionVars PROVE SawNoSuccessor'
<1> USE DEF RotationInv
<1>1. ASSUME NEW g \in Handlers, handler'[g].pc \in Refreshing, NEW s \in handler'[g].after
      PROVE  s \in Stored' /\ tokens'[s].parent # handler'[g].token
  <2>1. CASE /\ handler[g].pc \in Refreshing
             /\ handler'[g].token = handler[g].token
             /\ handler'[g].after = handler[g].after
    <3>1. s \in Stored /\ tokens[s].parent # handler[g].token
      BY <1>1, <2>1 DEF SawNoSuccessor
    <3> QED
      BY <2>1, <3>1, RowsAreKept
  <2>2. CASE /\ handler'[g].token \in Tokens
             /\ Valid(handler'[g].token)
             /\ handler'[g].after = Stored
    <3>1. s \in Stored /\ handler'[g].token # 0
      BY <1>1, <2>2, SessionsAssumption DEF Tokens
    <3>2. tokens[s].parent # handler'[g].token
      BY <2>2, <3>1 DEF ParentIsRevoked, Valid
    <3> QED
      BY <3>1, <3>2, RowsAreKept
  <2> QED
    BY <1>1, <2>1, <2>2, RefreshingRequests
<1>2. ASSUME NEW t \in Stored', tokens'[t].parent # 0, NEW s \in tokens'[t].after
      PROVE  s \in Stored' /\ tokens'[s].parent # tokens'[t].parent
  <2>1. CASE t \in Stored
    <3>1. tokens'[t].parent = tokens[t].parent /\ tokens'[t].after = tokens[t].after
      BY <2>1, RowsAreKept
    <3>2. s \in Stored /\ tokens[s].parent # tokens[t].parent
      BY <1>2, <2>1, <3>1 DEF SawNoSuccessor
    <3> QED
      BY <3>1, <3>2, RowsAreKept
  <2>2. CASE t \notin Stored
    <3>1. PICK h \in Handlers :
            /\ handler[h].pc \in Refreshing
            /\ tokens'[t].parent = handler[h].token
            /\ tokens'[t].after = handler[h].after
      BY <1>2, <2>2, NewRows
    <3>2. s \in Stored /\ tokens[s].parent # handler[h].token
      BY <1>2, <3>1 DEF SawNoSuccessor
    <3> QED
      BY <3>1, <3>2, RowsAreKept
  <2> QED
    BY <2>1, <2>2
<1> QED
  BY <1>1, <1>2 DEF SawNoSuccessor

LEMMA RotationInvSuffices == RotationInv => RotationForksOnlyConcurrently
BY SessionsAssumption
DEF RotationInv, RotationForksOnlyConcurrently, ParentIsRevoked, SawNoSuccessor, Valid, Stored, Tokens

(* However refreshes interleave, fail and expire, an exchanged token stays
   unusable, and its successors were asked for before either was stored. *)
THEOREM RotationIsAChain == SessionsSpec => []RotationForksOnlyConcurrently
<1>1. SessionsInit => RotationInv
  BY InitTenants
<1>2. RotationInv /\ [SessionsNext]_sessionVars => RotationInv'
  BY StepTypes, StepParents, StepSuccessors DEF RotationInv
<1> QED
  BY <1>1, <1>2, RotationInvSuffices, PTL DEF SessionsSpec
=============================================================================

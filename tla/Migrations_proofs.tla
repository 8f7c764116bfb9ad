--------------------------- MODULE Migrations_proofs ---------------------------
(***************************************************************************)
(* Proofs about Migrations, for any number of processes and interruptions: *)
(* the history is true, a connection is handed out on a complete schema    *)
(* only, and a database that is refused is left alone.                     *)
(***************************************************************************)
EXTENDS Migrations, TLAPS

\* Part of the inductive invariant: what a process at its loop relies on.  It
\* has verified the history, the versions it has passed are recorded, and the
\* statements it has executed are in force: nobody takes any of it back.
RunsAreSound ==
    \A p \in Processes :
        /\ pc[p] \in {"verify", "look", "apply", "open"} => history
        /\ pc[p] \in {"look", "apply", "open"} => recorded \subseteq Versions /\ altered = {}
        /\ pc[p] \in {"look", "apply"} =>
              \A u \in 1 .. at[p].version - 1 : u \in recorded
        /\ pc[p] = "look" => at[p].statement = 1
        /\ pc[p] = "apply" =>
              \A k \in 1 .. at[p].statement - 1 : Script[at[p].version][k] \in objects

\* Part of the inductive invariant: a process that is past the first test can
\* only have found an empty database or one with a history, and versions are
\* recorded in a history.
RefusedFirst ==
    /\ ~ history /\ objects # {} => \A p \in Processes : pc[p] \in {"closed", "reject"}
    /\ recorded \cup altered # {} => history

IInv ==
    /\ TypeOK
    /\ HistoryIsTrue
    /\ OpenedAtLatest
    /\ RunsAreSound
    /\ RefusedFirst

-----------------------------------------------------------------------------
(***************************************************************************)
(* The scripts.                                                            *)
(***************************************************************************)
LEMMA VersionFacts ==
    /\ LatestSchemaVersion = 5
    /\ Versions = 1 .. 5
    /\ NewerVersion = 6
  BY DEF LatestSchemaVersion, Versions, NewerVersion, Script

\* Every script has one or two statements, and defines managed objects.
LEMMA ScriptFacts ==
    ASSUME NEW v \in Versions
    PROVE  /\ Len(Script[v]) \in 1 .. 2
           /\ DOMAIN Script[v] = 1 .. Len(Script[v])
           /\ ObjectsOf(v) \subseteq Objects
           /\ \A k \in 1 .. Len(Script[v]) : Script[v][k] \in Objects
<1>1. v \in {1, 2, 3, 4, 5}
  BY VersionFacts
<1>2. Len(Script[v]) \in 1 .. 2 /\ DOMAIN Script[v] = 1 .. Len(Script[v])
  BY <1>1 DEF Script
<1>3. ObjectsOf(v) \subseteq Objects
  BY DEF Objects
<1> QED BY <1>2, <1>3 DEF ObjectsOf

-----------------------------------------------------------------------------
(***************************************************************************)
(* The steps.                                                              *)
(***************************************************************************)
Positions == [version : Versions, statement : 1 .. 3]

\* What a process needs to know where it goes.
Entitled(stage, position) ==
    /\ stage \in {"ensure", "verify", "look", "apply", "open"} => history \/ objects = {}
    /\ stage \in {"verify", "look", "apply", "open"} => history
    /\ stage \in {"look", "apply", "open"} => recorded \subseteq Versions /\ altered = {}
    /\ stage \in {"look", "apply"} => \A u \in 1 .. position.version - 1 : u \in recorded
    /\ stage = "look" => position.statement = 1
    /\ stage = "apply" =>
          \A k \in 1 .. position.statement - 1 : Script[position.version][k] \in objects
    /\ stage = "open" => recorded = Versions /\ objects = Objects

\* A process that moves, with the schema as it is, to a place it is entitled to.
LEMMA GotoSafe ==
    ASSUME IInv, NEW p \in Processes, NEW stage \in Stages, NEW position \in Positions,
           Goto(p, stage, position), Entitled(stage, position), UNCHANGED Schema,
           exists' \in BOOLEAN, interruptions' \in 0 .. MaxInterruptions
    PROVE  IInv'
<1> USE DEF IInv, Goto, Schema
<1>1. TypeOK'
  BY DEF TypeOK, Positions
<1>2. HistoryIsTrue'
  BY DEF HistoryIsTrue
<1>3. \A q \in Processes : q # p => pc'[q] = pc[q] /\ at'[q] = at[q]
  BY DEF TypeOK
<1>4. pc'[p] = stage /\ at'[p] = position
  BY DEF TypeOK
<1>5. OpenedAtLatest'
  BY <1>3, <1>4 DEF OpenedAtLatest, Entitled
<1>6. RunsAreSound'
  BY <1>3, <1>4 DEF RunsAreSound, Entitled
<1>7. RefusedFirst'
  BY <1>3, <1>4 DEF RefusedFirst, Entitled, Stages
<1> QED BY <1>1, <1>2, <1>5, <1>6, <1>7

\* Failing is always possible.
LEMMA FailSafe ==
    ASSUME IInv, NEW p \in Processes, Fail(p), UNCHANGED Schema,
           exists' \in BOOLEAN, interruptions' \in 0 .. MaxInterruptions
    PROVE  IInv'
<1>1. Start \in Positions
  BY VersionFacts DEF Start, Positions
<1>2. Entitled("closed", Start)
  BY DEF Entitled
<1> QED BY <1>1, <1>2, GotoSafe DEF Fail, Stages

LEMMA OpenSafe ==
    ASSUME IInv, NEW p \in Processes, Open(p)
    PROVE  IInv'
<1>1. Start \in Positions
  BY VersionFacts DEF Start, Positions
<1>2. Entitled("reject", Start)
  BY DEF Entitled
<1>3. exists' \in BOOLEAN /\ interruptions' \in 0 .. MaxInterruptions
  BY DEF Open, InitializeProjectStorage, OpenDatabase, IInv, TypeOK
<1>4. Goto(p, "reject", Start) /\ UNCHANGED Schema
  BY DEF Open, InitializeProjectStorage, OpenDatabase
<1> QED BY <1>1, <1>2, <1>3, <1>4, GotoSafe DEF Stages

LEMMA RejectLegacyStateSafe ==
    ASSUME IInv, NEW p \in Processes, RejectLegacyState(p)
    PROVE  IInv'
<1>1. exists' \in BOOLEAN /\ interruptions' \in 0 .. MaxInterruptions /\ UNCHANGED Schema
  BY DEF RejectLegacyState, IInv, TypeOK
<1>2. CASE ~history /\ objects # {}
  BY <1>1, <1>2, FailSafe DEF RejectLegacyState
<1>3. CASE ~(~history /\ objects # {})
  <2>1. Start \in Positions
    BY VersionFacts DEF Start, Positions
  <2>2. Entitled("ensure", Start)
    BY <1>3 DEF Entitled, IInv, TypeOK
  <2> QED BY <1>1, <1>3, <2>1, <2>2, GotoSafe DEF RejectLegacyState, Stages
<1> QED BY <1>2, <1>3

\* The only step that changes the history table.
LEMMA EnsureMigrationTableSafe ==
    ASSUME IInv, NEW p \in Processes, EnsureMigrationTable(p)
    PROVE  IInv'
<1> USE DEF EnsureMigrationTable, Goto, IInv
<1>1. TypeOK'
  BY VersionFacts DEF TypeOK, Stages, Start
<1>2. HistoryIsTrue'
  BY DEF HistoryIsTrue
<1>3. \A q \in Processes : q # p => pc'[q] = pc[q] /\ at'[q] = at[q]
  BY DEF TypeOK
<1>4. pc'[p] = "verify"
  BY DEF TypeOK
<1>5. OpenedAtLatest'
  BY <1>3, <1>4 DEF OpenedAtLatest
<1>6. RunsAreSound'
  BY <1>3, <1>4 DEF RunsAreSound
<1>7. RefusedFirst'
  BY DEF RefusedFirst
<1> QED BY <1>1, <1>2, <1>5, <1>6, <1>7

LEMMA VerifyAppliedMigrationsSafe ==
    ASSUME IInv, NEW p \in Processes, VerifyAppliedMigrations(p)
    PROVE  IInv'
<1>1. exists' \in BOOLEAN /\ interruptions' \in 0 .. MaxInterruptions /\ UNCHANGED Schema
  BY DEF VerifyAppliedMigrations, IInv, TypeOK
<1>2. CASE recorded \subseteq Versions /\ altered = {}
  <2>1. Start \in Positions
    BY VersionFacts DEF Start, Positions
  <2>2. Entitled("look", Start)
    BY <1>2 DEF Entitled, Start, IInv, RunsAreSound, VerifyAppliedMigrations
  <2> QED BY <1>1, <1>2, <2>1, <2>2, GotoSafe DEF VerifyAppliedMigrations, Stages
<1>3. CASE ~(recorded \subseteq Versions /\ altered = {})
  BY <1>1, <1>3, FailSafe DEF VerifyAppliedMigrations
<1> QED BY <1>2, <1>3

\* A true history of all versions means that everything is there.
LEMMA SchemaComplete ==
    ASSUME TypeOK, HistoryIsTrue, recorded = Versions, altered = {}
    PROVE  objects = Objects
<1>1. \A v \in Versions : ObjectsOf(v) \subseteq objects
  BY DEF HistoryIsTrue
<1>2. Objects \subseteq objects
  BY <1>1 DEF Objects
<1> QED BY <1>2 DEF TypeOK

LEMMA HasVersionSafe ==
    ASSUME IInv, NEW p \in Processes, HasVersion(p)
    PROVE  IInv'
<1> DEFINE v == at[p].version
<1>1. exists' \in BOOLEAN /\ interruptions' \in 0 .. MaxInterruptions /\ UNCHANGED Schema
  BY DEF HasVersion, IInv, TypeOK
<1>2. /\ v \in Versions /\ at[p] \in Positions
      /\ history /\ recorded \subseteq Versions /\ altered = {}
      /\ \A u \in 1 .. v - 1 : u \in recorded
      /\ at[p].statement = 1
  BY DEF HasVersion, IInv, TypeOK, RunsAreSound, Positions
<1>3. CASE v \notin recorded
  <2>1. Goto(p, "apply", at[p])
    BY <1>3 DEF HasVersion
  <2>2. Entitled("apply", at[p])
    BY <1>2 DEF Entitled
  <2> QED BY <1>1, <1>2, <2>1, <2>2, GotoSafe DEF Stages
<1>4. CASE v \in recorded /\ v + 1 > LatestSchemaVersion
  <2>1. Start \in Positions
    BY VersionFacts DEF Start, Positions
  <2>2. recorded = Versions
    <3>1. v = 5
      BY <1>2, <1>4, VersionFacts
    <3>2. \A u \in 1 .. 5 : u \in recorded
      BY <1>2, <1>4, <3>1
    <3> QED BY <1>2, <3>2, VersionFacts
  <2>3. Entitled("open", Start)
    BY <1>2, <2>2, SchemaComplete DEF Entitled, IInv
  <2> QED BY <1>1, <1>4, <2>1, <2>3, GotoSafe DEF HasVersion, NextVersion, Stages
<1>5. CASE v \in recorded /\ ~(v + 1 > LatestSchemaVersion)
  <2> DEFINE next == [version |-> v + 1, statement |-> 1]
  <2>1. next \in Positions
    BY <1>2, <1>5, VersionFacts DEF Positions
  <2>2. Entitled("look", next)
    BY <1>2, <1>5, VersionFacts DEF Entitled
  <2> QED BY <1>1, <1>5, <2>1, <2>2, GotoSafe DEF HasVersion, NextVersion, Stages
<1> QED BY <1>3, <1>4, <1>5

\* The objects of a schema only grow, so what others rely on stays.
LEMMA ExecuteSafe ==
    ASSUME IInv, NEW p \in Processes, Execute(p)
    PROVE  IInv'
<1> DEFINE v == at[p].version
           k == at[p].statement
           object == Script[v][k]
<1>1. /\ v \in Versions /\ k \in 1 .. Len(Script[v]) /\ k \in 1 .. 2
      /\ at[p] \in Positions
      /\ object \in Objects
      /\ history /\ recorded \subseteq Versions /\ altered = {}
  <2>1. v \in Versions /\ k \in 1 .. 3 /\ at[p] \in Positions
    BY DEF IInv, TypeOK, Positions
  <2>2. k \in 1 .. Len(Script[v]) /\ k \in 1 .. 2
    BY <2>1, ScriptFacts DEF Execute
  <2> QED BY <2>1, <2>2, ScriptFacts DEF Execute, IInv, RunsAreSound
<1>2. CASE object \in Columns \cap objects
  <2>1. exists' \in BOOLEAN /\ interruptions' \in 0 .. MaxInterruptions /\ UNCHANGED Schema
    BY <1>2 DEF Execute, Schema, IInv, TypeOK
  <2> QED BY <1>2, <2>1, FailSafe DEF Execute
<1>3. CASE object \notin Columns \cap objects
  <2> DEFINE next == [at[p] EXCEPT !.statement = @ + 1]
  <2>1. /\ objects' = objects \cup {object}
        /\ Goto(p, "apply", next)
        /\ UNCHANGED <<exists, history, recorded, altered, interruptions>>
    BY <1>3 DEF Execute
  <2>2. next \in Positions /\ next.version = v /\ next.statement = k + 1
    BY <1>1 DEF Positions
  <2> HIDE DEF next
  <2>3. TypeOK'
    BY <1>1, <2>1, <2>2 DEF Goto, IInv, TypeOK, Positions, Stages
  <2>4. HistoryIsTrue'
    BY <2>1 DEF IInv, HistoryIsTrue
  <2>5. \A q \in Processes : q # p => pc'[q] = pc[q] /\ at'[q] = at[q]
    BY <2>1 DEF Goto, IInv, TypeOK
  <2>6. pc'[p] = "apply" /\ at'[p] = next
    BY <2>1 DEF Goto, IInv, TypeOK
  <2>7. OpenedAtLatest'
    BY <1>1, <2>1, <2>5, <2>6 DEF IInv, OpenedAtLatest
  <2>8. RunsAreSound'
    <3>1. \A j \in 1 .. next.statement - 1 : Script[next.version][j] \in objects'
      <4>1. \A j \in 1 .. k - 1 : Script[v][j] \in objects
        BY DEF IInv, RunsAreSound, Execute
      <4>2. \A j \in 1 .. next.statement - 1 : j = k \/ j \in 1 .. k - 1
        BY <1>1, <2>2
      <4>3. Script[v][k] \in objects' /\ objects \subseteq objects'
        BY <2>1
      <4> HIDE DEF v, k, object
      <4> QED BY <2>2, <4>1, <4>2, <4>3
    <3>2. \A u \in 1 .. next.version - 1 : u \in recorded
      BY <2>2 DEF IInv, RunsAreSound, Execute
    <3> QED BY <1>1, <2>1, <2>5, <2>6, <3>1, <3>2 DEF IInv, RunsAreSound
  <2>9. RefusedFirst'
    BY <1>1, <2>1 DEF IInv, RefusedFirst
  <2> QED BY <2>3, <2>4, <2>7, <2>8, <2>9 DEF IInv
<1> QED BY <1>2, <1>3

\* The version is recorded when its predecessors are and its script has been
\* executed to the end.
LEMMA RecordSafe ==
    ASSUME IInv, NEW p \in Processes, Record(p)
    PROVE  IInv'
<1> DEFINE v == at[p].version
<1>1. /\ v \in Versions /\ Len(Script[v]) < at[p].statement
      /\ at[p].statement \in 1 .. 3 /\ pc[p] = "apply"
      /\ history /\ recorded \subseteq Versions /\ altered = {}
      /\ \A u \in 1 .. v - 1 : u \in recorded
      /\ v \in 1 .. 5
  <2>1. v \in Versions /\ at[p].statement \in 1 .. 3 /\ v \in 1 .. 5
    BY VersionFacts DEF IInv, TypeOK
  <2> QED BY <2>1, ScriptFacts DEF Record, IInv, RunsAreSound
<1>2. CASE v \in recorded
  <2>1. exists' \in BOOLEAN /\ interruptions' \in 0 .. MaxInterruptions /\ UNCHANGED Schema
    BY <1>2 DEF Record, Schema, IInv, TypeOK
  <2> QED BY <1>2, <2>1, FailSafe DEF Record
<1>3. CASE v \notin recorded
  <2>1. /\ recorded' = recorded \cup {v}
        /\ NextVersion(p, v + 1)
        /\ UNCHANGED <<exists, history, objects, altered, interruptions>>
    BY <1>3 DEF Record
  <2>2. PICK stage \in {"look", "open"}, position \in Positions :
            /\ Goto(p, stage, position)
            /\ position.statement = 1
            /\ stage = "look" => position.version = v + 1
            /\ stage = "open" => v = 5
    <3>1. CASE v + 1 > LatestSchemaVersion
      <4>1. Start \in Positions /\ Start.statement = 1
        BY VersionFacts DEF Start, Positions
      <4>2. v = 5
        BY <1>1, <3>1, VersionFacts
      <4>3. Goto(p, "open", Start)
        BY <2>1, <3>1 DEF NextVersion
      <4> QED BY <4>1, <4>2, <4>3
    <3>2. CASE ~(v + 1 > LatestSchemaVersion)
      <4> DEFINE next == [version |-> v + 1, statement |-> 1]
      <4>1. next \in Positions /\ next.statement = 1 /\ next.version = v + 1
        BY <1>1, <3>2, VersionFacts DEF Positions
      <4>2. Goto(p, "look", next)
        BY <2>1, <3>2 DEF NextVersion
      <4> QED BY <4>1, <4>2
    <3> QED BY <3>1, <3>2
  <2> HIDE DEF v
  <2>3. TypeOK'
    <3>1. recorded' \subseteq 1 .. NewerVersion
      BY <1>1, <2>1, VersionFacts DEF IInv, TypeOK
    <3>2. pc' \in [Processes -> Stages] /\ at' \in [Processes -> Positions]
      BY <2>2 DEF Goto, IInv, TypeOK, Positions, Stages
    <3> QED BY <2>1, <3>1, <3>2 DEF IInv, TypeOK, Positions
  <2>12. \A u \in 1 .. v : u \in recorded'
    <3>1. \A u \in 1 .. v : u = v \/ u \in 1 .. v - 1
      BY <1>1
    <3> QED BY <1>1, <2>1, <3>1
  <2>4. ObjectsOf(v) \subseteq objects
    <3>1. \A k \in 1 .. at[p].statement - 1 : Script[v][k] \in objects
      BY <1>1 DEF IInv, RunsAreSound, v
    <3>2. \A k \in 1 .. Len(Script[v]) : k \in 1 .. at[p].statement - 1
      BY <1>1, ScriptFacts
    <3> QED BY <1>1, <3>1, <3>2, ScriptFacts DEF ObjectsOf
  <2>5. HistoryIsTrue'
    <3>1. \A w \in recorded' : \A u \in 1 .. w : u \in recorded'
      BY <2>1, <2>12 DEF IInv, HistoryIsTrue
    <3>2. \A w \in (recorded' \cap Versions) \ altered' : ObjectsOf(w) \subseteq objects'
      BY <2>1, <2>4 DEF IInv, HistoryIsTrue
    <3> QED BY <3>1, <3>2 DEF HistoryIsTrue
  <2>6. \A q \in Processes : q # p => pc'[q] = pc[q] /\ at'[q] = at[q]
    BY <2>2 DEF Goto, IInv, TypeOK
  <2>7. pc'[p] = stage /\ at'[p] = position
    BY <2>2 DEF Goto, IInv, TypeOK
  <2>8. stage = "open" => recorded' = Versions /\ objects' = Objects
    <3>1. stage = "open" => recorded' = Versions
      <4>1. recorded' \subseteq Versions
        BY <1>1, <2>1
      <4>2. v = 5 => Versions \subseteq recorded'
        BY <2>12, VersionFacts
      <4> QED BY <2>2, <4>1, <4>2
    <3>2. recorded' = Versions => objects' = Objects
      <4>1. recorded' = Versions => \A w \in Versions : ObjectsOf(w) \subseteq objects'
        BY <1>1, <2>1, <2>5 DEF HistoryIsTrue
      <4> QED BY <2>3, <4>1 DEF Objects, TypeOK
    <3> QED BY <3>1, <3>2
  <2>9. OpenedAtLatest'
    BY <1>1, <1>3, <2>6, <2>7, <2>8 DEF IInv, OpenedAtLatest
  <2>10. RunsAreSound'
    <3>1. recorded' \subseteq Versions /\ history' /\ altered' = {}
      BY <1>1, <2>1
    <3>2. stage = "look" => \A u \in 1 .. position.version - 1 : u \in recorded'
      <4>1. (v + 1) - 1 = v
        BY <1>1
      <4> QED BY <2>2, <2>12, <4>1
    <3> QED BY <2>1, <2>2, <2>6, <2>7, <3>1, <3>2 DEF IInv, RunsAreSound
  <2>11. RefusedFirst'
    BY <1>1, <2>1 DEF IInv, RefusedFirst
  <2> QED BY <2>3, <2>5, <2>9, <2>10, <2>11 DEF IInv
<1> QED BY <1>2, <1>3

LEMMA CloseSafe ==
    ASSUME IInv, NEW p \in Processes, Close(p)
    PROVE  IInv'
<1>1. exists' \in BOOLEAN /\ interruptions' \in 0 .. MaxInterruptions
  BY DEF Close, IInv, TypeOK
<1>2. Fail(p) /\ UNCHANGED Schema
  BY DEF Close, Fail
<1> QED BY <1>1, <1>2, FailSafe

LEMMA InterruptSafe ==
    ASSUME IInv, NEW p \in Processes, Interrupt(p)
    PROVE  IInv'
<1>1. exists' \in BOOLEAN /\ interruptions' \in 0 .. MaxInterruptions
  BY InterruptionsAssumption DEF Interrupt, IInv, TypeOK
<1>2. Fail(p) /\ UNCHANGED Schema
  BY DEF Interrupt
<1> QED BY <1>1, <1>2, FailSafe

-----------------------------------------------------------------------------
(***************************************************************************)
(* The induction.                                                          *)
(***************************************************************************)
\* Every database a process may find satisfies the invariant.
LEMMA InitIInv == Init => IInv
<1> SUFFICES ASSUME Init PROVE IInv
  OBVIOUS
<1>1. Start \in Positions
  BY VersionFacts DEF Start, Positions
<1>2. /\ recorded \subseteq 1 .. NewerVersion /\ altered \subseteq Versions
      /\ objects \subseteq Objects
  BY VersionFacts, ScriptFacts DEF Init
<1>3. TypeOK
  <2>1. pc \in [Processes -> Stages]
    BY DEF Init, Stages
  <2>2. at \in [Processes -> Positions]
    BY <1>1 DEF Init
  <2>3. interruptions \in 0 .. MaxInterruptions
    BY InterruptionsAssumption DEF Init
  <2>4. exists \in BOOLEAN /\ history \in BOOLEAN
    BY Zenon DEF Init
  <2> QED BY <1>2, <2>1, <2>2, <2>3, <2>4 DEF TypeOK, Positions
<1>4. HistoryIsTrue
  BY VersionFacts DEF Init, HistoryIsTrue
<1>5. OpenedAtLatest /\ RunsAreSound /\ RefusedFirst
  BY DEF Init, OpenedAtLatest, RunsAreSound, RefusedFirst
<1> QED BY <1>3, <1>4, <1>5 DEF IInv

LEMMA MigrateSafe ==
    ASSUME IInv, NEW p \in Processes, Migrate(p)
    PROVE  IInv'
  BY RejectLegacyStateSafe, EnsureMigrationTableSafe, VerifyAppliedMigrationsSafe,
     HasVersionSafe, ExecuteSafe, RecordSafe DEF Migrate

LEMMA StutterSafe ==
    ASSUME IInv, UNCHANGED vars
    PROVE  IInv'
  BY DEF vars, IInv, TypeOK, HistoryIsTrue, OpenedAtLatest, RunsAreSound, RefusedFirst

LEMMA NextIInv == IInv /\ [Next]_vars => IInv'
  BY OpenSafe, MigrateSafe, CloseSafe, InterruptSafe, StutterSafe DEF Next

LEMMA InductiveInvariant == Spec => []IInv
  BY InitIInv, NextIInv, PTL DEF Spec

\* What schema_migrations says is true, however many processes migrate one
\* database at once and wherever they are cut short.
THEOREM HistoryStaysTrue == Spec => []HistoryIsTrue
<1>1. IInv => HistoryIsTrue
  BY DEF IInv
<1> QED BY <1>1, InductiveInvariant, PTL

\* open_database hands out a connection on a complete schema only.
THEOREM OpenMeansLatest == Spec => []OpenedAtLatest
<1>1. IInv => OpenedAtLatest
  BY DEF IInv
<1> QED BY <1>1, InductiveInvariant, PTL

\* A process changes the schema only if it may be upgraded.
LEMMA RefusedStep ==
    ASSUME IInv, NEW p \in Processes, Open(p) \/ Migrate(p) \/ Close(p) \/ Interrupt(p),
           Refused
    PROVE  UNCHANGED Schema
<1>1. CASE Open(p) \/ Close(p) \/ Interrupt(p)
  BY <1>1 DEF Open, InitializeProjectStorage, OpenDatabase, Close, Interrupt
<1>2. CASE Migrate(p)
  <2>1. CASE RejectLegacyState(p) \/ VerifyAppliedMigrations(p) \/ HasVersion(p)
    BY <2>1 DEF RejectLegacyState, VerifyAppliedMigrations, HasVersion
  <2>2. CASE EnsureMigrationTable(p)
    <3>1. history = TRUE
      BY <2>2 DEF EnsureMigrationTable, IInv, TypeOK, RefusedFirst, Refused
    <3> QED BY <2>2, <3>1 DEF EnsureMigrationTable, Schema
  <2>3. CASE Execute(p) \/ Record(p)
    BY <2>3 DEF Execute, Record, IInv, RunsAreSound, Refused
  <2> QED BY <1>2, <2>1, <2>2, <2>3 DEF Migrate
<1> QED BY <1>1, <1>2

\* A database of before the history, of a later release or of another script is
\* left as it was found by every process that opens it.
THEOREM RefusalTouchesNothing == Spec => RefusedIsUntouched
<1>1. IInv /\ [Next]_vars => [Refused => UNCHANGED Schema]_vars
  BY RefusedStep DEF Next
<1> QED BY <1>1, InductiveInvariant, PTL DEF Spec, RefusedIsUntouched
=============================================================================

----------------------------- MODULE Serve_proofs -----------------------------
(***************************************************************************)
(* Proofs about Serve: a supervisor that ends as it should leaves no child *)
(* behind, and stopping a server in the middle of its migration takes      *)
(* nothing of what Migrations promises.                                    *)
(***************************************************************************)
EXTENDS Serve, Migrations_proofs

ChildrenTyped ==
    /\ child \in [Children -> ChildStates]
    /\ step \in Steps
    /\ escaped \in BOOLEAN

\* Part of the inductive invariant: what the supervisor's place says about its
\* children.  One that is gone never comes back.
PlaceTellsChildren ==
    /\ step \in {"plan", "start_api"} => \A c \in Children : Gone(c)
    /\ step \in {"stop_web", "wait_web"} => Gone("api")

SInv == ChildrenTyped /\ PlaceTellsChildren /\ NoChildLeftBehind

-----------------------------------------------------------------------------
(***************************************************************************)
(* The supervisor and its children.                                        *)
(***************************************************************************)
LEMMA ServeInitSafe == ServeInit => IInv /\ SInv
<1>1. ServeInit => IInv
  BY InitIInv DEF ServeInit
<1>2. ServeInit => SInv
  BY DEF ServeInit, SInv, ChildrenTyped, PlaceTellsChildren, NoChildLeftBehind,
         ChildStates, Steps, Children, Gone
<1> QED BY <1>1, <1>2

\* While the supervisor stays where it is, children may end and go on.
LEMMA ChildrenMoveSafe ==
    ASSUME SInv, child' \in [Children -> ChildStates], UNCHANGED <<step, escaped>>,
           \A c \in Children : Gone(c) => Gone(c)'
    PROVE  SInv'
  BY DEF SInv, ChildrenTyped, PlaceTellsChildren, NoChildLeftBehind, Gone, Children

LEMMA SuperviseSafe ==
    ASSUME SInv, Supervise
    PROVE  SInv'
<1> USE DEF SInv, ChildrenTyped, PlaceTellsChildren, NoChildLeftBehind,
            Gone, Children, ChildStates, Steps
<1>1. CASE Plan
  BY <1>1 DEF Plan, Continue
<1>2. CASE StartApi
  BY <1>2 DEF StartApi, StartChild, Continue
<1>3. CASE StartWeb
  BY <1>3 DEF StartWeb, StartChild, Continue
<1>4. CASE Poll
  BY <1>4 DEF Poll, WaitForFirstExit, Continue
<1>5. CASE StopProcess("api", "stop_api", "wait_api", "stop_web")
  BY <1>5 DEF StopProcess, Continue, Dies
<1>6. CASE StopProcess("web", "stop_web", "wait_web", "exited")
  BY <1>6 DEF StopProcess, Continue, Dies
<1> QED BY <1>1, <1>2, <1>3, <1>4, <1>5, <1>6 DEF Supervise, Stop

LEMMA KeyboardInterruptSafe ==
    ASSUME SInv, KeyboardInterrupt
    PROVE  SInv'
  BY DEF KeyboardInterrupt, SInv, ChildrenTyped, PlaceTellsChildren, NoChildLeftBehind,
         Gone, Children, ChildStates, Steps

\* A server or a frontend that boots, serves or ends.
LEMMA ChildStepSafe ==
    ASSUME SInv,
           Boot \/ ApiMigrates \/ Request \/ ApiCloses \/ WebServes
           \/ (\E c \in Children : ChildExits(c))
           \/ (\E p \in Processes \ {Api} : OtherProcess(p))
           \/ UNCHANGED allVars
    PROVE  SInv'
<1>1. /\ child' \in [Children -> ChildStates]
      /\ UNCHANGED <<step, escaped>>
      /\ \A c \in Children : Gone(c) => Gone(c)'
  BY DEF Boot, ApiMigrates, Request, ApiCloses, WebServes, ChildExits, Dies, OtherProcess,
         Alive, Gone, serveVars, allVars, SInv, ChildrenTyped, Children, ChildStates
<1> QED BY <1>1, ChildrenMoveSafe

LEMMA ServeNextSInv == SInv /\ [ServeNext]_allVars => SInv'
  BY SuperviseSafe, KeyboardInterruptSafe, ChildStepSafe DEF ServeNext

\* However `serve web' is stopped, it leaves no child behind, unless an
\* exception was raised outside its try block.
THEOREM ChildrenAreStopped == ServeSpec => []NoChildLeftBehind
<1>1. SInv => NoChildLeftBehind
  BY DEF SInv
<1> QED BY <1>1, ServeInitSafe, ServeNextSInv, PTL DEF ServeSpec

KeysTyped == keys \in 0 .. MaxKeys

\* Ctrl+C is counted by KeyboardInterrupt alone.
LEMMA KeysCounted == KeysTyped /\ [ServeNext]_allVars => KeysTyped'
<1> SUFFICES ASSUME keys \in 0 .. MaxKeys, [ServeNext]_allVars
             PROVE  keys' \in 0 .. MaxKeys
  BY DEF KeysTyped
<1>1. CASE KeyboardInterrupt
  BY <1>1, KeysAssumption DEF KeyboardInterrupt
<1>2. CASE Supervise
  BY <1>2 DEF Supervise, Plan, StartApi, StartWeb, StartChild, Poll,
              WaitForFirstExit, Stop, StopProcess, Continue
<1>3. CASE ~Supervise /\ ~KeyboardInterrupt
  <2>1. UNCHANGED keys
    BY <1>3 DEF ServeNext, Boot, ApiMigrates, Request, ApiCloses, WebServes,
                ChildExits, OtherProcess, serveVars, allVars
  <2> QED BY <2>1
<1> QED BY <1>1, <1>2, <1>3

-----------------------------------------------------------------------------
(***************************************************************************)
(* The database.                                                           *)
(***************************************************************************)
\* A server that dies in the middle of a migration leaves what was committed.
LEMMA DiesSafe ==
    ASSUME IInv, NEW c \in Children, Dies(c)
    PROVE  IInv'
<1>1. CASE UNCHANGED vars
  BY <1>1, StutterSafe
<1>2. CASE Fail(Api) /\ UNCHANGED <<exists, Schema>>
           /\ interruptions' \in {interruptions, MaxInterruptions}
  BY <1>2, FailSafe, ApiAssumption, InterruptionsAssumption DEF IInv, TypeOK
<1> QED BY <1>1, <1>2 DEF Dies

LEMMA SuperviseKeepsDatabase ==
    ASSUME IInv, Supervise \/ KeyboardInterrupt
    PROVE  IInv'
<1>1. UNCHANGED vars \/ (\E c \in Children : Dies(c))
  BY DEF Supervise, KeyboardInterrupt, Plan, StartApi, StartWeb, StartChild, Poll,
         WaitForFirstExit, Stop, StopProcess, Continue, Children
<1> QED BY <1>1, DiesSafe, StutterSafe

LEMMA ServeNextIInv == IInv /\ [ServeNext]_allVars => IInv'
<1> SUFFICES ASSUME IInv, [ServeNext]_allVars PROVE IInv'
  OBVIOUS
<1>1. CASE Supervise \/ KeyboardInterrupt
  BY <1>1, SuperviseKeepsDatabase
<1>2. CASE Boot \/ Request
  BY <1>2, OpenSafe, ApiAssumption DEF Boot, Request, Open
<1>3. CASE ApiMigrates
  BY <1>3, MigrateSafe, ApiAssumption DEF ApiMigrates
<1>4. CASE ApiCloses
  BY <1>4, CloseSafe, ApiAssumption DEF ApiCloses
<1>5. ASSUME NEW c \in Children, ChildExits(c) PROVE IInv'
  BY <1>5, DiesSafe DEF ChildExits
<1>6. ASSUME NEW p \in Processes \ {Api}, OtherProcess(p) PROVE IInv'
  BY <1>6, OpenSafe, MigrateSafe, CloseSafe, InterruptSafe DEF OtherProcess
<1>7. CASE WebServes \/ UNCHANGED allVars
  BY <1>7, StutterSafe DEF WebServes, allVars
<1> QED BY <1>1, <1>2, <1>3, <1>4, <1>5, <1>6, <1>7 DEF ServeNext

LEMMA ServeInvariant == ServeSpec => []IInv
<1>1. ServeInit => IInv
  BY ServeInitSafe
<1> QED BY <1>1, ServeNextIInv, PTL DEF ServeSpec

\* Every variable of the supervisor, its children and their database keeps its
\* type, whoever is killed.
THEOREM ServeTypeCorrect == ServeSpec => []ServeTypeOK
<1>1. ServeInit => KeysTyped
  BY KeysAssumption DEF ServeInit, KeysTyped
<1>2. IInv /\ SInv /\ KeysTyped => ServeTypeOK
  BY DEF KeysTyped, IInv, SInv, ChildrenTyped, ServeTypeOK
<1> QED
  BY <1>1, <1>2, ServeInvariant, ServeInitSafe, ServeNextSInv, KeysCounted, PTL
  DEF ServeSpec

\* The history is true also when the supervisor kills a server that migrates,
\* while commands migrate the same database.
THEOREM ServeKeepsHistory == ServeSpec => []HistoryIsTrue
<1>1. IInv => HistoryIsTrue
  BY DEF IInv
<1> QED BY <1>1, ServeInvariant, PTL

\* A server answers requests on a complete schema only, and so does everybody
\* else.
THEOREM ServeOpensAtLatest == ServeSpec => []OpenedAtLatest
<1>1. IInv => OpenedAtLatest
  BY DEF IInv
<1> QED BY <1>1, ServeInvariant, PTL
=============================================================================

--------------------------------- MODULE Serve ---------------------------------
(***************************************************************************)
(* `doc2dic serve web': a supervisor starts the API server and the         *)
(* frontend, waits until one of them exits or the user interrupts it, and  *)
(* stops both.                                                             *)
(*                                                                         *)
(* The API server is one of the processes of Migrations.  It initialises   *)
(* the project's storage while its module is imported, so it serves only   *)
(* after that has succeeded, and exits if it fails; each request then      *)
(* opens the database again.  Stopping it may cut a migration short, while *)
(* commands and agents use the same database.                              *)
(***************************************************************************)
EXTENDS Migrations

CONSTANTS
    Api,        \* the server, one of Processes
    MaxKeys     \* bound: times the user presses Ctrl+C

Children == {"api", "web"}

ASSUME ApiAssumption == Api \in Processes

ASSUME KeysAssumption == MaxKeys \in Nat /\ MaxInterruptions > 0

VARIABLES
    child,      \* each child process
    step,       \* where the supervisor is
    escaped,    \* an exception was raised outside its try block
    keys

serveVars == <<child, step, escaped, keys>>

allVars == <<vars, serveVars>>

ChildStates == {"none", "booting", "serving", "terminated", "exited"}

Steps ==
    {"plan", "start_api", "start_web", "poll_api", "poll_web", "stop_api",
     "wait_api", "stop_web", "wait_web", "exited"}

Gone(c) == child[c] \in {"none", "exited"}

ServeInit ==
    /\ Init
    /\ child = [c \in Children |-> "none"]
    /\ step = "plan"
    /\ escaped = FALSE
    /\ keys = 0

Continue(next) == step' = next /\ UNCHANGED <<vars, escaped, keys>>

\* A child dies.  Of the server nothing is left but what it has committed.
Dies(c) ==
    /\ child' = [child EXCEPT ![c] = "exited"]
    /\ IF c = "api" /\ pc[Api] # "closed"
       THEN /\ Fail(Api)
            /\ interruptions' = IF pc[Api] = "open" THEN interruptions
                                ELSE MaxInterruptions
            /\ UNCHANGED <<exists, Schema>>
       ELSE UNCHANGED vars

-----------------------------------------------------------------------------
(***************************************************************************)
(* The supervisor.                                                         *)
(***************************************************************************)
\* resolve_project_root and build_web_serve_plan: no root, no npm or no
\* package.json ends it before anything is started.
Plan ==
    /\ step = "plan"
    /\ \E next \in {"start_api", "exited"} : Continue(next)
    /\ UNCHANGED child

\* The two calls of Popen, both outside the try block.
StartChild(c, here, next) ==
    /\ step = here
    /\ \/ /\ child' = [child EXCEPT ![c] = "booting"]
          /\ Continue(next)
       \/ /\ step' = "exited"
          /\ escaped' = TRUE
          /\ UNCHANGED <<vars, child, keys>>

StartApi == StartChild("api", "start_api", "start_web")

StartWeb == StartChild("web", "start_web", "poll_api")

\* Mutant: only the server is watched.
WaitForApiExit(c, here, other) ==
    /\ step = here
    /\ Continue(IF Gone("api") THEN "stop_api" ELSE other)
    /\ UNCHANGED child

\* wait_for_first_exit.
WaitForFirstExit(c, here, other) ==
    /\ step = here
    /\ Continue(IF Gone(c) THEN "stop_api" ELSE other)
    /\ UNCHANGED child

\* Mutant: a child that does not listen is left alone.
StopProcessNoKill(c, ask, wait, next) ==
    \/ /\ step = ask
       /\ IF Gone(c)
          THEN Continue(next) /\ UNCHANGED child
          ELSE /\ child' = [child EXCEPT ![c] = "terminated"]
               /\ Continue(wait)
    \/ /\ step = wait
       /\ Continue(next)
       /\ UNCHANGED child

\* stop_process: terminate, wait for five seconds, kill, wait again.  The kill
\* is not refused.
StopProcess(c, ask, wait, next) ==
    \/ /\ step = ask
       /\ IF Gone(c)
          THEN Continue(next) /\ UNCHANGED child
          ELSE /\ child' = [child EXCEPT ![c] = "terminated"]
               /\ Continue(wait)
    \/ /\ step = wait
       /\ Gone(c)
       /\ Continue(next)
       /\ UNCHANGED child
    \/ /\ step = wait
       /\ ~ Gone(c)
       /\ Dies(c)
       /\ step' = next
       /\ UNCHANGED <<escaped, keys>>

Stop ==
    \/ StopProcess("api", "stop_api", "wait_api", "stop_web")
    \/ StopProcess("web", "stop_web", "wait_web", "exited")

Poll ==
    \/ WaitForFirstExit("api", "poll_api", "poll_web")
    \/ WaitForFirstExit("web", "poll_web", "poll_api")

\* Ctrl+C.  It is caught in the try block; before it, and in the finally block,
\* it ends the supervisor where it is.
KeyboardInterrupt ==
    /\ step \notin {"plan", "exited"}
    /\ keys < MaxKeys
    /\ keys' = keys + 1
    /\ IF step \in {"poll_api", "poll_web"}
       THEN step' = "stop_api" /\ UNCHANGED escaped
       ELSE step' = "exited" /\ escaped' = TRUE
    /\ UNCHANGED <<vars, child>>

Supervise == Plan \/ StartApi \/ StartWeb \/ Poll \/ Stop

-----------------------------------------------------------------------------
(***************************************************************************)
(* The children.                                                           *)
(***************************************************************************)
Alive(c) == child[c] \in {"booting", "serving", "terminated"}

\* make_project_settings, when the module is imported.
Boot ==
    /\ child["api"] = "booting"
    /\ InitializeProjectStorage(Api)
    /\ UNCHANGED serveVars

\* A failure while it boots ends the process; one of a request, the request.
ApiMigrates ==
    /\ Alive("api")
    /\ Migrate(Api)
    /\ child' = IF pc'[Api] = "closed" /\ child["api"] = "booting"
                THEN [child EXCEPT !["api"] = "exited"] ELSE child
    /\ UNCHANGED <<step, escaped, keys>>

\* get_database.
Request ==
    /\ child["api"] = "serving"
    /\ OpenDatabase(Api)
    /\ UNCHANGED serveVars

\* The connection is closed: of the boot, after which the server serves, or of
\* a request.
ApiCloses ==
    /\ Alive("api")
    /\ Close(Api)
    /\ child' = IF child["api"] = "booting"
                THEN [child EXCEPT !["api"] = "serving"] ELSE child
    /\ UNCHANGED <<step, escaped, keys>>

\* The frontend is up.
WebServes ==
    /\ child["web"] = "booting"
    /\ child' = [child EXCEPT !["web"] = "serving"]
    /\ UNCHANGED <<vars, step, escaped, keys>>

\* A child ends by itself: the port is taken, it crashes, it obeys.
ChildExits(c) ==
    /\ Alive(c)
    /\ Dies(c)
    /\ UNCHANGED <<step, escaped, keys>>

\* The commands and agents that use the database meanwhile.
OtherProcess(p) ==
    /\ Open(p) \/ Migrate(p) \/ Close(p) \/ Interrupt(p)
    /\ UNCHANGED serveVars

ServeNext ==
    \/ Supervise \/ KeyboardInterrupt
    \/ Boot \/ ApiMigrates \/ Request \/ ApiCloses \/ WebServes
    \/ \E c \in Children : ChildExits(c)
    \/ \E p \in Processes \ {Api} : OtherProcess(p)

\* The supervisor goes on, so does a server that boots, and the others keep
\* opening the database.  No child has to exit or to obey.
ServeFairness ==
    /\ WF_allVars(Supervise)
    /\ WF_allVars(Boot) /\ WF_allVars(ApiMigrates) /\ WF_allVars(ApiCloses)
    /\ \A p \in Processes \ {Api} :
          /\ WF_allVars(Open(p) /\ UNCHANGED serveVars)
          /\ WF_allVars(Migrate(p) /\ UNCHANGED serveVars)

ServeSpec == ServeInit /\ [][ServeNext]_allVars /\ ServeFairness

-----------------------------------------------------------------------------
(***************************************************************************)
(* Properties.                                                             *)
(***************************************************************************)
\* Every variable has its type.
ServeTypeOK ==
    /\ TypeOK
    /\ child \in [Children -> ChildStates]
    /\ step \in Steps
    /\ escaped \in BOOLEAN
    /\ keys \in 0 .. MaxKeys

\* When the supervisor is gone no child is left behind, unless an exception was
\* raised outside its try block: by the second Popen, or by a Ctrl+C before
\* the wait or during the stop.
NoChildLeftBehind ==
    step = "exited" /\ ~ escaped => \A c \in Children : Gone(c)

\* Once both were started, the exit of either is enough: in the end everything
\* has stopped, a child that does not listen included.
FirstExitStopsBoth ==
    (step \in {"poll_api", "poll_web"} /\ \E c \in Children : child[c] = "exited")
    ~> (step = "exited" /\ (escaped \/ \A c \in Children : Gone(c)))

\* A database that may not be upgraded stops the whole of `serve web': the
\* server refuses it while it boots, and the supervisor stops the frontend.
RefusedStopsServe ==
    (Refused /\ step = "poll_api") ~> step = "exited"
=============================================================================

--------------------------- MODULE AgentService ---------------------------
(***************************************************************************)
(* AgentLoop under the Windows service control manager (SCM): Execute      *)
(* starts runAgent in a goroutine, turns a stop request into cancellation, *)
(* and waits on errCh.  The SCM starts the process, asks it to stop, and   *)
(* restarts it after a crash; what install.ps1 tells it of failures is     *)
(* Restart's guard.  Before Run, the goroutine's New takes the identity of *)
(* the installation (AgentIdentity), which outlives the process.           *)
(***************************************************************************)
EXTENDS AgentLoop, AgentIdentity

VARIABLES
  service,   \* the status the SCM was last told, or that the process crashed
  asked,     \* a stop request has been put into Execute's channel r
  runner,    \* where the goroutine of runAgent is
  errCh,     \* the channel it returns its error through
  exit       \* the exit code Execute returned

hostVars == <<service, asked, runner, errCh, exit>>
allVars == <<vars, hostVars, identityVars>>

\* The memory of a process that has just been started.
NewProcess ==
  /\ main' = "new"
  /\ cancelled' = FALSE
  /\ interval' = DefaultInterval
  /\ prev' = DefaultInterval
  /\ ticker' = 0
  /\ tick' = FALSE
  /\ todo' = {}
  /\ slots' = 0
  /\ sem' = 0
  /\ wg' = 0
  /\ worker' = [a \in Accounts |-> "none"]
  /\ handles' = {}
  /\ asked' = FALSE
  /\ runner' = "none"
  /\ errCh' = "empty"
  /\ exit' = 0

ServiceInit ==
  /\ Init /\ IdentityInit
  /\ service = "stopped"
  /\ asked = FALSE
  /\ runner = "none"
  /\ errCh = "empty"
  /\ exit = 0

-----------------------------------------------------------------------------
(* The SCM *)

\* At boot, or when somebody starts the service.
Start ==
  /\ service = "stopped"
  /\ service' = "startPending"
  /\ NewProcess /\ Die

\* sc.exe failure has the SCM restart a process that ended without reporting
\* SERVICE_STOPPED; its failureflag, which would have it look at the exit code
\* of one that did report, is not set.
Restart ==
  /\ service = "crashed"
  /\ service' = "startPending"
  /\ UNCHANGED <<vars, asked, runner, errCh, exit, identityVars>>

AskStop ==
  /\ service = "running" /\ ~asked
  /\ asked' = TRUE
  /\ UNCHANGED <<vars, service, runner, errCh, exit, identityVars>>

\* The process dies: its memory is gone, and the OS closes its files.
Crash ==
  /\ service \in {"startPending", "running", "stopPending"}
  /\ service' = "crashed"
  /\ NewProcess /\ Die

-----------------------------------------------------------------------------
(* Execute *)

\* The goroutine is started and Running reported.
Execute ==
  /\ service = "startPending"
  /\ service' = "running"
  /\ runner' = "config"
  /\ UNCHANGED <<vars, asked, errCh, exit, identityVars>>

\* A stop request cancels the context; from here Execute only waits for errCh.
TakeStop ==
  /\ service = "running" /\ asked
  /\ service' = "stopPending"
  /\ cancelled' = TRUE
  /\ UNCHANGED <<main, clockVars, cycleVars, asked, runner, errCh, exit, identityVars>>

\* Slip: Execute returns without waiting for the agent.
ReportStoppedEarly ==
  /\ service = "stopPending"
  /\ service' = "stopped"
  /\ UNCHANGED <<vars, asked, runner, errCh, exit, identityVars>>

ReportStopped ==
  /\ service = "stopPending"
  /\ errCh # "empty"
  /\ service' = "stopped"
  /\ UNCHANGED <<vars, asked, runner, errCh, exit, identityVars>>

\* Slip: the error is not turned into an exit code.
OwnReturnQuiet ==
  /\ service = "running" /\ errCh # "empty"
  /\ service' = "stopped"
  /\ UNCHANGED <<vars, asked, runner, errCh, exit, identityVars>>

\* The agent has returned before any stop request was taken.
OwnReturn ==
  /\ service = "running" /\ errCh # "empty"
  /\ service' = "stopped"
  /\ exit' = IF errCh = "error" THEN 1 ELSE 0
  /\ UNCHANGED <<vars, asked, runner, errCh, identityVars>>

-----------------------------------------------------------------------------
(* runAgent *)

LoadConfig(ok) ==
  /\ runner = "config"
  /\ IF ok THEN runner' = "identify" /\ UNCHANGED errCh
           ELSE runner' = "done" /\ errCh' = "error"
  /\ UNCHANGED <<vars, service, asked, exit, identityVars>>

\* New, whose LoadOrCreateAgentID may have to write the file.
NewAgent ==
  /\ runner = "identify"
  /\ \/ (ReadBack \/ Write \/ FailWrite) /\ runner' = "run"
     \/ Mint /\ UNCHANGED runner
  /\ UNCHANGED <<vars, service, asked, errCh, exit>>

\* A step of Run, of its workers, or of its ticker.
RunStep ==
  /\ runner = "run"
  /\ AgentNext \/ Tick
  /\ UNCHANGED <<hostVars, identityVars>>

RunReturns ==
  /\ runner = "run" /\ main = "stopped"
  /\ runner' = "done"
  /\ errCh' = "nil"
  /\ UNCHANGED <<vars, service, asked, exit, identityVars>>

Alive == service \in {"running", "stopPending"}

ExecuteStep == Execute \/ TakeStop \/ ReportStopped \/ OwnReturn

RunnerStep ==
  Alive /\ (RunStep \/ RunReturns \/ NewAgent \/ \E ok \in BOOLEAN : LoadConfig(ok))

ServiceNext ==
  \/ ExecuteStep \/ RunnerStep
  \/ Start \/ Restart \/ AskStop \/ Crash

ServiceSpec == ServiceInit /\ [][ServiceNext]_allVars

\* While the process is up, Run and its goroutines are scheduled, every call they
\* make returns (requests and queries have deadlines), time passes, and a select
\* that finds ctx done again and again takes that branch in the end.  Execute and
\* the SCM take their steps, but nothing has to crash, be started or be stopped.
Up(A) == Alive /\ runner = "run" /\ A /\ UNCHANGED <<hostVars, identityVars>>

ServiceFairness ==
  /\ WF_allVars(ExecuteStep) /\ WF_allVars(Restart)
  /\ WF_allVars(Alive /\ (RunReturns \/ NewAgent \/ \E ok \in BOOLEAN : LoadConfig(ok)))
  /\ WF_allVars(Up(Run)) /\ WF_allVars(Up(CycleStep)) /\ WF_allVars(Up(Tick))
  /\ \A a \in Accounts : WF_allVars(Up(WorkerStep(a)))
  /\ SF_allVars(Up(Stop))

FairServiceSpec == ServiceSpec /\ ServiceFairness

-----------------------------------------------------------------------------
(* Properties *)

\* Execute waits for errCh "to let the agent flush SQLite handles before we
\* report Stopped": a stopped service has no goroutine at work and no lh.db open.
StoppedIsClean ==
  service = "stopped" =>
    /\ runner \in {"none", "done"}
    /\ handles = {}
    /\ \A a \in Accounts : worker[a] = "none"

\* A service that stopped with exit code 0 had been asked to: the agent itself
\* never returns without an error.
QuietOnlyWhenAsked ==
  service = "stopped" /\ exit = 0 /\ runner # "none" => asked

\* The agent's own invariant; where Execute, the goroutine and Run can be
\* relative to each other; and Run returning only when Execute cancelled it on a
\* request.  Inductive, and with it the two above.
ServiceInv ==
  /\ LoopInv
  /\ service \in {"stopped", "startPending", "running", "stopPending", "crashed"}
  /\ runner \in {"none", "config", "identify", "run", "done"}
  /\ errCh \in {"empty", "nil", "error"}
  /\ asked \in BOOLEAN /\ exit \in {0, 1}
  /\ errCh # "empty" <=> runner = "done"
  /\ runner \in {"none", "config", "identify"} \/ errCh = "error" => main = "new"
  /\ errCh = "nil" => main = "stopped"
  /\ service \in {"startPending", "crashed"} => runner = "none"
  /\ service = "stopped" => runner \in {"none", "done"}
  /\ main = "stopped" => cancelled
  /\ cancelled \/ service = "stopPending" => asked
  /\ QuietOnlyWhenAsked
  /\ IdentityInv
  /\ minting # NoID => runner = "identify"
  /\ agentID # NoID => runner \in {"run", "done"}

\* A stop request is answered, in whatever step it finds the agent.
StopIsAnswered == asked ~> service \in {"stopped", "crashed"}

\* The comment on Execute's errCh case: a non-zero exit has the SCM's recovery
\* kick in.
ErrorExitRecovers == service = "stopped" /\ exit = 1 ~> service = "startPending"

=============================================================================

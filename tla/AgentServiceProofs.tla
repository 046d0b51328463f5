------------------------ MODULE AgentServiceProofs ------------------------
(***************************************************************************)
(* Under the service manager the agent keeps LoopInv through stops,        *)
(* crashes and restarts, and a stopped service has released its files.     *)
(* However often it dies, it has one identity, save for failed reads.      *)
(***************************************************************************)
EXTENDS AgentService, AgentLoopProofs

-----------------------------------------------------------------------------
(* The identity *)

LEMMA OneMoreID ==
  ASSUME NEW T, IsFiniteSet(T), NEW x, NEW U, U = T \cup ({x} \ {NoID})
  PROVE  /\ IsFiniteSet(U)
         /\ Cardinality(T) \in Nat /\ Cardinality(U) \in Nat
         /\ Cardinality(T) <= Cardinality(U)
         /\ Cardinality(U) <= Cardinality(T) + 1
<1>1. Cardinality(T) \in Nat
  BY FS_CardinalityType
<1>2. CASE x = NoID
  <2>1. U = T
    BY <1>2
  <2>2. IsFiniteSet(U) /\ Cardinality(U) = Cardinality(T)
    BY <2>1
  <2>. QED  BY <1>1, <2>2
<1>3. CASE x # NoID
  <2>1. U = T \cup {x}
    BY <1>3
  <2>2. /\ IsFiniteSet(U)
        /\ Cardinality(U) = IF x \in T THEN Cardinality(T) ELSE Cardinality(T) + 1
    BY <2>1, FS_AddElement
  <2>. QED  BY <1>1, <2>2
<1>. QED  BY <1>2, <1>3

\* A file left by a write that did not succeed costs no id that was not free.
LEMMA RemainsBounded ==
  ASSUME IdentityInv, minting # NoID, NEW f \in Remains
  PROVE  /\ f \in Int
         /\ Cardinality(taken \cup ({f} \ {NoID})) <= IF f = NoID THEN unread ELSE 1 + unread
<1> DEFINE Was == taken \cup ({file} \ {NoID})
           Is == taken \cup ({f} \ {NoID})
<1>1. IsFiniteSet(taken) /\ unread \in Nat /\ minting \in Int /\ file \in Int
  BY UnreadAssumption DEF IdentityInv, Ids, NoID
<1>2. Cardinality(Was) <= unread
  BY DEF IdentityInv
<1>3. /\ Cardinality(taken) \in Nat /\ Cardinality(Was) \in Nat
      /\ Cardinality(taken) <= Cardinality(Was)
  BY <1>1, OneMoreID
<1>4. Cardinality(Is) \in Nat /\ Cardinality(Is) <= Cardinality(taken) + 1
  BY <1>1, OneMoreID
<1>5. f = NoID => Is = taken
  OBVIOUS
<1>6. f \in Int
  BY <1>1 DEF Remains, Cut, NoID
<1> HIDE DEF Was, Is
<1>7. Cardinality(Is) <= IF f = NoID THEN unread ELSE 1 + unread
  BY <1>1, <1>2, <1>3, <1>4, <1>5
<1>. QED  BY <1>6, <1>7 DEF Is

LEMMA SameIdentity ==
  ASSUME IdentityInv, UNCHANGED identityVars
  PROVE  IdentityInv'
BY DEF IdentityInv, identityVars

LEMMA DieKeeps ==
  ASSUME IdentityInv, Die
  PROVE  IdentityInv'
<1>1. CASE minting = NoID
  BY <1>1 DEF Die, IdentityInv, NoID
<1>2. CASE minting # NoID
  <2>1. file' \in Remains /\ minting' = NoID /\ agentID' = NoID /\ UNCHANGED <<taken, unread>>
    BY <1>2 DEF Die
  <2>2. /\ file' \in Int
        /\ Cardinality(taken \cup ({file'} \ {NoID}))
             <= IF file' = NoID THEN unread ELSE 1 + unread
    BY <1>2, <2>1, RemainsBounded
  <2>. QED  BY <2>1, <2>2 DEF IdentityInv, NoID
<1>. QED  BY <1>1, <1>2

\* LoadOrCreateAgentID, in a process that has no id yet.
LEMMA IdentityKeeps ==
  ASSUME IdentityInv, agentID = NoID, ReadBack \/ Mint \/ Write \/ FailWrite
  PROVE  IdentityInv'
<1>1. unread \in Nat /\ MaxUnread \in Nat /\ IsFiniteSet(taken)
  BY UnreadAssumption DEF IdentityInv
<1>2. CASE ReadBack
  <2>1. /\ file # NoID /\ agentID' = file /\ taken' = taken \cup ({file} \ {NoID})
        /\ UNCHANGED <<file, minting, unread>> /\ minting = NoID
    BY <1>2 DEF ReadBack, TakeID
  <2>2. taken' \cup ({file} \ {NoID}) = taken'
    BY <2>1
  <2>3. IsFiniteSet(taken')
    BY <1>1, <2>1, OneMoreID
  <2>. QED  BY <2>1, <2>2, <2>3 DEF IdentityInv
<1>3. CASE Mint
  <2>1. /\ minting = NoID /\ minting' \in Ids /\ UNCHANGED <<file, agentID, taken>>
        /\ \/ file = NoID /\ unread' = unread
           \/ file # NoID /\ unread < MaxUnread /\ unread' = unread + 1
    BY <1>3 DEF Mint, Fresh
  <2>2. unread' \in 0 .. MaxUnread /\ minting' # NoID
    BY <1>1, <2>1 DEF IdentityInv, Ids, NoID
  <2>3. Cardinality(taken \cup ({file} \ {NoID})) <= unread'
    BY <2>1 DEF IdentityInv
  <2>. QED  BY <2>1, <2>2, <2>3 DEF IdentityInv
<1>4. CASE Write
  <2>1. /\ minting # NoID /\ file' = minting /\ agentID' = minting /\ minting' = NoID
        /\ taken' = taken \cup ({minting} \ {NoID}) /\ UNCHANGED unread
    BY <1>4 DEF Write, TakeID
  <2>2. minting \in Int
    BY UnreadAssumption DEF IdentityInv, Ids, NoID
  <2>3. taken' \cup ({minting} \ {NoID}) = taken'
    BY <2>1
  <2>4. IsFiniteSet(taken')
    BY <1>1, <2>1, OneMoreID
  <2>5. minting \in Remains
    BY DEF Remains
  <2>6. Cardinality(taken') <= 1 + unread
    BY <2>1, <2>5, RemainsBounded
  <2>. QED  BY <2>1, <2>2, <2>3, <2>4, <2>6 DEF IdentityInv
<1>5. CASE FailWrite
  <2>1. /\ minting # NoID /\ file' \in Remains /\ minting' = NoID /\ agentID' = NoID
        /\ taken' = taken /\ UNCHANGED unread
    BY <1>5 DEF FailWrite, TakeID
  <2>2. /\ file' \in Int
        /\ Cardinality(taken \cup ({file'} \ {NoID}))
             <= IF file' = NoID THEN unread ELSE 1 + unread
    BY <2>1, RemainsBounded
  <2>. QED  BY <2>1, <2>2 DEF IdentityInv, NoID
<1>. QED  BY <1>2, <1>3, <1>4, <1>5

-----------------------------------------------------------------------------
(* The service *)

\* A new process is in AgentLoop's initial state.
LEMMA FreshProcess ==
  ASSUME NewProcess
  PROVE  LoopInv' /\ ~cancelled' /\ main' = "new"
<1>1. worker' \in [Accounts -> Places]
  BY DEF NewProcess, Places
<1>2. Busy(worker') = {}
  BY DEF NewProcess, Busy
<1>3. sem' = Cardinality(Syncing(worker')) /\ wg' = Cardinality(Busy(worker'))
  BY <1>2, Quiet DEF NewProcess
<1>4. slots' \in 0 .. NumCPU /\ sem' \in Nat /\ wg' \in Nat /\ sem' <= NumCPU
  BY CPUAssumption DEF NewProcess
<1>5. TypeOK'
  BY <1>1, <1>4, IntervalAssumption DEF NewProcess, TypeOK, Mains
<1>. QED  BY <1>2, <1>3, <1>4, <1>5 DEF NewProcess, LoopInv

\* Run's own steps never cancel, return only when cancelled, and start nothing
\* once it has returned.
LEMMA RunIsCancelled ==
  ASSUME AgentNext \/ Tick, main = "stopped" => cancelled
  PROVE  /\ cancelled' = cancelled
         /\ main' = "stopped" => cancelled'
<1>1. CASE Run
  BY <1>1 DEF Run, FirstCycle, Arm, Adjust, TakeTick, Stop
<1>2. CASE CycleStep
  BY <1>2 DEF CycleStep, Bootstrap, BootstrapFails, Scan, Launch, Join, Release
<1>3. ASSUME NEW a \in Accounts, WorkerStep(a)
      PROVE  cancelled' = cancelled /\ main' = main
  BY <1>3 DEF WorkerStep, Open, ReadAll, Return, Free, Done, Answered
<1>4. CASE Tick
  BY <1>4 DEF Tick
<1>. QED  BY <1>1, <1>2, <1>3, <1>4 DEF AgentNext

LEMMA InitServiceInv == ServiceInit => ServiceInv
<1> SUFFICES ASSUME ServiceInit PROVE ServiceInv
  OBVIOUS
<1>1. LoopInv
  BY InitLoopInv DEF ServiceInit
<1>2. IdentityInv
  <2>1. IsFiniteSet(taken) /\ taken \cup ({file} \ {NoID}) = {} /\ taken = {}
    BY FS_EmptySet DEF ServiceInit, IdentityInit
  <2>2. Cardinality(taken \cup ({file} \ {NoID})) = 0
    BY <2>1, FS_EmptySet
  <2>3. unread \in 0 .. MaxUnread /\ file = 0 /\ agentID = 0 /\ minting = 0 /\ unread = 0
    BY UnreadAssumption DEF ServiceInit, IdentityInit, NoID
  <2>. QED  BY <2>1, <2>2, <2>3 DEF IdentityInv, NoID
<1>. QED  BY <1>1, <1>2 DEF ServiceInit, Init, IdentityInit, ServiceInv, QuietOnlyWhenAsked

\* The steps of the service manager.
LEMMA ManagerKeeps ==
  ASSUME ServiceInv, Start \/ Restart \/ AskStop \/ Crash
  PROVE  ServiceInv'
<1>1. CASE Start \/ Crash
  <2>1. LoopInv' /\ ~cancelled' /\ main' = "new"
    BY <1>1, FreshProcess DEF Start, Crash, ServiceInv
  <2>2. IdentityInv' /\ minting' = NoID /\ agentID' = NoID
    BY <1>1, DieKeeps DEF Start, Crash, Die, ServiceInv
  <2>. QED  BY <1>1, <2>1, <2>2 DEF Start, Crash, NewProcess, ServiceInv, QuietOnlyWhenAsked
<1>2. CASE Restart \/ AskStop
  <2>1. LoopInv'
    BY <1>2, NextKeeps DEF Restart, AskStop, ServiceInv
  <2>2. main' = main /\ cancelled' = cancelled
    BY <1>2 DEF Restart, AskStop, vars
  <2>3. IdentityInv' /\ UNCHANGED identityVars
    BY <1>2, SameIdentity DEF Restart, AskStop, ServiceInv
  <2>. QED  BY <1>2, <2>1, <2>2, <2>3
            DEF Restart, AskStop, ServiceInv, QuietOnlyWhenAsked, identityVars
<1>. QED  BY <1>1, <1>2

\* The steps of Execute.
LEMMA ExecuteKeeps ==
  ASSUME ServiceInv, ExecuteStep
  PROVE  ServiceInv'
<1>1. CASE TakeStop
  <2>1. LoopInv'
    BY <1>1 DEF TakeStop, ServiceInv, LoopInv, TypeOK, cycleVars, clockVars
  <2>2. IdentityInv' /\ UNCHANGED identityVars
    BY <1>1, SameIdentity DEF TakeStop, ServiceInv
  <2>. QED  BY <1>1, <2>1, <2>2 DEF TakeStop, ServiceInv, QuietOnlyWhenAsked, identityVars
<1>2. CASE Execute \/ ReportStopped \/ OwnReturn
  <2>1. LoopInv'
    BY <1>2, NextKeeps DEF Execute, ReportStopped, OwnReturn, ServiceInv
  <2>2. main' = main /\ cancelled' = cancelled
    BY <1>2 DEF Execute, ReportStopped, OwnReturn, vars
  <2>3. IdentityInv' /\ UNCHANGED identityVars
    BY <1>2, SameIdentity DEF Execute, ReportStopped, OwnReturn, ServiceInv
  <2>. QED  BY <1>2, <2>1, <2>2, <2>3
            DEF Execute, ReportStopped, OwnReturn, ServiceInv, QuietOnlyWhenAsked, identityVars
<1>. QED  BY <1>1, <1>2 DEF ExecuteStep

\* The steps of the agent's goroutine.
LEMMA RunnerKeeps ==
  ASSUME ServiceInv, RunnerStep
  PROVE  ServiceInv'
<1>1. CASE RunStep
  <2>1. LoopInv'
    BY <1>1, NextKeeps DEF RunStep, ServiceInv, Next
  <2>2. cancelled' = cancelled /\ (main' = "stopped" => cancelled')
    BY <1>1, RunIsCancelled DEF RunStep, ServiceInv
  <2>3. IdentityInv' /\ UNCHANGED identityVars
    BY <1>1, SameIdentity DEF RunStep, ServiceInv
  <2>. QED  BY <1>1, <2>1, <2>2, <2>3
            DEF RunStep, hostVars, ServiceInv, QuietOnlyWhenAsked, identityVars
<1>2. ASSUME RunReturns \/ \E ok \in BOOLEAN : LoadConfig(ok) PROVE ServiceInv'
  <2>1. LoopInv'
    BY <1>2, NextKeeps DEF RunReturns, LoadConfig, ServiceInv
  <2>2. main' = main /\ cancelled' = cancelled
    BY <1>2 DEF RunReturns, LoadConfig, vars
  <2>3. Alive
    BY DEF RunnerStep
  <2>4. IdentityInv' /\ UNCHANGED identityVars
    BY <1>2, SameIdentity DEF RunReturns, LoadConfig, ServiceInv
  <2>. QED  BY <1>2, <2>1, <2>2, <2>3, <2>4
            DEF Alive, RunReturns, LoadConfig, ServiceInv, QuietOnlyWhenAsked, identityVars
<1>3. CASE NewAgent
  <2>1. LoopInv'
    BY <1>3, NextKeeps DEF NewAgent, ServiceInv
  <2>2. main' = main /\ cancelled' = cancelled
    BY <1>3 DEF NewAgent, vars
  <2>3. agentID = NoID /\ runner = "identify"
    BY <1>3 DEF NewAgent, ServiceInv
  <2>4. IdentityInv'
    BY <1>3, <2>3, IdentityKeeps DEF NewAgent, ServiceInv
  <2>5. runner' \in {"identify", "run"} /\ (runner' = "identify" => agentID' = NoID)
        /\ (runner' = "run" => minting' = NoID)
    BY <1>3, <2>3 DEF NewAgent, ReadBack, Write, FailWrite, Mint
  <2>6. UNCHANGED <<service, asked, errCh, exit>>
    BY <1>3 DEF NewAgent
  <2>7. Alive
    BY DEF RunnerStep
  <2>. QED  BY <2>1, <2>2, <2>3, <2>4, <2>5, <2>6, <2>7
            DEF Alive, ServiceInv, QuietOnlyWhenAsked
<1>. QED  BY <1>1, <1>2, <1>3 DEF RunnerStep

\* The agent's invariant survives the service manager's starts, stops and
\* crashes.
THEOREM ServiceInvariant == ServiceSpec => []ServiceInv
<1>1. ServiceInv /\ [ServiceNext]_allVars => ServiceInv'
  <2>1. ASSUME ServiceInv, UNCHANGED allVars PROVE ServiceInv'
    <3>1. LoopInv'
      BY <2>1, NextKeeps DEF ServiceInv, allVars
    <3>2. IdentityInv' /\ UNCHANGED identityVars
      BY <2>1, SameIdentity DEF ServiceInv, allVars
    <3>. QED  BY <2>1, <3>1, <3>2
              DEF allVars, vars, hostVars, ServiceInv, QuietOnlyWhenAsked, identityVars
  <2>. QED  BY <2>1, ManagerKeeps, ExecuteKeeps, RunnerKeeps DEF ServiceNext
<1>. QED  BY <1>1, InitServiceInv, PTL DEF ServiceSpec

\* When the service reports Stopped, no goroutine is at work and no lh.db is open.
THEOREM StoppedClean == ServiceSpec => []StoppedIsClean
<1>1. ServiceInv => StoppedIsClean
  BY DEF ServiceInv, StoppedIsClean, LoopInv, Busy
<1>. QED  BY <1>1, ServiceInvariant, PTL

\* The service ends with exit code 0 only on request.
THEOREM QuietExit == ServiceSpec => []QuietOnlyWhenAsked
<1>1. ServiceInv => QuietOnlyWhenAsked
  BY DEF ServiceInv
<1>. QED  BY <1>1, ServiceInvariant, PTL

\* However often the process dies, also while it writes its identity, and whatever
\* a failed write leaves behind, an installation changes its identity only after a
\* read of the file has failed.
THEOREM OneIdentityHolds == ServiceSpec => []OneIdentity
<1>1. IdentityInv => OneIdentity
  <2> SUFFICES ASSUME IdentityInv PROVE OneIdentity
    OBVIOUS
  <2> DEFINE Was == taken \cup ({file} \ {NoID})
  <2>1. /\ Cardinality(taken) \in Nat /\ Cardinality(Was) \in Nat
        /\ Cardinality(taken) <= Cardinality(Was)
    BY OneMoreID DEF IdentityInv
  <2>2. Cardinality(Was) <= (IF file = NoID \/ minting # NoID THEN unread ELSE 1 + unread)
        /\ unread \in Nat
    BY UnreadAssumption DEF IdentityInv
  <2> HIDE DEF Was
  <2>. QED  BY <2>1, <2>2 DEF OneIdentity
<1>2. ServiceInv => OneIdentity
  BY <1>1 DEF ServiceInv
<1>. QED  BY <1>2, ServiceInvariant, PTL

=============================================================================

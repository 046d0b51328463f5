----------------------------- MODULE AgentLoop -----------------------------
(***************************************************************************)
(* The life of an agent process: Run's ticker loop, the cycle it runs      *)
(* (bootstrap, Scan, one worker per account behind a semaphore and a       *)
(* WaitGroup, ReleaseHandles), the lh.db handles the Reader holds, the     *)
(* report interval the server sets, and the cancellation of the context.   *)
(* What the workers read and send is FeedSync's and Registration's matter. *)
(***************************************************************************)
EXTENDS Integers, FiniteSets

CONSTANTS
  Accounts,          \* the partitions lh.Scan may find
  NumCPU,            \* runtime.NumCPU()
  Offered,           \* report intervals the server may answer, 0 if it has none
  MinInterval,       \* minReportInterval
  MaxInterval,       \* maxReportInterval
  DefaultInterval    \* defaultReportInterval

ASSUME AccountsAssumption == IsFiniteSet(Accounts)
ASSUME CPUAssumption == NumCPU \in Nat \ {0}
ASSUME OfferedAssumption == Offered \subseteq Nat
ASSUME IntervalAssumption ==
  /\ MinInterval \in Nat \ {0} /\ MaxInterval \in Nat
  /\ DefaultInterval \in MinInterval .. MaxInterval

VARIABLES
  main,        \* where Run and cycle are
  cancelled,   \* ctx is done
  interval,    \* Agent.reportInterval
  prev,        \* the interval when the ticker last fired
  ticker,      \* the ticker's period, 0 before it is created and once stopped
  tick,        \* a tick waits in ticker.C
  todo,        \* accounts of this cycle not launched yet
  slots,       \* capacity of the semaphore
  sem,         \* tokens in it
  wg,          \* counter of the WaitGroup
  worker,      \* where each account's goroutine is
  handles      \* Reader.handles: accounts whose lh.db is open

vars == <<main, cancelled, interval, prev, ticker, tick, todo, slots, sem, wg,
          worker, handles>>
cycleVars == <<todo, slots, sem, wg, worker, handles>>
clockVars == <<interval, prev, ticker, tick>>

\* Slip: no lower bound, so a missing interval (0) is taken as it is.
ClampHigh(d) == IF d > MaxInterval THEN MaxInterval ELSE d

\* setReportInterval.
Clamp(d) == IF d < MinInterval THEN MinInterval
            ELSE IF d > MaxInterval THEN MaxInterval ELSE d

Init ==
  /\ main = "new"
  /\ cancelled = FALSE
  /\ interval = DefaultInterval
  /\ prev = DefaultInterval
  /\ ticker = 0
  /\ tick = FALSE
  /\ todo = {}
  /\ slots = 0
  /\ sem = 0
  /\ wg = 0
  /\ worker = [a \in Accounts |-> "none"]
  /\ handles = {}

-----------------------------------------------------------------------------
(* Run *)

\* Run begins with a cycle, before there is a ticker.
FirstCycle ==
  /\ main = "new"
  /\ main' = "boot"
  /\ UNCHANGED <<cancelled, clockVars, cycleVars>>

\* The ticker is created with the interval the first cycle has left.
Arm ==
  /\ main = "ran" /\ ticker = 0
  /\ ticker' = interval
  /\ main' = "select"
  /\ UNCHANGED <<cancelled, interval, prev, tick, cycleVars>>

\* Slip: the ticker keeps the period it was created with.
AdjustForgotten ==
  /\ main = "ran" /\ ticker # 0
  /\ main' = "select"
  /\ UNCHANGED <<cancelled, clockVars, cycleVars>>

\* After a later cycle the ticker is reset if the interval changed, which drops
\* a tick that was waiting.
Adjust ==
  /\ main = "ran" /\ ticker # 0
  /\ IF interval # prev THEN ticker' = interval /\ tick' = FALSE
                        ELSE UNCHANGED <<ticker, tick>>
  /\ main' = "select"
  /\ UNCHANGED <<cancelled, interval, prev, cycleVars>>

\* select picks the tick ...
TakeTick ==
  /\ main = "select" /\ tick
  /\ tick' = FALSE
  /\ prev' = interval
  /\ main' = "boot"
  /\ UNCHANGED <<cancelled, interval, ticker, cycleVars>>

\* ... or ctx.Done(), when both are ready either of them; the deferred calls
\* stop the ticker and close the reader.
Stop ==
  /\ main = "select" /\ cancelled
  /\ main' = "stopped"
  /\ ticker' = 0
  /\ tick' = FALSE
  /\ handles' = {}
  /\ UNCHANGED <<cancelled, interval, prev, todo, slots, sem, wg, worker>>

-----------------------------------------------------------------------------
(* cycle *)

\* bootstrap succeeds and sets the interval, clamped even when it is missing ...
Bootstrap(d) ==
  /\ main = "boot" /\ ~cancelled
  /\ interval' = Clamp(d)
  /\ main' = "scan"
  /\ UNCHANGED <<cancelled, prev, ticker, tick, cycleVars>>

\* ... or fails, and the cycle goes on.
BootstrapFails ==
  /\ main = "boot"
  /\ main' = "scan"
  /\ UNCHANGED <<cancelled, clockVars, cycleVars>>

\* Scan finds these accounts; with none, or an error, the cycle is over.
Scan(found) ==
  /\ main = "scan"
  /\ IF found = {}
       THEN main' = "release" /\ UNCHANGED <<todo, slots>>
       ELSE /\ main' = "launch"
            /\ todo' = found
            /\ slots' = IF Cardinality(found) < NumCPU THEN Cardinality(found)
                                                       ELSE NumCPU
  /\ UNCHANGED <<cancelled, clockVars, sem, wg, worker, handles>>

\* Slip: the goroutine is started without waiting for a token.
LaunchUnbounded(a) ==
  /\ main = "launch" /\ a \in todo
  /\ todo' = todo \ {a}
  /\ sem' = sem + 1
  /\ wg' = wg + 1
  /\ worker' = [worker EXCEPT ![a] = "open"]
  /\ UNCHANGED <<main, cancelled, clockVars, slots, handles>>

\* wg.Add(1), a token, and the goroutine.
Launch(a) ==
  /\ main = "launch" /\ a \in todo
  /\ sem < slots
  /\ todo' = todo \ {a}
  /\ sem' = sem + 1
  /\ wg' = wg + 1
  /\ worker' = [worker EXCEPT ![a] = "open"]
  /\ UNCHANGED <<main, cancelled, clockVars, slots, handles>>

\* Slip: the cycle ends without waiting for the workers.
JoinEarly ==
  /\ main = "launch" /\ todo = {}
  /\ main' = "release"
  /\ UNCHANGED <<cancelled, clockVars, cycleVars>>

\* wg.Wait() returns.
Join ==
  /\ main = "launch" /\ todo = {}
  /\ wg = 0
  /\ main' = "release"
  /\ UNCHANGED <<cancelled, clockVars, cycleVars>>

\* The deferred ReleaseHandles closes every handle and forgets it.
Release ==
  /\ main = "release"
  /\ handles' = {}
  /\ main' = "ran"
  /\ UNCHANGED <<cancelled, clockVars, todo, slots, sem, wg, worker>>

-----------------------------------------------------------------------------
(* The goroutine of account a *)

\* The first read opens lh.db and caches the handle.
Open(a) ==
  /\ worker[a] = "open"
  /\ handles' = handles \cup {a}
  /\ worker' = [worker EXCEPT ![a] = "read"]
  /\ UNCHANGED <<main, cancelled, clockVars, todo, slots, sem, wg>>

\* Everything the report needs has been read.
ReadAll(a) ==
  /\ worker[a] = "read"
  /\ worker' = [worker EXCEPT ![a] = "report"]
  /\ UNCHANGED <<main, cancelled, clockVars, todo, slots, sem, wg, handles>>

\* The report is answered; an interval is taken over unless it is 0.
Answered(a, d) ==
  /\ worker[a] = "report" /\ ~cancelled
  /\ interval' = IF d > 0 THEN Clamp(d) ELSE interval
  /\ worker' = [worker EXCEPT ![a] = "returning"]
  /\ UNCHANGED <<main, cancelled, prev, ticker, tick, todo, slots, sem, wg,
                 handles>>

\* Slip: a goroutine that fails skips its deferred calls.
ReturnLost(a) ==
  /\ worker[a] \in {"open", "read", "report"}
  /\ worker' = [worker EXCEPT ![a] = "none"]
  /\ UNCHANGED <<main, cancelled, clockVars, todo, slots, sem, wg, handles>>

\* An error, an empty partition, a panic that syncAccountSafe recovers, or the
\* end of accCtx.
Return(a) ==
  /\ worker[a] \in {"open", "read", "report"}
  /\ worker' = [worker EXCEPT ![a] = "returning"]
  /\ UNCHANGED <<main, cancelled, clockVars, todo, slots, sem, wg, handles>>

\* The deferred calls: the token first, then wg.Done().
Free(a) ==
  /\ worker[a] = "returning"
  /\ sem' = sem - 1
  /\ worker' = [worker EXCEPT ![a] = "freed"]
  /\ UNCHANGED <<main, cancelled, clockVars, todo, slots, wg, handles>>

Done(a) ==
  /\ worker[a] = "freed"
  /\ wg' = wg - 1
  /\ worker' = [worker EXCEPT ![a] = "none"]
  /\ UNCHANGED <<main, cancelled, clockVars, todo, slots, sem, handles>>

-----------------------------------------------------------------------------
(* Around the agent *)

Tick ==
  /\ ticker # 0 /\ ~tick
  /\ tick' = TRUE
  /\ UNCHANGED <<main, cancelled, interval, prev, ticker, cycleVars>>

\* A signal, or the service's stop request.
Cancel ==
  /\ ~cancelled
  /\ cancelled' = TRUE
  /\ UNCHANGED <<main, clockVars, cycleVars>>

-----------------------------------------------------------------------------
Run == FirstCycle \/ Arm \/ Adjust \/ TakeTick \/ Stop

\* The steps of a cycle that wait for nothing but the network and the disk.
CycleStep ==
  \/ \E d \in Offered : Bootstrap(d)
  \/ BootstrapFails
  \/ \E found \in SUBSET Accounts : Scan(found)
  \/ \E a \in Accounts : Launch(a)
  \/ Join \/ Release

WorkerStep(a) ==
  \/ Open(a) \/ ReadAll(a) \/ Return(a) \/ Free(a) \/ Done(a)
  \/ \E d \in Offered : Answered(a, d)

AgentNext == Run \/ CycleStep \/ \E a \in Accounts : WorkerStep(a)

Next == AgentNext \/ Tick \/ Cancel

Spec == Init /\ [][Next]_vars

-----------------------------------------------------------------------------
(* Properties *)

Mains == {"new", "boot", "scan", "launch", "release", "ran", "select", "stopped"}
Places == {"none", "open", "read", "report", "returning", "freed"}

\* Every variable has its type, and the interval its bounds.
TypeOK ==
  /\ main \in Mains
  /\ cancelled \in BOOLEAN
  /\ interval \in MinInterval .. MaxInterval
  /\ prev \in MinInterval .. MaxInterval
  /\ ticker \in {0} \cup (MinInterval .. MaxInterval)
  /\ tick \in BOOLEAN
  /\ todo \in SUBSET Accounts
  /\ slots \in 0 .. NumCPU
  /\ sem \in Nat
  /\ wg \in Nat
  /\ worker \in [Accounts -> Places]
  /\ handles \in SUBSET Accounts

Between == {"ran", "select", "stopped"}

\* The comment on cycle's deferred ReleaseHandles: between cycles, and once Run
\* has returned, the agent is off LH's files, and no worker is left that could
\* open one again.
OffFilesBetweenCycles ==
  main \in Between => handles = {} /\ \A a \in Accounts : worker[a] = "none"

\* The accounts whose goroutine is not at its end, and those of them that are
\* still syncing, where w tells where each goroutine is.
Busy(w) == {a \in Accounts : w[a] # "none"}
Syncing(w) == {a \in Accounts : w[a] \in {"open", "read", "report", "returning"}}

\* At most NumCPU accounts are being synced at a time, whichever way the
\* workers end.
Bounded == Cardinality(Syncing(worker)) <= NumCPU

\* Whenever the agent waits, it waits with the interval the server set last,
\* although workers set it concurrently and the ticker is only reset after the
\* cycle.
PeriodInForce == main = "select" => ticker = interval

\* The semaphore holds a token for each syncing worker and the WaitGroup counts
\* the busy ones; workers exist and hold handles only inside a cycle; and the
\* ticker runs with the interval there was when the cycle began.  Inductive,
\* and with it all of the above.
LoopInv ==
  /\ TypeOK
  /\ sem = Cardinality(Syncing(worker)) /\ sem <= NumCPU
  /\ wg = Cardinality(Busy(worker))
  /\ main # "launch" => Busy(worker) = {} /\ todo = {}
  /\ Busy(worker) \cap todo = {}
  /\ main \notin {"launch", "release"} => handles = {}
  /\ main \in {"boot", "scan", "launch", "release", "ran"} => ticker \in {0, prev}
  /\ main = "select" => ticker = interval
  /\ main \in {"new", "stopped"} => ticker = 0

\* A cycle comes to its end, unless the process dies first: no error, panic or
\* cancellation leaves a worker with a token another one waits for.
CycleEnds == main = "boot" ~> main \in Between \cup {"new"}

=============================================================================

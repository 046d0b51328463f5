-------------------------- MODULE AgentLoopProofs --------------------------
(***************************************************************************)
(* LoopInv is an inductive invariant of AgentLoop, for any accounts, any   *)
(* number of processors and any intervals; from it the type invariant, the *)
(* bound on workers, the released files and the ticker's period.           *)
(***************************************************************************)
EXTENDS AgentLoop, FiniteSetTheorems, TLAPS

\* The counted sets are finite.
LEMMA Finite ==
  ASSUME NEW w
  PROVE  /\ IsFiniteSet(Busy(w)) /\ IsFiniteSet(Syncing(w))
         /\ Cardinality(Busy(w)) \in Nat /\ Cardinality(Syncing(w)) \in Nat
<1>1. Busy(w) \subseteq Accounts /\ Syncing(w) \subseteq Accounts
  BY DEF Busy, Syncing
<1>. QED  BY <1>1, AccountsAssumption, FS_Subset, FS_CardinalityType

\* A worker that is somewhere in syncAccountSafe is in both sets ...
LEMMA Enters ==
  ASSUME NEW w \in [Accounts -> Places], NEW a \in Accounts,
         NEW p \in {"open", "read", "report", "returning"}
  PROVE  /\ [w EXCEPT ![a] = p] \in [Accounts -> Places]
         /\ Busy([w EXCEPT ![a] = p]) = Busy(w) \cup {a}
         /\ Syncing([w EXCEPT ![a] = p]) = Syncing(w) \cup {a}
BY DEF Busy, Syncing, Places

\* ... one that has given its token back is only busy ...
LEMMA Frees ==
  ASSUME NEW w \in [Accounts -> Places], NEW a \in Accounts
  PROVE  /\ [w EXCEPT ![a] = "freed"] \in [Accounts -> Places]
         /\ Busy([w EXCEPT ![a] = "freed"]) = Busy(w) \cup {a}
         /\ Syncing([w EXCEPT ![a] = "freed"]) = Syncing(w) \ {a}
BY DEF Busy, Syncing, Places

\* ... and one that has ended is neither.
LEMMA Leaves ==
  ASSUME NEW w \in [Accounts -> Places], NEW a \in Accounts
  PROVE  /\ [w EXCEPT ![a] = "none"] \in [Accounts -> Places]
         /\ Busy([w EXCEPT ![a] = "none"]) = Busy(w) \ {a}
         /\ Syncing([w EXCEPT ![a] = "none"]) = Syncing(w) \ {a}
BY DEF Busy, Syncing, Places

\* Nobody busy, nobody syncing.
LEMMA Quiet ==
  ASSUME NEW w, Busy(w) = {}
  PROVE  Syncing(w) = {} /\ Cardinality(Syncing(w)) = 0 /\ Cardinality(Busy(w)) = 0
<1>1. Syncing(w) = {}
  BY DEF Busy, Syncing
<1>. QED  BY <1>1, FS_EmptySet

\* Clamp puts any interval the server offers within bounds.
LEMMA Clamped ==
  ASSUME NEW d \in Nat
  PROVE  Clamp(d) \in MinInterval .. MaxInterval
BY IntervalAssumption DEF Clamp

LEMMA InitLoopInv == Init => LoopInv
<1> SUFFICES ASSUME Init PROVE LoopInv
  OBVIOUS
<1>1. Busy(worker) = {}
  BY DEF Init, Busy
<1>2. sem = Cardinality(Syncing(worker)) /\ wg = Cardinality(Busy(worker))
  BY <1>1, Quiet DEF Init
<1>3. worker \in [Accounts -> Places]
  BY DEF Init, Places
<1>4. slots \in 0 .. NumCPU /\ sem \in Nat /\ wg \in Nat /\ sem <= NumCPU
  BY CPUAssumption DEF Init
<1>5. TypeOK
  BY <1>3, <1>4, IntervalAssumption DEF Init, TypeOK, Mains
<1>. QED  BY <1>1, <1>2, <1>4, <1>5 DEF Init, LoopInv

\* The steps that leave the workers and their counters alone.
LEMMA RunKeeps ==
  ASSUME LoopInv, Run \/ Join \/ Release \/ Tick \/ Cancel \/ BootstrapFails
  PROVE  LoopInv'
<1> USE DEF LoopInv, TypeOK, Mains
<1>1. CASE FirstCycle
  BY <1>1 DEF FirstCycle, cycleVars, clockVars
<1>2. CASE Arm
  BY <1>2 DEF Arm, cycleVars
<1>3. CASE Adjust
  BY <1>3 DEF Adjust, cycleVars
<1>4. CASE TakeTick
  BY <1>4 DEF TakeTick, cycleVars
<1>5. CASE Stop
  BY <1>5 DEF Stop
<1>6. CASE Join
  <2>1. Busy(worker) = {}
    BY <1>6, Finite, FS_EmptySet DEF Join
  <2>. QED  BY <2>1, <1>6 DEF Join, cycleVars, clockVars
<1>7. CASE Release
  BY <1>7 DEF Release, clockVars
<1>8. CASE Tick
  BY <1>8 DEF Tick, cycleVars
<1>9. CASE Cancel
  BY <1>9 DEF Cancel, cycleVars, clockVars
<1>10. CASE BootstrapFails
  BY <1>10 DEF BootstrapFails, cycleVars, clockVars
<1>. QED  BY <1>1, <1>2, <1>3, <1>4, <1>5, <1>6, <1>7, <1>8, <1>9, <1>10 DEF Run

\* Bootstrap sets the interval before any worker exists.
LEMMA BootstrapKeeps ==
  ASSUME LoopInv, NEW d \in Offered, Bootstrap(d)
  PROVE  LoopInv'
<1>1. interval' \in MinInterval .. MaxInterval
  BY Clamped, OfferedAssumption DEF Bootstrap
<1>. QED  BY <1>1 DEF Bootstrap, LoopInv, TypeOK, Mains, cycleVars

LEMMA ScanKeeps ==
  ASSUME LoopInv, NEW found \in SUBSET Accounts, Scan(found)
  PROVE  LoopInv'
<1>1. Cardinality(found) \in Nat
  BY AccountsAssumption, FS_Subset, FS_CardinalityType
<1>2. slots' \in 0 .. NumCPU
  BY <1>1, CPUAssumption DEF Scan, LoopInv, TypeOK
<1>3. todo' \in SUBSET Accounts
  BY DEF Scan, LoopInv, TypeOK
<1>. QED  BY <1>2, <1>3 DEF Scan, LoopInv, TypeOK, Mains, clockVars

LEMMA LaunchKeeps ==
  ASSUME LoopInv, NEW a \in Accounts, Launch(a)
  PROVE  LoopInv'
<1>1. a \notin Busy(worker) /\ a \notin Syncing(worker)
  BY DEF Launch, LoopInv, Busy, Syncing
<1>2. /\ worker' \in [Accounts -> Places]
      /\ Busy(worker') = Busy(worker) \cup {a}
      /\ Syncing(worker') = Syncing(worker) \cup {a}
  <2>1. worker \in [Accounts -> Places]
    BY DEF LoopInv, TypeOK, Places
  <2>2. worker' = [worker EXCEPT ![a] = "open"]
    BY DEF Launch
  <2>. QED  BY <2>1, <2>2, Enters
<1>3. /\ Cardinality(Busy(worker')) = wg + 1
      /\ Cardinality(Syncing(worker')) = sem + 1
  <2>1. IsFiniteSet(Busy(worker)) /\ IsFiniteSet(Syncing(worker))
    BY Finite
  <2>2. Cardinality(Busy(worker) \cup {a}) = Cardinality(Busy(worker)) + 1
    BY <1>1, <2>1, FS_AddElement
  <2>3. Cardinality(Syncing(worker) \cup {a}) = Cardinality(Syncing(worker)) + 1
    BY <1>1, <2>1, FS_AddElement
  <2>. QED  BY <1>2, <2>2, <2>3 DEF LoopInv
<1>4. sem + 1 <= NumCPU
  BY CPUAssumption DEF Launch, LoopInv, TypeOK
<1>5. Busy(worker') \cap todo' = {}
  <2>1. Busy(worker) \cap todo = {} /\ todo' = todo \ {a}
    BY DEF Launch, LoopInv
  <2>. QED  BY <1>2, <2>1
<1>6. /\ sem' = sem + 1 /\ wg' = wg + 1 /\ sem \in Nat /\ wg \in Nat
  BY DEF Launch, LoopInv, TypeOK
<1>7. TypeOK'
  BY <1>2, <1>6 DEF Launch, LoopInv, TypeOK, clockVars
<1>. QED  BY <1>3, <1>4, <1>5, <1>6, <1>7 DEF Launch, LoopInv, clockVars

\* Workers exist only while cycle launches them and waits for them.
LEMMA InCycle ==
  ASSUME LoopInv, NEW a \in Accounts, worker[a] # "none"
  PROVE  main = "launch"
BY DEF LoopInv, Busy

\* A worker that goes on syncing changes neither counter.
LEMMA SyncingStays ==
  ASSUME LoopInv, NEW a \in Accounts, worker[a] \in {"open", "read", "report"},
         NEW p \in {"read", "report", "returning"},
         worker' = [worker EXCEPT ![a] = p]
  PROVE  /\ worker' \in [Accounts -> Places]
         /\ Busy(worker') = Busy(worker)
         /\ Syncing(worker') = Syncing(worker)
<1>1. worker \in [Accounts -> Places]
  BY DEF LoopInv, TypeOK
<1>2. worker' \in [Accounts -> Places]
  BY <1>1 DEF Places
<1>3. \A b \in Accounts : worker'[b] = IF b = a THEN p ELSE worker[b]
  BY <1>1
<1>4. Busy(worker') = Busy(worker)
  BY <1>3 DEF Busy
<1>5. Syncing(worker') = Syncing(worker)
  BY <1>3 DEF Syncing
<1>. QED  BY <1>2, <1>4, <1>5

LEMMA WorkerKeeps ==
  ASSUME LoopInv, NEW a \in Accounts, WorkerStep(a)
  PROVE  LoopInv'
<1>1. CASE Open(a)
  <2>1. main = "launch"
    BY <1>1, InCycle DEF Open
  <2>2. /\ worker' \in [Accounts -> Places]
        /\ Busy(worker') = Busy(worker) /\ Syncing(worker') = Syncing(worker)
    BY <1>1, SyncingStays DEF Open
  <2>. QED  BY <1>1, <2>1, <2>2 DEF Open, LoopInv, TypeOK, clockVars
<1>2. CASE ReadAll(a)
  <2>1. /\ worker' \in [Accounts -> Places]
        /\ Busy(worker') = Busy(worker) /\ Syncing(worker') = Syncing(worker)
    BY <1>2, SyncingStays DEF ReadAll
  <2>. QED  BY <1>2, <2>1 DEF ReadAll, LoopInv, TypeOK, clockVars
<1>3. CASE Return(a)
  <2>1. /\ worker' \in [Accounts -> Places]
        /\ Busy(worker') = Busy(worker) /\ Syncing(worker') = Syncing(worker)
    BY <1>3, SyncingStays DEF Return
  <2>. QED  BY <1>3, <2>1 DEF Return, LoopInv, TypeOK, clockVars
<1>4. ASSUME NEW d \in Offered, Answered(a, d) PROVE LoopInv'
  <2>1. main = "launch"
    BY <1>4, InCycle DEF Answered
  <2>2. /\ worker' \in [Accounts -> Places]
        /\ Busy(worker') = Busy(worker) /\ Syncing(worker') = Syncing(worker)
    BY <1>4, SyncingStays DEF Answered
  <2>3. interval' \in MinInterval .. MaxInterval
    BY <1>4, Clamped, OfferedAssumption DEF Answered, LoopInv, TypeOK
  <2>. QED  BY <1>4, <2>1, <2>2, <2>3 DEF Answered, LoopInv, TypeOK
<1>5. CASE Free(a)
  <2>1. a \in Busy(worker) /\ a \in Syncing(worker)
    BY <1>5 DEF Free, Busy, Syncing
  <2>2. /\ worker' \in [Accounts -> Places]
        /\ Busy(worker') = Busy(worker) \cup {a}
        /\ Syncing(worker') = Syncing(worker) \ {a}
    <3>1. worker \in [Accounts -> Places]
      BY DEF LoopInv, TypeOK
    <3>2. worker' = [worker EXCEPT ![a] = "freed"]
      BY <1>5 DEF Free
    <3>. QED  BY <3>1, <3>2, Frees
  <2>3. Busy(worker') = Busy(worker)
    BY <2>1, <2>2
  <2>4. Cardinality(Syncing(worker')) = sem - 1
    BY <2>1, <2>2, Finite, FS_RemoveElement DEF LoopInv
  <2>5. sem - 1 \in Nat
    BY <2>4, Finite
  <2>6. sem' = sem - 1 /\ sem \in Nat /\ sem <= NumCPU
    BY <1>5 DEF Free, LoopInv, TypeOK
  <2>7. main = "launch"
    BY <1>5, InCycle DEF Free
  <2>8. TypeOK'
    BY <1>5, <2>2, <2>5, <2>6 DEF Free, LoopInv, TypeOK, clockVars
  <2>9. sem' = Cardinality(Syncing(worker')) /\ sem' <= NumCPU
    BY <2>4, <2>6, CPUAssumption
  <2>. QED  BY <1>5, <2>3, <2>7, <2>8, <2>9 DEF Free, LoopInv, clockVars
<1>6. CASE Done(a)
  <2>1. a \in Busy(worker) /\ a \notin Syncing(worker)
    BY <1>6 DEF Done, Busy, Syncing
  <2>2. /\ worker' \in [Accounts -> Places]
        /\ Busy(worker') = Busy(worker) \ {a}
        /\ Syncing(worker') = Syncing(worker) \ {a}
    <3>1. worker \in [Accounts -> Places]
      BY DEF LoopInv, TypeOK
    <3>2. worker' = [worker EXCEPT ![a] = "none"]
      BY <1>6 DEF Done
    <3>. QED  BY <3>1, <3>2, Leaves
  <2>3. Syncing(worker') = Syncing(worker)
    BY <2>1, <2>2
  <2>4. Cardinality(Busy(worker')) = wg - 1
    BY <2>1, <2>2, Finite, FS_RemoveElement DEF LoopInv
  <2>5. wg - 1 \in Nat
    BY <2>4, Finite
  <2>6. main = "launch"
    BY <1>6, InCycle DEF Done
  <2>. QED  BY <1>6, <2>2, <2>3, <2>4, <2>5, <2>6 DEF Done, LoopInv, TypeOK, clockVars
<1>. QED  BY <1>1, <1>2, <1>3, <1>4, <1>5, <1>6 DEF WorkerStep

\* Every step keeps LoopInv.
LEMMA NextKeeps ==
  ASSUME LoopInv, [Next]_vars
  PROVE  LoopInv'
<1>1. CASE Run \/ Tick \/ Cancel
  BY <1>1, RunKeeps
<1>2. CASE CycleStep
  BY <1>2, RunKeeps, BootstrapKeeps, ScanKeeps, LaunchKeeps DEF CycleStep
<1>3. ASSUME NEW a \in Accounts, WorkerStep(a) PROVE LoopInv'
  BY <1>3, WorkerKeeps
<1>4. CASE UNCHANGED vars
  BY <1>4 DEF vars, LoopInv, TypeOK
<1>. QED  BY <1>1, <1>2, <1>3, <1>4 DEF Next, AgentNext

\* LoopInv holds in every reachable state: the semaphore and the WaitGroup count
\* the workers, which exist only inside a cycle, and the ticker is in step.
THEOREM LoopInvariant == Spec => []LoopInv
BY InitLoopInv, NextKeeps, PTL DEF Spec

\* Every variable keeps its type, and the interval its bounds, whatever the
\* server offers.
THEOREM TypeCorrect == Spec => []TypeOK
<1>1. LoopInv => TypeOK
  BY DEF LoopInv
<1>. QED  BY <1>1, LoopInvariant, PTL

\* Between cycles no worker is left and no lh.db is open (the comment on cycle's
\* deferred ReleaseHandles).
THEOREM FilesReleased == Spec => []OffFilesBetweenCycles
<1>1. LoopInv => OffFilesBetweenCycles
  BY DEF LoopInv, OffFilesBetweenCycles, Between, Busy
<1>. QED  BY <1>1, LoopInvariant, PTL

\* No more than NumCPU accounts are synced at a time, however workers end.
THEOREM WorkersBounded == Spec => []Bounded
<1>1. LoopInv => Bounded
  BY DEF LoopInv, Bounded
<1>. QED  BY <1>1, LoopInvariant, PTL

\* The agent waits with the interval the server set last.
THEOREM PeriodCorrect == Spec => []PeriodInForce
<1>1. LoopInv => PeriodInForce
  BY DEF LoopInv, PeriodInForce
<1>. QED  BY <1>1, LoopInvariant, PTL

=============================================================================

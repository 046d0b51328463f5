------------------------- MODULE RegistrationProofs -------------------------
(***************************************************************************)
(* AllFresh is an inductive invariant of Registration, for any accounts    *)
(* and any number of versions, deletions and faults: what is registered    *)
(* under a version is never older than it.                                 *)
(***************************************************************************)
EXTENDS Registration, TLAPS

-----------------------------------------------------------------------------
(* Data *)

\* The known-state the platform writes has its type.
LEMMA SnapshotType ==
  ASSUME NEW P \in [Accounts -> Record]
  PROVE  [a \in Accounts |-> EntryOf(P[a])] \in Snapshots
<1> SUFFICES ASSUME NEW a \in Accounts PROVE EntryOf(P[a]) \in Entry
  BY DEF Snapshots
<1>1. P[a] \in Record
  OBVIOUS
<1>2. P[a].known \in BOOLEAN /\ P[a].version \in Versions /\ (P[a].messages # 0) \in BOOLEAN
  BY <1>1, Zenon DEF Record
<1>. QED  BY <1>2 DEF EntryOf, Entry

LEMMA Constants ==
  /\ Unregistered \in Record /\ NoEntry \in Entry /\ NothingKnown \in Snapshots
  /\ NothingRead \in Reading /\ NoReport \in Report
  /\ Fresh(Unregistered) /\ Fresh(NoReport)
BY DEF Unregistered, Record, NoEntry, Entry, NothingKnown, Snapshots, NothingRead,
       Reading, NoReport, Report, Versions, Steps, Fresh

\* What a report does to the platform: typed and fresh if the report is.
LEMMA ApplyKeeps ==
  ASSUME TypeOK, NEW a \in Accounts, NEW q \in Report, Fresh(q), Apply(a, q),
         \A b \in Accounts : Fresh(plat[b])
  PROVE  plat' \in [Accounts -> Record] /\ \A b \in Accounts : Fresh(plat'[b])
<1>1. CASE ~q.register
  BY <1>1 DEF Apply, TypeOK
<1>2. CASE q.register
  <2> DEFINE p == [known |-> TRUE, version |-> q.version, messages |-> q.messages]
  <2>1. plat' = [plat EXCEPT ![a] = p]
    BY <1>2 DEF Apply
  <2>2. p \in Record /\ Fresh(p)
    BY DEF Report, Record, Fresh
  <2> HIDE DEF p
  <2>. QED  BY <2>1, <2>2 DEF TypeOK
<1>. QED  BY <1>1, <1>2

\* The block built from a reading no older than its version.
LEMMA BlockFresh ==
  ASSUME NEW r \in Reading, r.loaded => r.of >= r.version
  PROVE  LET q == [register |-> TRUE, version |-> r.version,
                   messages |-> IF HasMessages(r) THEN r.of ELSE 0]
         IN q \in Report /\ Fresh(q)
BY DEF HasMessages, Reading, Report, Fresh, Versions

LEMMA InitFresh == Init => AllFresh
<1> SUFFICES ASSUME Init PROVE AllFresh
  OBVIOUS
<1>1. TypeOK
  BY Constants, BudgetAssumption
     DEF Init, TypeOK, Campaign, Steps, Versions, Snapshots
<1>. QED  BY <1>1, Constants DEF Init, AllFresh, NothingRead

-----------------------------------------------------------------------------
(* Steps *)

\* An edit only makes the version grow.
LEMMA EditKeeps ==
  ASSUME AllFresh, NEW a \in Accounts, NEW steps \in Steps, Edit(a, steps)
  PROVE  AllFresh'
<1> DEFINE c == [version |-> lh[a].version + 1, steps |-> steps]
<1>1. lh' = [lh EXCEPT ![a] = c]
  BY DEF Edit
<1>2. lh[a] \in Campaign
  BY DEF AllFresh, TypeOK
<1>3. lh[a].version + 1 \in Versions /\ edits' \in 0 .. MaxEdits
  BY <1>2, BudgetAssumption DEF Edit, Campaign, Versions, AllFresh, TypeOK
<1>5. c \in Campaign /\ c.version = lh[a].version + 1
  BY <1>3 DEF Campaign
<1> HIDE DEF c
<1>6. TypeOK'
  BY <1>1, <1>3, <1>5 DEF Edit, AllFresh, TypeOK, agentVars
<1>7. \A b \in Accounts : lh[b].version <= lh'[b].version /\ lh[b].version \in Int
  BY <1>1, <1>5 DEF AllFresh, TypeOK, Campaign, Versions
<1>8. \A b \in Accounts : read[b].version \in Int /\ lh'[b].version \in Int
  BY <1>6 DEF AllFresh, TypeOK, Reading, Campaign, Versions
<1>9. \A b \in Accounts : read[b].version <= lh'[b].version
  BY <1>7, <1>8 DEF AllFresh
<1>. QED  BY <1>6, <1>9 DEF Edit, AllFresh, agentVars

LEMMA DeleteKeeps ==
  ASSUME AllFresh, NEW a \in Accounts, Delete(a)
  PROVE  AllFresh'
<1>1. plat' = [plat EXCEPT ![a] = Unregistered]
  BY DEF Delete
<1>2. plat' \in [Accounts -> Record] /\ \A b \in Accounts : Fresh(plat'[b])
  BY <1>1, Constants DEF AllFresh, TypeOK
<1>3. deletes' \in 0 .. MaxDeletes
  BY BudgetAssumption DEF Delete, AllFresh, TypeOK
<1>. QED  BY <1>2, <1>3 DEF Delete, AllFresh, TypeOK, agentVars

LEMMA LateKeeps ==
  ASSUME AllFresh, NEW m \in net, ServeLate(m)
  PROVE  AllFresh'
<1>1. m.account \in Accounts /\ m.report \in Report /\ Fresh(m.report)
  BY DEF AllFresh, TypeOK, Late
<1>2. plat' \in [Accounts -> Record] /\ \A b \in Accounts : Fresh(plat'[b])
  BY <1>1, ApplyKeeps DEF AllFresh, ServeLate
<1>3. net' \in SUBSET Late /\ \A x \in net' : Fresh(x.report)
  BY DEF ServeLate, AllFresh, TypeOK
<1>. QED  BY <1>2, <1>3 DEF ServeLate, AllFresh, TypeOK, agentVars

LEMMA CycleKeeps ==
  ASSUME AllFresh, Cycle \/ EmptyBootstrap
  PROVE  AllFresh'
<1>1. Snapshot \in Snapshots /\ NothingKnown \in Snapshots
  BY SnapshotType, Constants DEF Snapshot, AllFresh, TypeOK
<1>2. CASE ServeBootstrap
  BY <1>1, <1>2 DEF ServeBootstrap, AllFresh, TypeOK
<1>3. CASE ReceiveBootstrap
  BY <1>1, <1>3 DEF ReceiveBootstrap, AllFresh, TypeOK
<1>4. CASE FailBootstrap
  BY <1>1, <1>4 DEF FailBootstrap, AllFresh, TypeOK
<1>5. CASE EndCycle
  BY <1>5 DEF EndCycle, AllFresh, TypeOK
<1>6. CASE EmptyBootstrap
  BY <1>1, <1>6, BudgetAssumption DEF EmptyBootstrap, AllFresh, TypeOK
<1>. QED  BY <1>2, <1>3, <1>4, <1>5, <1>6 DEF Cycle

\* The steps that read lh.db: every one of them reads a version no older than
\* the one the report will state.
LEMMA ReadingKeeps ==
  ASSUME AllFresh, NEW a \in Accounts, NEW r \in Reading,
         read' = [read EXCEPT ![a] = r],
         r.version <= lh[a].version, r.loaded => r.of >= r.version,
         pc' \in [Accounts -> {"idle", "classify", "decide", "load", "build",
                               "report", "answered", "done"}],
         faults' \in 0 .. MaxFaults,
         UNCHANGED <<lh, plat, known, boot, phase, req, resp, net, edits, deletes>>
  PROVE  AllFresh'
<1>1. read' \in [Accounts -> Reading]
  BY DEF AllFresh, TypeOK
<1>2. \A b \in Accounts : read'[b] = IF b = a THEN r ELSE read[b]
  BY DEF AllFresh, TypeOK
<1>3. TypeOK'
  BY <1>1 DEF AllFresh, TypeOK
<1>4. \A b \in Accounts :
        /\ read'[b].version <= lh[b].version
        /\ read'[b].loaded => read'[b].of >= read'[b].version
  BY <1>2 DEF AllFresh
<1>. QED  BY <1>3, <1>4 DEF AllFresh

LEMMA ReadStepsKeep ==
  ASSUME AllFresh, NEW a \in Accounts,
         ReadCampaigns(a) \/ Classify(a) \/ Load(a)
  PROVE  AllFresh'
<1>1. /\ read[a] \in Reading /\ lh[a] \in Campaign
      /\ read[a].version <= lh[a].version
      /\ read[a].loaded => read[a].of >= read[a].version
  BY DEF AllFresh, TypeOK
<1>2. lh[a].version \in Versions /\ lh[a].steps \in Steps
  BY <1>1 DEF Campaign
<1>3. CASE ReadCampaigns(a)
  <2> DEFINE r == [NothingRead EXCEPT !.version = lh[a].version]
  <2>1. r \in Reading /\ r.version = lh[a].version /\ ~r.loaded
    BY <1>2, Constants DEF NothingRead, Reading
  <2> HIDE DEF r
  <2>2. r.version <= lh[a].version
    BY <1>2, <2>1 DEF Versions
  <2>3. faults' \in 0 .. MaxFaults
    BY <1>3 DEF ReadCampaigns, AllFresh, TypeOK
  <2>4. pc' \in [Accounts -> {"idle", "classify", "decide", "load", "build",
                              "report", "answered", "done"}]
    BY <1>3 DEF ReadCampaigns, AllFresh, TypeOK
  <2>. QED  BY <1>3, <2>1, <2>2, <2>3, <2>4, ReadingKeeps DEF ReadCampaigns, r
<1>4. CASE Classify(a)
  <2> DEFINE r == [read[a] EXCEPT !.scraper = lh[a].steps = "scraping"]
  <2>1. read' = [read EXCEPT ![a] = r]
    BY <1>4 DEF Classify
  <2>2. (lh[a].steps = "scraping") \in BOOLEAN
    OBVIOUS
  <2>3. r \in Reading /\ r.version = read[a].version /\ r.of = read[a].of
        /\ (r.loaded <=> read[a].loaded)
    BY <1>1, <2>2 DEF Reading
  <2> HIDE DEF r
  <2>4. faults' \in 0 .. MaxFaults
    BY <1>4 DEF Classify, AllFresh, TypeOK
  <2>5. pc' \in [Accounts -> {"idle", "classify", "decide", "load", "build",
                              "report", "answered", "done"}]
    BY <1>4 DEF Classify, AllFresh, TypeOK
  <2>. QED  BY <1>1, <1>4, <2>1, <2>3, <2>4, <2>5, ReadingKeeps DEF Classify
<1>5. CASE Load(a)
  <2> DEFINE r == [read[a] EXCEPT !.loaded = TRUE, !.of = lh[a].version,
                                  !.steps = lh[a].steps]
  <2>1. read' = [read EXCEPT ![a] = r]
    BY <1>5 DEF Load
  <2>2. r \in Reading /\ r.version = read[a].version /\ r.of = lh[a].version
    BY <1>1, <1>2 DEF Reading
  <2> HIDE DEF r
  <2>3. r.version <= lh[a].version /\ r.of >= r.version
    BY <1>1, <1>2, <2>2 DEF Reading, Versions
  <2>4. faults' \in 0 .. MaxFaults
    BY <1>5 DEF Load, AllFresh, TypeOK
  <2>5. pc' \in [Accounts -> {"idle", "classify", "decide", "load", "build",
                              "report", "answered", "done"}]
    BY <1>5 DEF Load, AllFresh, TypeOK
  <2>. QED  BY <1>5, <2>1, <2>2, <2>3, <2>4, <2>5, ReadingKeeps DEF Load
<1>. QED  BY <1>3, <1>4, <1>5

\* The steps that only move the worker.
LEMMA MovesKeep ==
  ASSUME AllFresh, NEW a \in Accounts,
         FailRead(a) \/ FailClassify(a) \/ FailLoad(a) \/ Decide(a)
  PROVE  AllFresh'
<1>1. /\ pc' \in [Accounts -> {"idle", "classify", "decide", "load", "build",
                               "report", "answered", "done"}]
      /\ UNCHANGED <<lh, plat, known, boot, phase, read, req, resp, net, edits, deletes>>
  BY DEF FailRead, FailClassify, FailLoad, Decide, AllFresh, TypeOK
<1>2. faults' \in 0 .. MaxFaults
  BY BudgetAssumption DEF FailRead, FailClassify, FailLoad, Decide, AllFresh, TypeOK
<1>. QED  BY <1>1, <1>2 DEF AllFresh, TypeOK

LEMMA BuildKeeps ==
  ASSUME AllFresh, NEW a \in Accounts, Build(a)
  PROVE  AllFresh'
<1> DEFINE q == [register |-> TRUE, version |-> read[a].version,
                 messages |-> IF HasMessages(read[a]) THEN read[a].of ELSE 0]
<1>1. q \in Report /\ Fresh(q)
  BY BlockFresh DEF AllFresh, TypeOK
<1>2. req' = [req EXCEPT ![a] = q] \/ req' = [req EXCEPT ![a] = NoReport]
  BY DEF Build
<1> HIDE DEF q
<1>3. req' \in [Accounts -> Report] /\ \A b \in Accounts : Fresh(req'[b])
  BY <1>1, <1>2, Constants DEF AllFresh, TypeOK
<1>4. pc' \in [Accounts -> {"idle", "classify", "decide", "load", "build",
                            "report", "answered", "done"}]
  BY DEF Build, AllFresh, TypeOK
<1>. QED  BY <1>3, <1>4 DEF Build, AllFresh, TypeOK

LEMMA ServeKeeps ==
  ASSUME AllFresh, NEW a \in Accounts, Serve(a)
  PROVE  AllFresh'
<1>1. plat' \in [Accounts -> Record] /\ \A b \in Accounts : Fresh(plat'[b])
  BY ApplyKeeps DEF AllFresh, TypeOK, Serve
<1>2. Snapshot' \in Snapshots
  BY <1>1, SnapshotType DEF Snapshot
<1>3. resp' \in [Accounts -> Snapshots]
  BY <1>2 DEF Serve, AllFresh, TypeOK
<1>4. pc' \in [Accounts -> {"idle", "classify", "decide", "load", "build",
                            "report", "answered", "done"}]
  BY DEF Serve, AllFresh, TypeOK
<1>. QED  BY <1>1, <1>3, <1>4 DEF Serve, AllFresh, TypeOK

\* syncAccount's end forgets what was read and built.
LEMMA FinishKeeps ==
  ASSUME AllFresh, NEW a \in Accounts, Receive(a) \/ GiveUp(a)
  PROVE  AllFresh'
<1>1. /\ read' = [read EXCEPT ![a] = NothingRead]
      /\ req' = [req EXCEPT ![a] = NoReport]
      /\ resp' = [resp EXCEPT ![a] = NothingKnown]
      /\ pc' = [pc EXCEPT ![a] = "done"]
  BY DEF Receive, GiveUp, Finish
<1>2. /\ read' \in [Accounts -> Reading] /\ req' \in [Accounts -> Report]
      /\ resp' \in [Accounts -> Snapshots]
      /\ pc' \in [Accounts -> {"idle", "classify", "decide", "load", "build",
                               "report", "answered", "done"}]
  BY <1>1, Constants DEF AllFresh, TypeOK
<1>3. \A b \in Accounts : Fresh(req'[b])
  BY <1>1, Constants DEF AllFresh, TypeOK
<1>4. lh[a].version >= 0
  BY DEF AllFresh, TypeOK, Campaign, Versions
<1>5. \A b \in Accounts :
        /\ read'[b].version <= lh[b].version
        /\ read'[b].loaded => read'[b].of >= read'[b].version
  BY <1>1, <1>4 DEF AllFresh, TypeOK, NothingRead
<1>6. known' \in Snapshots /\ faults' \in 0 .. MaxFaults
  BY BudgetAssumption DEF Receive, GiveUp, AllFresh, TypeOK
<1>. QED  BY <1>2, <1>3, <1>5, <1>6 DEF Receive, GiveUp, AllFresh, TypeOK

LEMMA LossKeeps ==
  ASSUME AllFresh, NEW a \in Accounts, LoseAnswer(a) \/ EmptyAnswer(a) \/ TimeOut(a)
  PROVE  AllFresh'
<1>1. faults' \in 0 .. MaxFaults
  BY BudgetAssumption DEF LoseAnswer, EmptyAnswer, TimeOut, AllFresh, TypeOK
<1>2. CASE LoseAnswer(a)
  <2>1. /\ resp' \in [Accounts -> Snapshots]
        /\ pc' \in [Accounts -> {"idle", "classify", "decide", "load", "build",
                                 "report", "answered", "done"}]
    BY <1>2, Constants DEF LoseAnswer, AllFresh, TypeOK
  <2>. QED  BY <1>1, <1>2, <2>1 DEF LoseAnswer, AllFresh, TypeOK
<1>3. CASE TimeOut(a)
  <2>1. [account |-> a, report |-> req[a]] \in Late /\ Fresh(req[a])
    BY DEF AllFresh, TypeOK, Late
  <2>2. net' \in SUBSET Late /\ \A m \in net' : Fresh(m.report)
    BY <1>3, <2>1 DEF TimeOut, AllFresh, TypeOK
  <2>. QED  BY <1>1, <1>3, <2>2 DEF TimeOut, agentVars, AllFresh, TypeOK
<1>4. CASE EmptyAnswer(a)
  <2>1. resp' \in [Accounts -> Snapshots]
    BY <1>4, Constants DEF EmptyAnswer, AllFresh, TypeOK
  <2>. QED  BY <1>1, <1>4, <2>1 DEF EmptyAnswer, AllFresh, TypeOK
<1>. QED  BY <1>2, <1>3, <1>4

-----------------------------------------------------------------------------
\* No record, report or reading is older than the version it states.
THEOREM FreshInvariant == Spec => []AllFresh
<1>1. AllFresh /\ [Next]_vars => AllFresh'
  <2> SUFFICES ASSUME AllFresh, [Next]_vars PROVE AllFresh'
    OBVIOUS
  <2>1. CASE Environment
    BY <2>1, EditKeeps, DeleteKeeps, LateKeeps DEF Environment
  <2>2. CASE Cycle \/ EmptyBootstrap
    BY <2>2, CycleKeeps
  <2>3. ASSUME NEW a \in Accounts, Proceed(a) PROVE AllFresh'
    BY <2>3, ReadStepsKeep, MovesKeep, BuildKeeps, ServeKeeps, FinishKeeps DEF Proceed
  <2>4. ASSUME NEW a \in Accounts, Fail(a) PROVE AllFresh'
    BY <2>4, ReadStepsKeep, MovesKeep, FinishKeeps, LossKeeps DEF Fail
  <2>5. CASE UNCHANGED vars
    BY <2>5 DEF vars, AllFresh, TypeOK
  <2>. QED  BY <2>1, <2>2, <2>3, <2>4, <2>5 DEF Next
<1>. QED  BY <1>1, InitFresh, PTL DEF Spec

\* The messages the platform stores under a version are at least as new: an edit
\* between reading the version and reading the steps is never lost.
THEOREM EditsNotMasked == Spec => []MessagesOfVersion
<1>1. AllFresh => MessagesOfVersion
  BY DEF AllFresh, MessagesOfVersion, Fresh
<1>. QED  BY <1>1, FreshInvariant, PTL

=============================================================================

--------------------------- MODULE FeedSyncProofs ---------------------------
(***************************************************************************)
(* Proofs about FeedSync for every set of accounts and rows, every limit   *)
(* and every number of resets and faults.  The first part is about data:   *)
(* how one change of lh.db or of the platform affects an old copy of a     *)
(* cursor and a report built from it.  The second checks each action.      *)
(***************************************************************************)
EXTENDS FeedSync, TLAPS

-----------------------------------------------------------------------------
(* Data: rows R of a campaign p, an entry e and a report q of it *)

\* A row LH adds is below no cursor in use, so old entries stay safe.
LEMMA InsertKeepsEntry ==
  ASSUME NEW R \in SUBSET Row, NEW p \in Campaign, NEW e \in Entry,
         NEW r \in Row, \A x \in R : x.at <= r.at,
         SafeEntry(R, p, e)
  PROVE  SafeEntry(R \cup {r}, p, e)
BY DEF SafeEntry, Reached, StoredBelow, Shippable, Row, Entry, Campaign,
       Cursors, EmptyCursor

\* ... and a report stays gapless.
LEMMA InsertKeepsReport ==
  ASSUME NEW R \in SUBSET Row, NEW p \in Campaign, NEW q \in Request,
         NEW r \in Row, \A x \in R : x.at <= r.at,
         SafeReport(R, p, q)
  PROVE  SafeReport(R \cup {r}, p, q)
BY DEF SafeReport, StoredBelow, Shippable, Row, Request, Campaign

\* ... and the platform has every row below its own cursor.
LEMMA InsertKeepsCampaign ==
  ASSUME NEW R \in SUBSET Row, NEW p \in Campaign,
         NEW r \in Row, \A x \in R : x.at <= r.at,
         SafeCampaign(R, p)
  PROVE  SafeCampaign(R \cup {r}, p)
BY DEF SafeCampaign, IsHighWater, StoredBelow, Shippable, Row, Campaign,
       Cursors, EmptyCursor

\* A reset turns every entry and every report into one of an older generation.
LEMMA ClearedKeeps ==
  ASSUME NEW R \in SUBSET Row, NEW p \in Campaign, p.gen < MaxResets,
         NEW still \in BOOLEAN
  PROVE  /\ Cleared(p, still) \in Campaign
         /\ SafeCampaign(R, Cleared(p, still))
         /\ \A e \in Entry : SafeEntry(R, p, e) => SafeEntry(R, Cleared(p, still), e)
         /\ \A q \in Request :
              SafeReport(R, p, q) => SafeReport(R, Cleared(p, still), q)
         /\ NotOlder(Cleared(p, still), p)
<1> USE BudgetAssumption, MaxAtAssumption
<1> DEFINE p2 == Cleared(p, still)
<1>1. /\ p2.registered = still /\ p2.cursor = 0 /\ p2.gen = p.gen + 1
      /\ p2.stored = {} /\ p2.threads = {} /\ p2.overtaken = FALSE
  BY DEF Cleared, EmptyCursor
<1>2. p2 \in Campaign
  BY DEF Cleared, Campaign, Cursors, Gens, EmptyCursor
<1>3. SafeCampaign(R, p2)
  BY <1>1 DEF SafeCampaign, IsHighWater, StoredBelow, Shippable, Row, EmptyCursor
<1>4. ASSUME NEW e \in Entry, SafeEntry(R, p, e)
      PROVE  SafeEntry(R, p2, e)
  BY <1>1, <1>4 DEF SafeEntry, Entry, Campaign, Gens
<1>5. ASSUME NEW q \in Request, SafeReport(R, p, q)
      PROVE  SafeReport(R, p2, q)
  BY <1>1, <1>5 DEF SafeReport, Request, Campaign, Gens
<1>6. NotOlder(p2, p)
  BY <1>1 DEF NotOlder, Campaign, Gens
<1> QED BY <1>2, <1>3, <1>4, <1>5, <1>6

\* What the platform does with a gapless report: its own state stays gapless,
\* no entry or other report becomes unsafe, and its cursor never moves back.
LEMMA MergedKeeps ==
  ASSUME NEW R \in SUBSET Row, NEW p \in Campaign, NEW q \in Request,
         NEW c \in Cursors, IsHighWater(c, p.stored \cup q.batch),
         SafeCampaign(R, p), SafeReport(R, p, q)
  PROVE  /\ Merged(p, q, c) \in Campaign
         /\ SafeCampaign(R, Merged(p, q, c))
         /\ \A e \in Entry : SafeEntry(R, p, e) => SafeEntry(R, Merged(p, q, c), e)
         /\ \A q2 \in Request :
              SafeReport(R, p, q2) => SafeReport(R, Merged(p, q, c), q2)
         /\ NotOlder(Merged(p, q, c), p)
<1> USE BudgetAssumption, MaxAtAssumption
<1> DEFINE p2 == Merged(p, q, c)
<1>1. /\ p2.registered = TRUE /\ p2.cursor = c /\ p2.gen = p.gen
      /\ p2.stored = p.stored \cup q.batch
      /\ p2.overtaken = (p.overtaken \/ (q.batch # {} /\ q.gen # p.gen))
  BY DEF Merged
<1>2. p2 \in Campaign
  BY DEF Merged, Campaign, Request
<1>3. SafeCampaign(R, p2)
  <2>1. p2.stored \subseteq Shippable(R)
    BY <1>1 DEF SafeCampaign, SafeReport
  <2>2. ASSUME ~p2.overtaken PROVE StoredBelow(R, p2.stored, c)
    <3> SUFFICES ASSUME NEW r \in Shippable(R), r.at < c
                 PROVE  r \in p2.stored
      BY DEF StoredBelow
    <3>1. r \in Row /\ r.at \in 1 .. MaxAt
      BY DEF Shippable, Row
    <3>2. PICK s \in p.stored \cup q.batch : s.at = c
      BY <3>1 DEF IsHighWater, EmptyCursor, Cursors
    <3>3. CASE s \in p.stored
      BY <1>1, <2>2, <3>1, <3>2, <3>3
         DEF SafeCampaign, IsHighWater, StoredBelow, Shippable, Row, Campaign, Cursors
    <3>4. CASE s \in q.batch
      BY <1>1, <2>2, <3>1, <3>2, <3>4 DEF SafeReport, StoredBelow
    <3> QED BY <3>2, <3>3, <3>4
  <2> QED BY <1>1, <2>1, <2>2 DEF SafeCampaign
<1>4. ASSUME NEW e \in Entry, SafeEntry(R, p, e)
      PROVE  SafeEntry(R, p2, e)
  BY <1>1, <1>4 DEF SafeEntry, StoredBelow
<1>5. ASSUME NEW q2 \in Request, SafeReport(R, p, q2)
      PROVE  SafeReport(R, p2, q2)
  BY <1>1, <1>5 DEF SafeReport, StoredBelow
<1>6. NotOlder(p2, p)
  <2>1. c >= p.cursor
    BY DEF IsHighWater, SafeCampaign, Shippable, Row, Cursors, EmptyCursor, Campaign
  <2> QED BY <1>1, <2>1 DEF NotOlder
<1> QED BY <1>2, <1>3, <1>4, <1>5, <1>6

\* The platform's own entry is safe when it is copied.
LEMMA OwnEntrySafe ==
  ASSUME NEW R \in SUBSET Row, NEW p \in Campaign, SafeCampaign(R, p)
  PROVE  /\ EntryOf(p) \in Entry
         /\ SafeEntry(R, p, EntryOf(p))
<1>1. Reached(R, p.cursor)
  BY DEF SafeCampaign, Reached, IsHighWater, Shippable, Row, Cursors, EmptyCursor,
         Campaign
<1>2. p.cursor = EmptyCursor \/ \E r \in p.stored : r.at = p.cursor
  BY DEF SafeCampaign, IsHighWater
<1> QED
  BY <1>1, <1>2, BudgetAssumption DEF SafeCampaign, SafeEntry, EntryOf, Entry, Campaign, Gens

\* The batch read from a safe entry makes a gapless report: whatever is below
\* one of its rows is either below the entry's cursor or in the batch itself.
LEMMA BatchSafe ==
  ASSUME NEW R \in SUBSET Row, NEW p \in Campaign, NEW e \in Entry, e.registered,
         SafeEntry(R, p, e), NEW q \in Request,
         NEW B \in SUBSET R, IsBatch(B, R, e.cursor),
         q.batch = {r \in B : r.wire}, q.gen = e.gen
  PROVE  SafeReport(R, p, q)
<1>1. q.batch \subseteq Shippable(R)
  BY DEF Shippable
<1>2. ASSUME q.gen = p.gen, ~p.overtaken, NEW s \in q.batch, NEW r \in Shippable(R),
             r.at < s.at
      PROVE  r \in p.stored \cup q.batch
  <2>1. r \in R /\ r.wire /\ r \in Row /\ r.at \in Int /\ s \in B /\ s \in Row
        /\ s.at \in Int /\ e.cursor \in Int
    BY <1>2 DEF Shippable, Row, Entry, Cursors
  <2>2. CASE r.at < e.cursor
    BY <1>2, <2>1, <2>2 DEF SafeEntry, StoredBelow
  <2>3. CASE r.at >= e.cursor
    BY <1>2, <2>1, <2>3 DEF IsBatch, Oldest
  <2> QED BY <2>1, <2>2, <2>3
<1> QED BY <1>1, <1>2 DEF SafeReport, SafeEntry, StoredBelow

\* A report without rows is safe.
LEMMA EmptyReportSafe ==
  ASSUME NEW R \in SUBSET Row, NEW p \in Campaign, NEW q \in Request,
         q.batch = {}, q.gen = 0
  PROVE  SafeReport(R, p, q)
BY BudgetAssumption DEF SafeReport, Campaign, Gens

\* Nothing is safe to know about a campaign nobody has heard of.
LEMMA UnregisteredSafe ==
  ASSUME NEW R \in SUBSET Row, NEW p \in Campaign
  PROVE  /\ Unregistered \in Entry
         /\ SafeEntry(R, p, Unregistered)
BY BudgetAssumption, MaxAtAssumption
   DEF SafeEntry, Unregistered, Entry, Campaign, Gens, Reached, EmptyCursor,
       StoredBelow, Shippable, Row, Cursors

\* Entries and campaigns are ordered by generation, then by cursor.
LEMMA NotOlderTransitive ==
  ASSUME NEW x, NEW y, NEW z,
         x.gen \in Int, y.gen \in Int, z.gen \in Int,
         x.cursor \in Int, y.cursor \in Int, z.cursor \in Int,
         NotOlder(x, y), NotOlder(y, z)
  PROVE  NotOlder(x, z)
BY DEF NotOlder

-----------------------------------------------------------------------------
(* Types *)

\* Types do not depend on the invariant: a report and a cursor have theirs.
LEMMA MergedType ==
  ASSUME NEW p \in Campaign, NEW q \in Request, NEW c \in Cursors
  PROVE  Merged(p, q, c) \in Campaign
BY DEF Merged, Campaign, Request

LEMMA TypeInit == Init => TypeOK
<1> USE MaxAtAssumption, BudgetAssumption
<1>1. NewCampaign \in Campaign /\ NoReport \in Request /\ NothingKnown \in Snapshots
  BY DEF NewCampaign, Campaign, NoReport, Request, NothingKnown, Snapshots,
         Unregistered, Entry, Cursors, Gens, EmptyCursor
<1>2. Unregistered \in Entry
  BY DEF Unregistered, Entry, Cursors, Gens, EmptyCursor
<1>3. SUFFICES ASSUME Init PROVE TypeOK
  OBVIOUS
<1>4. /\ rows \in [Accounts -> SUBSET Row] /\ plat \in [Accounts -> Campaign]
      /\ known \in Snapshots /\ boot \in Snapshots /\ floor \in Snapshots
  BY <1>1, <1>3 DEF Init
<1>5. /\ pc \in [Accounts -> Steps] /\ kc \in Snapshots
      /\ req \in [Accounts -> Request] /\ resp \in [Accounts -> Snapshots]
  BY <1>1, <1>2, <1>3 DEF Init, Steps, Snapshots
<1>6. net \in SUBSET Late
  BY <1>3 DEF Init
<1>7. phase \in Phases /\ refreshed \in BOOLEAN
  BY <1>3 DEF Init, Phases
<1>8. faults \in 0 .. MaxFaults
  BY <1>3 DEF Init
<1> QED BY <1>4, <1>5, <1>6, <1>7, <1>8 DEF TypeOK

LEMMA TypeStep == TypeOK /\ [Next]_vars => TypeOK'
<1> SUFFICES ASSUME TypeOK, [Next]_vars PROVE TypeOK'
  OBVIOUS
<1> USE MaxAtAssumption, BudgetAssumption
<1>a. Unregistered \in Entry /\ NothingKnown \in Snapshots /\ NoReport \in Request
  BY DEF Unregistered, NothingKnown, NoReport, Snapshots, Entry, Request, Cursors,
         Gens, EmptyCursor
<1>b. Snapshot \in Snapshots
  BY DEF TypeOK, Snapshot, Snapshots, EntryOf, Entry, Campaign
<1>1. ASSUME NEW a \in Accounts, NEW r \in Row, LHInsert(a, r) PROVE TypeOK'
  BY <1>1 DEF LHInsert, TypeOK
<1>2. ASSUME NEW a \in Accounts, NEW still \in BOOLEAN, Reset(a, still) PROVE TypeOK'
  <2>1. Cleared(plat[a], still) \in Campaign
    BY <1>2, ClearedKeeps DEF Reset, TypeOK
  <2> QED BY <1>2, <2>1 DEF Reset, TypeOK
<1>3. CASE ServeBootstrap
  BY <1>3, <1>b DEF ServeBootstrap, TypeOK, Phases
<1>4. CASE ReceiveBootstrap
  BY <1>4, <1>a DEF ReceiveBootstrap, TypeOK, Phases
<1>5. CASE FailBootstrap
  <2>1. floor' \in Snapshots
    BY <1>5, <1>b DEF FailBootstrap, TypeOK
  <2> QED BY <1>5, <1>a, <2>1 DEF FailBootstrap, TypeOK, Phases
<1>6. CASE EndCycle
  BY <1>6, <1>a DEF EndCycle, TypeOK, Phases, Steps
<1>7. ASSUME NEW a \in Accounts, FailRead(a) PROVE TypeOK'
  BY <1>7 DEF FailRead, TypeOK, Steps
<1>8. ASSUME NEW a \in Accounts, NEW drifted \in BOOLEAN, Build(a, drifted)
      PROVE  TypeOK'
  <2> DEFINE register == drifted \/ ~known[a].registered
  <2>1. register \in BOOLEAN
    OBVIOUS
  <2>2. [NoReport EXCEPT !.register = register] \in Request
    <3> HIDE DEF register
    <3> QED BY <1>a, <2>1 DEF Request
  <2> QED BY <1>8, <2>2 DEF Build, TypeOK, Steps
<1>9. ASSUME NEW a \in Accounts, Lookup(a) PROVE TypeOK'
  BY <1>9 DEF Lookup, TypeOK, Steps, Snapshots
<1>10. ASSUME NEW a \in Accounts, Read(a) PROVE TypeOK'
  <2>1. PICK B \in SUBSET rows[a], T \in SUBSET rows[a] :
          req' = [req EXCEPT ![a].gen = kc[a].gen,
                             ![a].batch = {r \in B : r.wire}, ![a].threads = T]
    BY <1>10 DEF Read, Kept
  <2>2. req' \in [Accounts -> Request]
    <3>1. [req[a] EXCEPT !.gen = kc[a].gen, !.batch = {r \in B : r.wire},
                         !.threads = T] \in Request
      <4>1. req[a] \in Request /\ kc[a].gen \in Gens /\ T \in SUBSET Row
            /\ {r \in B : r.wire} \in SUBSET Row
        BY DEF TypeOK, Snapshots, Entry
      <4> QED BY <4>1 DEF Request
    <3> QED BY <2>1, <3>1 DEF TypeOK
  <2>3. kc' \in Snapshots
    BY <1>10, <1>a DEF Read, TypeOK, Snapshots
  <2> QED BY <1>10, <2>2, <2>3 DEF Read, TypeOK, Steps
<1>11. ASSUME NEW a \in Accounts, FailRows(a) PROVE TypeOK'
  BY <1>11, <1>a DEF FailRows, TypeOK, Steps, Snapshots
<1>c. ASSUME NEW a \in Accounts, NEW q \in Request, Apply(a, q)
      PROVE  plat' \in [Accounts -> Campaign]
  BY <1>c, MergedType DEF Apply, TypeOK
<1>12. ASSUME NEW a \in Accounts, Serve(a) PROVE TypeOK'
  <2>1. plat' \in [Accounts -> Campaign]
    BY <1>12, <1>c DEF Serve, TypeOK
  <2>2. Snapshot' \in Snapshots
    BY <2>1 DEF Snapshot, Snapshots, EntryOf, Entry, Campaign
  <2> QED BY <1>12, <2>1, <2>2 DEF Serve, TypeOK, Steps
<1>13. ASSUME NEW a \in Accounts, Receive(a) PROVE TypeOK'
  BY <1>13, <1>a DEF Receive, TypeOK, Steps
<1>14. ASSUME NEW a \in Accounts, LoseAnswer(a) PROVE TypeOK'
  BY <1>14, <1>a DEF LoseAnswer, TypeOK, Steps
<1>15. ASSUME NEW a \in Accounts, TimeOut(a) PROVE TypeOK'
  <2>1. [account |-> a, report |-> req[a]] \in Late
    BY DEF TypeOK, Late
  <2>2. net' \in SUBSET Late
    BY <1>15, <2>1 DEF TimeOut, TypeOK
  <2> QED BY <1>15, <2>2 DEF TimeOut, TypeOK
<1>16. ASSUME NEW a \in Accounts, GiveUp(a) PROVE TypeOK'
  BY <1>16, <1>a DEF GiveUp, TypeOK, Steps
<1>17. ASSUME NEW m \in net, ServeLate(m) PROVE TypeOK'
  <2>1. m.account \in Accounts /\ m.report \in Request
    BY DEF TypeOK, Late
  <2> QED BY <1>17, <2>1, <1>c DEF ServeLate, TypeOK
<1>18. ASSUME NEW S \in SUBSET Accounts, Crash(S) PROVE TypeOK'
  <2>1. \A a \in S : [account |-> a, report |-> req[a]] \in Late
    BY DEF TypeOK, Late
  <2>2. net' \in SUBSET Late
    BY <1>18, <2>1 DEF Crash, TypeOK
  <2>3. kc' \in Snapshots /\ req' \in [Accounts -> Request]
        /\ resp' \in [Accounts -> Snapshots] /\ pc' \in [Accounts -> Steps]
    BY <1>18, <1>a DEF Crash, Snapshots, Steps
  <2>4. /\ known' \in Snapshots /\ boot' \in Snapshots /\ floor' \in Snapshots
        /\ phase' \in Phases /\ refreshed' \in BOOLEAN
    BY <1>18, <1>a DEF Crash, Phases
  <2>5. /\ faults' \in 0 .. MaxFaults
        /\ rows' \in [Accounts -> SUBSET Row] /\ plat' \in [Accounts -> Campaign]
    BY <1>18 DEF Crash, TypeOK
  <2> QED BY <2>2, <2>3, <2>4, <2>5 DEF TypeOK
<1>19. CASE UNCHANGED vars
  BY <1>19 DEF vars, TypeOK
<1> QED
  BY <1>1, <1>2, <1>3, <1>4, <1>5, <1>6, <1>7, <1>8, <1>9, <1>10, <1>11, <1>12,
     <1>13, <1>14, <1>15, <1>16, <1>17, <1>18, <1>19
     DEF Next, Environment, Cycle, Worker

\* Every variable has its type in every reachable state.
THEOREM TypeCorrect == Spec => []TypeOK
BY TypeInit, TypeStep, PTL DEF Spec

-----------------------------------------------------------------------------
(* The feed: no cursor and no report in use can leave a gap *)

\* A step of lh.db or of the platform that leaves every campaign safe, spoils
\* no entry and no report wherever it is, and moves no cursor back.
KeepsSafe ==
  \A a \in Accounts :
    /\ SafeCampaign(rows'[a], plat'[a])
    /\ \A e \in Entry : SafeEntry(rows[a], plat[a], e)
                          => SafeEntry(rows'[a], plat'[a], e)
    /\ \A q \in Request : SafeReport(rows[a], plat[a], q)
                            => SafeReport(rows'[a], plat'[a], q)
    /\ NotOlder(plat'[a], plat[a])

LEMMA SameKeepsSafe ==
  ASSUME TypeOK, FeedInv, UNCHANGED <<rows, plat>>
  PROVE  KeepsSafe
BY DEF KeepsSafe, FeedInv, NotOlder, TypeOK, Campaign, Cursors, Gens

LEMMA InsertKeepsSafe ==
  ASSUME TypeOK, FeedInv, NEW a \in Accounts, NEW r \in Row, LHInsert(a, r)
  PROVE  KeepsSafe
<1>1. /\ rows' = [rows EXCEPT ![a] = @ \cup {r}] /\ plat' = plat
      /\ \A x \in rows[a] : x.at <= r.at
  BY DEF LHInsert
<1>2. \A b \in Accounts : NotOlder(plat'[b], plat[b])
  BY <1>1 DEF NotOlder, TypeOK, Campaign, Cursors, Gens
<1>3. ASSUME NEW b \in Accounts, b # a
      PROVE  rows'[b] = rows[b] /\ plat'[b] = plat[b]
  BY <1>1, <1>3 DEF TypeOK
<1>4. rows'[a] = rows[a] \cup {r} /\ plat'[a] = plat[a]
  BY <1>1 DEF TypeOK
<1>5. rows[a] \in SUBSET Row /\ plat[a] \in Campaign /\ SafeCampaign(rows[a], plat[a])
  BY DEF TypeOK, FeedInv
<1>6. SafeCampaign(rows'[a], plat'[a])
  BY <1>1, <1>4, <1>5, InsertKeepsCampaign
<1>7. \A e \in Entry : SafeEntry(rows[a], plat[a], e) => SafeEntry(rows'[a], plat'[a], e)
  BY <1>1, <1>4, <1>5, InsertKeepsEntry
<1>8. \A q \in Request : SafeReport(rows[a], plat[a], q) => SafeReport(rows'[a], plat'[a], q)
  BY <1>1, <1>4, <1>5, InsertKeepsReport
<1> QED BY <1>2, <1>3, <1>6, <1>7, <1>8 DEF KeepsSafe, FeedInv

LEMMA ResetKeepsSafe ==
  ASSUME TypeOK, FeedInv, NEW a \in Accounts, NEW still \in BOOLEAN, Reset(a, still)
  PROVE  KeepsSafe
<1>1. /\ plat' = [plat EXCEPT ![a] = Cleared(@, still)] /\ rows' = rows
      /\ plat[a].gen < MaxResets
  BY DEF Reset
<1>2. ASSUME NEW b \in Accounts, b # a PROVE plat'[b] = plat[b]
  BY <1>1, <1>2 DEF TypeOK
<1>3. plat'[a] = Cleared(plat[a], still)
  BY <1>1 DEF TypeOK
<1>4. rows[a] \in SUBSET Row /\ plat[a] \in Campaign
  BY DEF TypeOK
<1>5. /\ SafeCampaign(rows[a], plat'[a]) /\ NotOlder(plat'[a], plat[a])
      /\ \A e \in Entry : SafeEntry(rows[a], plat[a], e) => SafeEntry(rows[a], plat'[a], e)
      /\ \A q \in Request : SafeReport(rows[a], plat[a], q) => SafeReport(rows[a], plat'[a], q)
  BY <1>1, <1>3, <1>4, ClearedKeeps
<1>6. ASSUME NEW b \in Accounts, b # a
      PROVE  SafeCampaign(rows[b], plat'[b]) /\ NotOlder(plat'[b], plat[b])
  BY <1>2, <1>6 DEF FeedInv, NotOlder, TypeOK, Campaign, Cursors, Gens
<1> QED BY <1>1, <1>2, <1>5, <1>6 DEF KeepsSafe

LEMMA ApplyKeepsSafe ==
  ASSUME TypeOK, FeedInv, NEW a \in Accounts, NEW q \in Request,
         SafeReport(rows[a], plat[a], q), Apply(a, q), rows' = rows
  PROVE  KeepsSafe
<1>1. CASE plat' = plat
  BY <1>1, SameKeepsSafe
<1>2. ASSUME NEW c \in Cursors, IsHighWater(c, plat[a].stored \cup q.batch),
             plat' = [plat EXCEPT ![a] = Merged(@, q, c)]
      PROVE  KeepsSafe
  <2>1. plat'[a] = Merged(plat[a], q, c)
    BY <1>2 DEF TypeOK
  <2>2. ASSUME NEW b \in Accounts, b # a
        PROVE  /\ plat'[b] = plat[b] /\ SafeCampaign(rows[b], plat'[b])
               /\ NotOlder(plat'[b], plat[b])
    BY <1>2, <2>2 DEF FeedInv, NotOlder, TypeOK, Campaign, Cursors, Gens
  <2>3. rows[a] \in SUBSET Row /\ plat[a] \in Campaign /\ SafeCampaign(rows[a], plat[a])
    BY DEF TypeOK, FeedInv
  <2>4. /\ SafeCampaign(rows[a], plat'[a]) /\ NotOlder(plat'[a], plat[a])
        /\ \A e \in Entry : SafeEntry(rows[a], plat[a], e) => SafeEntry(rows[a], plat'[a], e)
        /\ \A q2 \in Request : SafeReport(rows[a], plat[a], q2) => SafeReport(rows[a], plat'[a], q2)
    BY <1>2, <2>1, <2>3, MergedKeeps
  <2> QED BY <2>2, <2>4 DEF KeepsSafe
<1> QED BY <1>1, <1>2 DEF Apply

\* Whatever a safe step does to them, copies that do not change stay safe.
LEMMA CopiesKept ==
  ASSUME TypeOK, FeedInv, KeepsSafe
  PROVE  \A a \in Accounts :
           /\ SafeCampaign(rows'[a], plat'[a])
           /\ SafeEntry(rows'[a], plat'[a], known[a])
           /\ SafeEntry(rows'[a], plat'[a], boot[a])
           /\ SafeEntry(rows'[a], plat'[a], kc[a])
           /\ \A b \in Accounts : SafeEntry(rows'[a], plat'[a], resp[b][a])
           /\ SafeReport(rows'[a], plat'[a], req[a])
           /\ \A m \in net : m.account = a => SafeReport(rows'[a], plat'[a], m.report)
<1> SUFFICES ASSUME NEW a \in Accounts
             PROVE  /\ SafeCampaign(rows'[a], plat'[a])
                    /\ SafeEntry(rows'[a], plat'[a], known[a])
                    /\ SafeEntry(rows'[a], plat'[a], boot[a])
                    /\ SafeEntry(rows'[a], plat'[a], kc[a])
                    /\ \A b \in Accounts : SafeEntry(rows'[a], plat'[a], resp[b][a])
                    /\ SafeReport(rows'[a], plat'[a], req[a])
                    /\ \A m \in net : m.account = a => SafeReport(rows'[a], plat'[a], m.report)
  OBVIOUS
<1>1. /\ known[a] \in Entry /\ boot[a] \in Entry /\ kc[a] \in Entry
      /\ \A b \in Accounts : resp[b][a] \in Entry
      /\ req[a] \in Request /\ \A m \in net : m.report \in Request
  BY DEF TypeOK, Snapshots, Late
<1> QED BY <1>1 DEF KeepsSafe, FeedInv

LEMMA FeedInit == Init => FeedInv
<1> SUFFICES ASSUME Init PROVE FeedInv
  OBVIOUS
<1>1. TypeOK
  BY TypeInit
<1>2. \A a \in Accounts :
        /\ rows[a] = {} /\ plat[a] = NewCampaign /\ req[a] = NoReport
        /\ known[a] = Unregistered /\ boot[a] = Unregistered /\ kc[a] = Unregistered
        /\ pc[a] = "idle" /\ \A b \in Accounts : resp[b][a] = Unregistered
  BY DEF Init, NothingKnown
<1>3. ASSUME NEW a \in Accounts PROVE SafeCampaign(rows[a], plat[a])
  BY <1>2 DEF SafeCampaign, NewCampaign, IsHighWater, StoredBelow, Shippable
<1>4. ASSUME NEW a \in Accounts
      PROVE  /\ SafeEntry(rows[a], plat[a], Unregistered)
             /\ SafeReport(rows[a], plat[a], NoReport)
  <2>1. rows[a] \in SUBSET Row /\ plat[a] \in Campaign
    BY <1>1 DEF TypeOK
  <2>2. NoReport \in Request /\ NoReport.batch = {} /\ NoReport.gen = 0
    BY BudgetAssumption DEF NoReport, Request, Gens
  <2> QED BY <2>1, <2>2, UnregisteredSafe, EmptyReportSafe
<1>5. net = {}
  BY DEF Init
<1> QED BY <1>2, <1>3, <1>4, <1>5 DEF FeedInv

\* Every step of the system is safe for the rows and campaigns there are.
LEMMA StepKeepsSafe ==
  ASSUME TypeOK, FeedInv, [Next]_vars
  PROVE  KeepsSafe
<1>1. ASSUME NEW a \in Accounts, NEW r \in Row, LHInsert(a, r) PROVE KeepsSafe
  BY <1>1, InsertKeepsSafe
<1>2. ASSUME NEW a \in Accounts, NEW still \in BOOLEAN, Reset(a, still) PROVE KeepsSafe
  BY <1>2, ResetKeepsSafe
<1>3. ASSUME NEW a \in Accounts, Serve(a) PROVE KeepsSafe
  <2>1. req[a] \in Request /\ SafeReport(rows[a], plat[a], req[a])
    BY DEF TypeOK, FeedInv
  <2> QED BY <1>3, <2>1, ApplyKeepsSafe DEF Serve
<1>4. ASSUME NEW m \in net, ServeLate(m) PROVE KeepsSafe
  <2>1. /\ m.account \in Accounts /\ m.report \in Request
        /\ SafeReport(rows[m.account], plat[m.account], m.report)
    BY DEF TypeOK, FeedInv, Late
  <2> QED BY <1>4, <2>1, ApplyKeepsSafe DEF ServeLate
<1>5. CASE ReceiveBootstrap \/ ServeBootstrap \/ FailBootstrap \/ EndCycle
  BY <1>5, SameKeepsSafe DEF ReceiveBootstrap, ServeBootstrap, FailBootstrap, EndCycle
<1>6. ASSUME NEW a \in Accounts, NEW drifted \in BOOLEAN, Build(a, drifted)
      PROVE  KeepsSafe
  BY <1>6, SameKeepsSafe DEF Build
<1>7. ASSUME NEW a \in Accounts,
             FailRead(a) \/ Lookup(a) \/ Read(a) \/ FailRows(a) \/ Receive(a)
               \/ LoseAnswer(a) \/ TimeOut(a) \/ GiveUp(a)
      PROVE  KeepsSafe
  BY <1>7, SameKeepsSafe
     DEF FailRead, Lookup, Read, FailRows, Receive, LoseAnswer, TimeOut, GiveUp
<1>8. ASSUME NEW S \in SUBSET Accounts, Crash(S) PROVE KeepsSafe
  BY <1>8, SameKeepsSafe DEF Crash
<1>9. CASE UNCHANGED vars
  BY <1>9, SameKeepsSafe DEF vars
<1> QED
  BY <1>1, <1>2, <1>3, <1>4, <1>5, <1>6, <1>7, <1>8, <1>9
     DEF Next, Environment, Cycle, Worker

\* What a step writes to the agent's copies and to the network comes from the
\* platform or from a copy that was safe.
LEMMA FeedStep == TypeOK /\ FeedInv /\ [Next]_vars => FeedInv'
<1> SUFFICES ASSUME TypeOK, FeedInv, [Next]_vars PROVE FeedInv'
  OBVIOUS
<1>a. TypeOK'
  BY TypeStep
<1>b. KeepsSafe
  BY StepKeepsSafe
<1> DEFINE
  EntryStays(e, a) == SafeEntry(rows'[a], plat'[a], e)
  ReportStays(q, a) == SafeReport(rows'[a], plat'[a], q)
<1>c. \A a \in Accounts :
        /\ SafeCampaign(rows'[a], plat'[a])
        /\ EntryStays(known[a], a) /\ EntryStays(boot[a], a) /\ EntryStays(kc[a], a)
        /\ \A b \in Accounts : EntryStays(resp[b][a], a)
        /\ ReportStays(req[a], a)
        /\ \A m \in net : m.account = a => ReportStays(m.report, a)
  BY <1>b, CopiesKept
<1>d. \A a \in Accounts : EntryStays(Unregistered, a) /\ ReportStays(NoReport, a)
  <2> SUFFICES ASSUME NEW a \in Accounts
               PROVE  EntryStays(Unregistered, a) /\ ReportStays(NoReport, a)
    OBVIOUS
  <2>1. rows'[a] \in SUBSET Row /\ plat'[a] \in Campaign
    BY <1>a DEF TypeOK
  <2>2. NoReport \in Request /\ NoReport.batch = {} /\ NoReport.gen = 0
    BY BudgetAssumption DEF NoReport, Request, Gens
  <2> QED BY <2>1, <2>2, UnregisteredSafe, EmptyReportSafe
<1>e. \A m \in net : m.account \in Accounts
  BY DEF TypeOK, Late
<1>f. \A a \in Accounts : NothingKnown[a] = Unregistered
  BY DEF NothingKnown
<1>g. \A a \in Accounts : EntryStays(EntryOf(plat[a]), a)
  <2> SUFFICES ASSUME NEW a \in Accounts PROVE EntryStays(EntryOf(plat[a]), a)
    OBVIOUS
  <2>1. /\ rows[a] \in SUBSET Row /\ plat[a] \in Campaign /\ SafeCampaign(rows[a], plat[a])
    BY DEF TypeOK, FeedInv
  <2>2. EntryOf(plat[a]) \in Entry /\ SafeEntry(rows[a], plat[a], EntryOf(plat[a]))
    BY <2>1, OwnEntrySafe
  <2> QED BY <1>b, <2>2 DEF KeepsSafe
<1> HIDE DEF EntryStays, ReportStays
<1>0. ASSUME UNCHANGED <<known, boot, pc, kc, req, resp, net>> PROVE FeedInv'
  BY <1>0, <1>c, <1>e DEF FeedInv, EntryStays, ReportStays
<1>1. ASSUME NEW a \in Accounts, NEW r \in Row, LHInsert(a, r) PROVE FeedInv'
  BY <1>0, <1>1 DEF LHInsert
<1>2. ASSUME NEW a \in Accounts, NEW still \in BOOLEAN, Reset(a, still) PROVE FeedInv'
  BY <1>0, <1>2 DEF Reset
<1>3. CASE ServeBootstrap
  <2>1. \A a \in Accounts : boot'[a] = EntryOf(plat[a])
    BY <1>3 DEF ServeBootstrap, Snapshot
  <2> QED BY <1>3, <1>c, <1>e, <1>g, <2>1
          DEF ServeBootstrap, FeedInv, EntryStays, ReportStays
<1>4. CASE ReceiveBootstrap
  BY <1>4, <1>c, <1>d, <1>e, <1>f DEF ReceiveBootstrap, FeedInv, EntryStays, ReportStays
<1>5. CASE FailBootstrap
  BY <1>5, <1>c, <1>d, <1>e, <1>f DEF FailBootstrap, FeedInv, EntryStays, ReportStays
<1>6. CASE EndCycle
  BY <1>6, <1>c, <1>e DEF EndCycle, FeedInv, EntryStays, ReportStays
<1>7. ASSUME NEW a \in Accounts, FailRead(a) PROVE FeedInv'
  BY <1>7, <1>c, <1>e DEF FailRead, FeedInv, EntryStays, ReportStays, TypeOK
<1>8. ASSUME NEW a \in Accounts, NEW drifted \in BOOLEAN, Build(a, drifted)
      PROVE  FeedInv'
  <2> DEFINE q == [NoReport EXCEPT !.register = drifted \/ ~known[a].registered]
  <2>1. q \in Request /\ q.batch = {} /\ q.gen = 0
    <3>1. (drifted \/ ~known[a].registered) \in BOOLEAN
      OBVIOUS
    <3>2. \A x \in BOOLEAN : /\ [NoReport EXCEPT !.register = x] \in Request
                             /\ [NoReport EXCEPT !.register = x].batch = {}
                             /\ [NoReport EXCEPT !.register = x].gen = 0
      BY BudgetAssumption DEF NoReport, Request, Gens
    <3> QED BY <3>1, <3>2
  <2>2. rows'[a] \in SUBSET Row /\ plat'[a] \in Campaign
    BY <1>a DEF TypeOK
  <2>3. ReportStays(q, a)
    BY <2>1, <2>2, EmptyReportSafe DEF ReportStays
  <2>4. req' = [req EXCEPT ![a] = q]
    BY <1>8 DEF Build
  <2> HIDE DEF q
  <2>5. req'[a] = q /\ \A b \in Accounts : b # a => req'[b] = req[b]
    BY <2>4 DEF TypeOK
  <2>6. \A b \in Accounts : pc'[b] = "read" => pc[b] = "read"
    BY <1>8 DEF Build, TypeOK
  <2> QED BY <1>8, <1>c, <1>e, <2>3, <2>5, <2>6
          DEF Build, FeedInv, EntryStays, ReportStays
<1>9. ASSUME NEW a \in Accounts, Lookup(a) PROVE FeedInv'
  <2>1. \A b \in Accounts : kc'[b] = kc[b] \/ kc'[b] = known[b]
    BY <1>9 DEF Lookup, TypeOK, Snapshots
  <2>2. \A b \in Accounts : pc'[b] = "read" => kc'[b].registered
    BY <1>9 DEF Lookup, TypeOK, Snapshots, FeedInv
  <2> QED BY <1>9, <1>c, <1>e, <2>1, <2>2 DEF Lookup, FeedInv, EntryStays, ReportStays
<1>10. ASSUME NEW a \in Accounts, Read(a) PROVE FeedInv'
  <2>1. PICK B \in SUBSET rows[a], T \in SUBSET rows[a] :
          /\ IsBatch(B, rows[a], kc[a].cursor)
          /\ req' = [req EXCEPT ![a].gen = kc[a].gen,
                                ![a].batch = {r \in B : r.wire}, ![a].threads = T]
    BY <1>10 DEF Read, Kept
  <2>2. /\ req'[a].gen = kc[a].gen /\ req'[a].batch = {r \in B : r.wire}
        /\ \A b \in Accounts : b # a => req'[b] = req[b]
    BY <2>1 DEF TypeOK, Request
  <2>3. ReportStays(req'[a], a)
    <3>1. req'[a] \in Request /\ rows[a] \in SUBSET Row /\ plat[a] \in Campaign
          /\ kc[a] \in Entry
      BY <1>a DEF TypeOK, Snapshots
    <3>2. SafeReport(rows[a], plat[a], req'[a])
      BY <1>10, <2>1, <2>2, <3>1, BatchSafe DEF Read, FeedInv
    <3> QED BY <1>10, <3>2 DEF Read, ReportStays
  <2>4. \A b \in Accounts : /\ kc'[b] = kc[b] \/ kc'[b] = Unregistered
                            /\ pc'[b] = "read" => pc[b] = "read" /\ kc'[b] = kc[b]
    BY <1>10 DEF Read, TypeOK, Snapshots
  <2>5. UNCHANGED <<known, boot, resp, net>>
    BY <1>10 DEF Read
  <2>6. \A b \in Accounts : ReportStays(req'[b], b)
    BY <1>c, <2>2, <2>3
  <2>7. \A b \in Accounts : EntryStays(kc'[b], b) /\ (pc'[b] = "read" => kc'[b].registered)
    BY <1>c, <1>d, <2>4 DEF FeedInv
  <2> QED BY <1>c, <1>e, <2>5, <2>6, <2>7 DEF FeedInv, EntryStays, ReportStays
<1>11. ASSUME NEW a \in Accounts, FailRows(a) PROVE FeedInv'
  <2>1. \A b \in Accounts : /\ kc'[b] = kc[b] \/ kc'[b] = Unregistered
                            /\ pc'[b] = "read" => pc[b] = "read" /\ kc'[b] = kc[b]
    BY <1>11 DEF FailRows, TypeOK, Snapshots
  <2> QED BY <1>11, <1>c, <1>d, <1>e, <2>1 DEF FailRows, FeedInv, EntryStays, ReportStays
<1>12. ASSUME NEW a \in Accounts, Serve(a) PROVE FeedInv'
  <2>1. \A b, b2 \in Accounts : resp'[b][b2] = resp[b][b2]
                                \/ resp'[b][b2] = EntryOf(plat'[b2])
    BY <1>12 DEF Serve, Snapshot, TypeOK
  <2>2. \A b \in Accounts : SafeEntry(rows'[b], plat'[b], EntryOf(plat'[b]))
    <3> SUFFICES ASSUME NEW b \in Accounts
                 PROVE  SafeEntry(rows'[b], plat'[b], EntryOf(plat'[b]))
      OBVIOUS
    <3>1. rows'[b] \in SUBSET Row /\ plat'[b] \in Campaign /\ SafeCampaign(rows'[b], plat'[b])
      BY <1>a, <1>c DEF TypeOK
    <3> QED BY <3>1, OwnEntrySafe
  <2>3. \A b \in Accounts : pc'[b] = "read" => pc[b] = "read"
    BY <1>12 DEF Serve, TypeOK
  <2> QED BY <1>12, <1>c, <1>e, <2>1, <2>2, <2>3
          DEF Serve, FeedInv, EntryStays, ReportStays
<1>13. ASSUME NEW a \in Accounts, Receive(a) PROVE FeedInv'
  <2>1. \A b \in Accounts : /\ known'[b] = resp[a][b]
                            /\ req'[b] = req[b] \/ req'[b] = NoReport
                            /\ pc'[b] = "read" => pc[b] = "read"
    BY <1>13 DEF Receive, TypeOK
  <2>2. \A b, b2 \in Accounts : resp'[b][b2] = resp[b][b2] \/ resp'[b][b2] = Unregistered
    BY <1>13, <1>f DEF Receive, TypeOK
  <2> QED BY <1>13, <1>c, <1>d, <1>e, <2>1, <2>2
          DEF Receive, FeedInv, EntryStays, ReportStays
<1>14. ASSUME NEW a \in Accounts, LoseAnswer(a) PROVE FeedInv'
  <2>1. \A b, b2 \in Accounts : /\ pc'[b] = "read" => pc[b] = "read"
                                /\ \/ resp'[b][b2] = resp[b][b2]
                                   \/ resp'[b][b2] = Unregistered
    BY <1>14, <1>f DEF LoseAnswer, TypeOK
  <2> QED BY <1>14, <1>c, <1>d, <1>e, <2>1
          DEF LoseAnswer, FeedInv, EntryStays, ReportStays
<1>15. ASSUME NEW a \in Accounts, TimeOut(a) PROVE FeedInv'
  <2>1. \A m \in net' : m \in net \/ m = [account |-> a, report |-> req[a]]
    BY <1>15 DEF TimeOut
  <2> QED BY <1>15, <1>c, <1>e, <2>1 DEF TimeOut, FeedInv, EntryStays, ReportStays
<1>16. ASSUME NEW a \in Accounts, GiveUp(a) PROVE FeedInv'
  <2>1. \A b \in Accounts : /\ req'[b] = req[b] \/ req'[b] = NoReport
                            /\ pc'[b] = "read" => pc[b] = "read"
    BY <1>16 DEF GiveUp, TypeOK
  <2> QED BY <1>16, <1>c, <1>d, <1>e, <2>1 DEF GiveUp, FeedInv, EntryStays, ReportStays
<1>17. ASSUME NEW m \in net, ServeLate(m) PROVE FeedInv'
  BY <1>17, <1>c, <1>e DEF ServeLate, FeedInv, EntryStays, ReportStays
<1>18. ASSUME NEW S \in SUBSET Accounts, Crash(S) PROVE FeedInv'
  <2>1. \A m \in net' : m \in net \/ \E a \in S : m = [account |-> a, report |-> req[a]]
    BY <1>18 DEF Crash
  <2>2. \A a \in Accounts :
          /\ known'[a] = Unregistered /\ boot'[a] = Unregistered /\ kc'[a] = Unregistered
          /\ \A b \in Accounts : resp'[b][a] = Unregistered
          /\ req'[a] = NoReport /\ pc'[a] = "idle"
    BY <1>18, <1>f DEF Crash
  <2>3. \A m \in net' : SafeReport(rows'[m.account], plat'[m.account], m.report)
    BY <2>1, <1>c, <1>e DEF ReportStays
  <2>4. ASSUME NEW a \in Accounts
        PROVE  /\ EntryStays(known'[a], a) /\ EntryStays(boot'[a], a)
               /\ EntryStays(kc'[a], a) /\ ReportStays(req'[a], a)
               /\ \A b \in Accounts : EntryStays(resp'[b][a], a)
               /\ pc'[a] # "read"
    BY <1>d, <2>2
  <2> QED BY <1>c, <2>3, <2>4 DEF FeedInv, EntryStays, ReportStays
<1>19. CASE UNCHANGED vars
  BY <1>0, <1>19 DEF vars
<1> QED
  BY <1>1, <1>2, <1>3, <1>4, <1>5, <1>6, <1>7, <1>8, <1>9, <1>10, <1>11, <1>12,
     <1>13, <1>14, <1>15, <1>16, <1>17, <1>18, <1>19
     DEF Next, Environment, Cycle, Worker

-----------------------------------------------------------------------------
(* Threads *)

\* A report that is safe for its threads stays so, and applying it leaves every
\* stored reply with its thread, or with another of its millisecond.
LEMMA MergedKeepsThreads ==
  ASSUME NEW p \in Campaign, NEW q \in Request, NEW c \in Cursors,
         ThreadsSafe(p, q),
         p.overtaken \/ \A r \in p.stored : HasThread(p, r)
  PROVE  /\ \/ Merged(p, q, c).overtaken
            \/ \A r \in Merged(p, q, c).stored : HasThread(Merged(p, q, c), r)
         /\ \A q2 \in Request :
              ThreadsSafe(p, q2) => ThreadsSafe(Merged(p, q, c), q2)
<1> DEFINE p2 == Merged(p, q, c)
<1>1. /\ p2.gen = p.gen /\ p2.stored = p.stored \cup q.batch
      /\ p2.threads = p.threads \cup q.threads
      /\ p2.overtaken = (p.overtaken \/ (q.batch # {} /\ q.gen # p.gen))
  BY DEF Merged
<1>2. ASSUME NEW r, HasThread(p, r) PROVE HasThread(p2, r)
  BY <1>1, <1>2 DEF HasThread
<1>3. ASSUME ~p2.overtaken, NEW r \in p2.stored PROVE HasThread(p2, r)
  <2>1. ~p.overtaken /\ (q.batch = {} \/ q.gen = p.gen)
    BY <1>1, <1>3
  <2>2. CASE r \in p.stored
    BY <1>2, <2>1, <2>2
  <2>3. CASE r \in q.batch /\ r \in q.threads
    BY <1>1, <2>3 DEF HasThread
  <2>4. CASE r \in q.batch /\ r \notin q.threads
    BY <1>2, <2>1, <2>4 DEF ThreadsSafe
  <2> QED BY <1>1, <1>3, <2>2, <2>3, <2>4
<1>4. ASSUME NEW q2 \in Request, ThreadsSafe(p, q2) PROVE ThreadsSafe(p2, q2)
  BY <1>1, <1>2, <1>4 DEF ThreadsSafe
<1> QED BY <1>3, <1>4

\* After a reset there is nothing on the platform that could lack a thread.
LEMMA ClearedKeepsThreads ==
  ASSUME NEW p \in Campaign, NEW still \in BOOLEAN, NEW R \in SUBSET Row
  PROVE  /\ \A r \in Cleared(p, still).stored : HasThread(Cleared(p, still), r)
         /\ \A q \in Request :
              SafeReport(R, p, q) => ThreadsSafe(Cleared(p, still), q)
<1>1. Cleared(p, still).gen = p.gen + 1 /\ Cleared(p, still).stored = {}
  BY DEF Cleared
<1>2. p.gen \in Int /\ \A q \in Request : q.gen \in Int
  BY DEF Campaign, Request, Gens
<1> QED BY <1>1, <1>2 DEF SafeReport, ThreadsSafe

\* A batch read from a safe entry, with the threads of the rows past its cursor:
\* a row without one lies at the cursor, where the platform has a reply.
LEMMA BatchThreadsSafe ==
  ASSUME NEW R \in SUBSET Row, NEW p \in Campaign, NEW e \in Entry,
         SafeEntry(R, p, e), NEW q \in Request,
         NEW B \in SUBSET R, IsBatch(B, R, e.cursor),
         q.batch = {r \in B : r.wire}, q.gen = e.gen,
         q.threads = {r \in q.batch : ThreadDue(r, e.cursor)},
         p.overtaken \/ \A r \in p.stored : HasThread(p, r)
  PROVE  ThreadsSafe(p, q)
<1> SUFFICES ASSUME q.gen = p.gen, ~p.overtaken, NEW r \in q.batch \ q.threads
             PROVE  HasThread(p, r)
  BY DEF ThreadsSafe
<1>1. r \in R /\ r \in B /\ r.at \in Int /\ e.cursor \in Int
  BY DEF Row, Entry, Cursors
<1>2. r.at >= e.cursor
  BY <1>1 DEF IsBatch, Oldest
<1>3. e.cursor # EmptyCursor /\ r.at = e.cursor
  BY <1>1, <1>2 DEF ThreadDue
<1>4. PICK x \in p.stored : x.at = e.cursor
  BY <1>3 DEF SafeEntry
<1> QED BY <1>3, <1>4 DEF HasThread

LEMMA EmptyThreadsSafe ==
  ASSUME NEW p \in Campaign, NEW q \in Request, q.batch = {}
  PROVE  ThreadsSafe(p, q)
BY DEF ThreadsSafe

LEMMA ThreadInit == Init => ThreadInv
BY DEF Init, ThreadInv, ThreadsSafe, NewCampaign, NoReport

\* Of the steps, only Read makes a report with rows, and only a reset or the
\* platform's applying one changes what the platform has.
LEMMA ThreadStep == TypeOK /\ FeedInv /\ ThreadInv /\ [Next]_vars => ThreadInv'
<1> SUFFICES ASSUME TypeOK, FeedInv, ThreadInv, [Next]_vars, ~ThreadReadFails,
                    NEW a \in Accounts, a \notin SendFeeds
             PROVE  /\ \/ plat'[a].overtaken
                       \/ \A r \in plat'[a].stored : HasThread(plat'[a], r)
                    /\ ThreadsSafe(plat'[a], req'[a])
                    /\ \A m \in net' : m.account = a => ThreadsSafe(plat'[a], m.report)
  BY DEF ThreadInv
<1> DEFINE
  Stored == plat'[a].overtaken \/ \A r \in plat'[a].stored : HasThread(plat'[a], r)
  Sent == ThreadsSafe(plat'[a], req'[a])
  UnderWay == \A m \in net' : m.account = a => ThreadsSafe(plat'[a], m.report)
<1>a. /\ plat[a] \in Campaign /\ req[a] \in Request /\ rows[a] \in SUBSET Row
      /\ kc[a] \in Entry /\ \A m \in net : m.report \in Request /\ m.account \in Accounts
  BY DEF TypeOK, Snapshots, Late
<1>b. /\ plat[a].overtaken \/ \A r \in plat[a].stored : HasThread(plat[a], r)
      /\ ThreadsSafe(plat[a], req[a])
      /\ \A m \in net : m.account = a => ThreadsSafe(plat[a], m.report)
  BY DEF ThreadInv
<1>c. NoReport \in Request /\ NoReport.batch = {} /\ ThreadsSafe(plat[a], NoReport)
  <2>1. NoReport \in Request /\ NoReport.batch = {}
    BY BudgetAssumption DEF NoReport, Request, Gens
  <2> QED BY <1>a, <2>1, EmptyThreadsSafe
<1>0. ASSUME plat' = plat, req'[a] = req[a] \/ req'[a] = NoReport,
             \A m \in net' : m \in net \/ m.report = NoReport \/ m.account # a
                              \/ m.report = req[a]
      PROVE  Stored /\ Sent /\ UnderWay
  BY <1>0, <1>b, <1>c
<1>m. ASSUME NEW b \in Accounts, NEW q \in Request, Apply(b, q),
             ThreadsSafe(plat[b], q) \/ b # a, req' = req,
             \A m \in net' : m \in net
      PROVE  Stored /\ Sent /\ UnderWay
  <2>1. CASE plat'[a] = plat[a]
    BY <1>m, <1>b, <2>1
  <2>2. CASE plat'[a] # plat[a]
    <3>1. PICK c \in Cursors : plat' = [plat EXCEPT ![b] = Merged(@, q, c)]
      BY <1>m, <2>2 DEF Apply
    <3>2. b = a /\ plat'[a] = Merged(plat[a], q, c)
      BY <2>2, <3>1 DEF TypeOK
    <3> QED BY <1>m, <1>a, <1>b, <3>2, MergedKeepsThreads
  <2> QED BY <2>1, <2>2
<1>1. ASSUME NEW b \in Accounts, NEW r \in Row, LHInsert(b, r)
      PROVE  Stored /\ Sent /\ UnderWay
  BY <1>0, <1>1 DEF LHInsert
<1>2. ASSUME NEW b \in Accounts, NEW still \in BOOLEAN, Reset(b, still)
      PROVE  Stored /\ Sent /\ UnderWay
  <2>1. plat' = [plat EXCEPT ![b] = Cleared(@, still)] /\ req' = req /\ net' = net
    BY <1>2 DEF Reset
  <2>2. CASE b # a
    BY <1>b, <2>1, <2>2 DEF TypeOK
  <2>3. CASE b = a
    <3>1. plat'[a] = Cleared(plat[a], still)
      BY <2>1, <2>3 DEF TypeOK
    <3>2. /\ SafeReport(rows[a], plat[a], req[a])
          /\ \A m \in net : m.account = a => SafeReport(rows[a], plat[a], m.report)
      BY DEF FeedInv
    <3> QED BY <1>a, <2>1, <3>1, <3>2, ClearedKeepsThreads
  <2> QED BY <2>2, <2>3
<1>3. ASSUME NEW b \in Accounts, Serve(b) PROVE Stored /\ Sent /\ UnderWay
  <2>1. /\ req[b] \in Request /\ Apply(b, req[b]) /\ req' = req /\ net' = net
        /\ ThreadsSafe(plat[b], req[b]) \/ b # a
    BY <1>3, <1>b DEF Serve, TypeOK
  <2> QED BY <1>m, <2>1
<1>4. ASSUME NEW m \in net, ServeLate(m) PROVE Stored /\ Sent /\ UnderWay
  <2>1. /\ m.report \in Request /\ m.account \in Accounts
        /\ Apply(m.account, m.report) /\ req' = req /\ net' = net \ {m}
        /\ ThreadsSafe(plat[m.account], m.report) \/ m.account # a
    BY <1>4, <1>a, <1>b DEF ServeLate
  <2> QED BY <1>m, <2>1
<1>5. CASE ReceiveBootstrap \/ ServeBootstrap \/ FailBootstrap \/ EndCycle
  BY <1>0, <1>5 DEF ReceiveBootstrap, ServeBootstrap, FailBootstrap, EndCycle
<1>6. ASSUME NEW b \in Accounts, NEW drifted \in BOOLEAN, Build(b, drifted)
      PROVE  Stored /\ Sent /\ UnderWay
  <2> DEFINE q == [NoReport EXCEPT !.register = drifted \/ ~known[b].registered]
  <2>1. q \in Request /\ q.batch = {}
    <3>1. (drifted \/ ~known[b].registered) \in BOOLEAN
      OBVIOUS
    <3>2. \A x \in BOOLEAN : /\ [NoReport EXCEPT !.register = x] \in Request
                             /\ [NoReport EXCEPT !.register = x].batch = {}
      BY BudgetAssumption DEF NoReport, Request, Gens
    <3> QED BY <3>1, <3>2
  <2>2. ThreadsSafe(plat[a], q)
    BY <1>a, <2>1, EmptyThreadsSafe
  <2>3. req' = [req EXCEPT ![b] = q] /\ plat' = plat /\ net' = net
    BY <1>6 DEF Build
  <2> HIDE DEF q
  <2>4. req'[a] = req[a] \/ req'[a] = q
    BY <2>3 DEF TypeOK
  <2> QED BY <1>b, <2>2, <2>3, <2>4
<1>7. ASSUME NEW b \in Accounts, Read(b) PROVE Stored /\ Sent /\ UnderWay
  <2>1. plat' = plat /\ net' = net
    BY <1>7 DEF Read
  <2>2. CASE b # a
    <3>1. req'[a] = req[a]
      BY <1>7, <2>2 DEF Read, TypeOK
    <3> QED BY <1>b, <2>1, <3>1
  <2>3. CASE b = a
    <3>0. Read(a)
      BY <1>7, <2>3
    <3>1. PICK B \in SUBSET rows[a], T \in SUBSET rows[a] :
            /\ IsBatch(B, rows[a], kc[a].cursor)
            /\ T = {r \in Kept(B) : ThreadDue(r, kc[a].cursor) /\ a \notin SendFeeds}
            /\ req' = [req EXCEPT ![a].gen = kc[a].gen,
                                  ![a].batch = Kept(B), ![a].threads = T]
      <4> DEFINE Due(B) ==
            {r \in Kept(B) : ThreadDue(r, kc[a].cursor) /\ a \notin SendFeeds}
      <4>1. \E B \in SUBSET rows[a] :
              /\ IsBatch(B, rows[a], kc[a].cursor)
              /\ \E T \in SUBSET Due(B) :
                   /\ ThreadReadFails \/ T = Due(B)
                   /\ req' = [req EXCEPT ![a].gen = kc[a].gen,
                                         ![a].batch = Kept(B), ![a].threads = T]
        BY <3>0 DEF Read
      <4>2. \A B \in SUBSET rows[a] : Due(B) \in SUBSET rows[a]
        BY DEF Kept
      <4> HIDE DEF Due
      <4>3. \E B \in SUBSET rows[a], T \in SUBSET rows[a] :
              /\ IsBatch(B, rows[a], kc[a].cursor)
              /\ T = Due(B)
              /\ req' = [req EXCEPT ![a].gen = kc[a].gen,
                                    ![a].batch = Kept(B), ![a].threads = T]
        BY <4>1, <4>2
      <4> QED BY <4>3 DEF Due
    <3>2. /\ req'[a].gen = kc[a].gen /\ req'[a].batch = {r \in B : r.wire}
          /\ req'[a].threads = {r \in req'[a].batch : ThreadDue(r, kc[a].cursor)}
      <4>1. /\ req'[a].gen = kc[a].gen /\ req'[a].batch = Kept(B)
            /\ req'[a].threads = T
        BY <3>1 DEF TypeOK, Request
      <4> QED BY <3>1, <4>1 DEF Kept
    <3>3. req'[a] \in Request
      BY TypeStep DEF TypeOK
    <3>4. SafeEntry(rows[a], plat[a], kc[a])
      BY DEF FeedInv
    <3>5. ThreadsSafe(plat[a], req'[a])
      BY <1>a, <1>b, <3>1, <3>2, <3>3, <3>4, BatchThreadsSafe
    <3> QED BY <1>b, <2>1, <3>5
  <2> QED BY <2>2, <2>3
<1>8. ASSUME NEW b \in Accounts,
             FailRead(b) \/ Lookup(b) \/ FailRows(b) \/ LoseAnswer(b)
      PROVE  Stored /\ Sent /\ UnderWay
  BY <1>0, <1>8 DEF FailRead, Lookup, FailRows, LoseAnswer
<1>9. ASSUME NEW b \in Accounts, Receive(b) \/ GiveUp(b)
      PROVE  Stored /\ Sent /\ UnderWay
  <2>1. plat' = plat /\ net' = net /\ (req'[a] = req[a] \/ req'[a] = NoReport)
    BY <1>9 DEF Receive, GiveUp, TypeOK
  <2> QED BY <1>0, <2>1
<1>10. ASSUME NEW b \in Accounts, TimeOut(b) PROVE Stored /\ Sent /\ UnderWay
  <2>1. \A m \in net' : m \in net \/ m.account # a \/ m.report = req[a]
    BY <1>10 DEF TimeOut
  <2> QED BY <1>0, <1>10, <2>1 DEF TimeOut
<1>11. ASSUME NEW S \in SUBSET Accounts, Crash(S) PROVE Stored /\ Sent /\ UnderWay
  <2>1. \A m \in net' : m \in net \/ m.account # a \/ m.report = req[a]
    BY <1>11 DEF Crash
  <2>2. plat' = plat /\ req'[a] = NoReport
    BY <1>11 DEF Crash
  <2> QED BY <1>0, <2>1, <2>2
<1>12. CASE UNCHANGED vars
  BY <1>0, <1>12 DEF vars
<1> QED
  BY <1>1, <1>2, <1>3, <1>4, <1>5, <1>6, <1>7, <1>8, <1>9, <1>10, <1>11, <1>12
     DEF Next, Environment, Cycle, Worker

-----------------------------------------------------------------------------
(* The cycle: the mirror never falls behind the platform as it was when the *)
(* cycle began                                                              *)

LEMMA CycleInit == Init => CycleInv
<1> SUFFICES ASSUME Init PROVE CycleInv
  OBVIOUS
<1>1. \A a \in Accounts : /\ pc[a] = "idle" /\ plat[a].gen = 0 /\ plat[a].cursor = 0
                          /\ floor[a].gen = 0 /\ floor[a].cursor = 0
  BY DEF Init, NewCampaign, NothingKnown, Unregistered, EmptyCursor
<1>2. phase = "waiting" /\ ~refreshed
  BY DEF Init
<1> QED BY <1>1, <1>2 DEF CycleInv, NotOlder

LEMMA CycleStep == TypeOK /\ FeedInv /\ CycleInv /\ [Next]_vars => CycleInv'
<1> SUFFICES ASSUME TypeOK, FeedInv, CycleInv, [Next]_vars PROVE CycleInv'
  OBVIOUS
<1>a. TypeOK'
  BY TypeStep
<1>b. \A a \in Accounts : NotOlder(plat'[a], plat[a])
  BY StepKeepsSafe DEF KeepsSafe
<1>c. \A a \in Accounts : NotOlder(plat'[a], floor[a])
  <2> SUFFICES ASSUME NEW a \in Accounts PROVE NotOlder(plat'[a], floor[a])
    OBVIOUS
  <2>1. /\ plat[a].gen \in Int /\ plat[a].cursor \in Int
        /\ plat'[a].gen \in Int /\ plat'[a].cursor \in Int
        /\ floor[a].gen \in Int /\ floor[a].cursor \in Int
    BY <1>a DEF TypeOK, Campaign, Snapshots, Entry, Gens, Cursors
  <2> QED BY <1>b, <2>1, NotOlderTransitive DEF CycleInv
<1>d. \A a \in Accounts : NotOlder(plat'[a], NothingKnown[a])
  BY <1>a DEF TypeOK, Campaign, Gens, Cursors, NothingKnown, Unregistered, NotOlder,
         EmptyCursor
<1>e. \A a \in Accounts : /\ NotOlder(plat[a], Snapshot[a])
                          /\ NotOlder(Snapshot[a], Snapshot[a])
  BY DEF Snapshot, EntryOf, NotOlder, TypeOK, Campaign, Gens, Cursors
<1>f. \A a \in Accounts : NotOlder(EntryOf(plat'[a]), floor[a])
  BY <1>c DEF EntryOf, NotOlder
<1>g. ASSUME UNCHANGED <<phase, known, boot, resp, floor, refreshed>>,
             \A a \in Accounts : /\ pc[a] = "idle" => pc'[a] = "idle" \/ phase = "syncing"
                                 /\ pc'[a] = "answered" => pc[a] = "answered"
      PROVE  CycleInv'
  BY <1>c, <1>g DEF CycleInv
<1>1. ASSUME NEW a \in Accounts, NEW r \in Row, LHInsert(a, r) PROVE CycleInv'
  BY <1>1, <1>g DEF LHInsert
<1>2. ASSUME NEW a \in Accounts, NEW still \in BOOLEAN, Reset(a, still) PROVE CycleInv'
  BY <1>2, <1>g DEF Reset
<1>3. CASE ServeBootstrap
  <2>1. \A a \in Accounts : NotOlder(plat'[a], floor'[a]) /\ NotOlder(boot'[a], floor'[a])
    BY <1>3, <1>e DEF ServeBootstrap
  <2>2. ~refreshed' /\ \A a \in Accounts : pc'[a] = "idle"
    BY <1>3 DEF ServeBootstrap, CycleInv
  <2> QED BY <2>1, <2>2 DEF CycleInv
<1>4. CASE ReceiveBootstrap
  BY <1>4, <1>c DEF ReceiveBootstrap, CycleInv
<1>5. CASE FailBootstrap
  <2>1. \A a \in Accounts : NotOlder(plat'[a], floor'[a])
    BY <1>5, <1>c, <1>e DEF FailBootstrap
  <2>2. /\ phase' = "syncing" /\ ~refreshed'
        /\ \A a \in Accounts : pc'[a] = "idle"
    BY <1>5 DEF FailBootstrap, CycleInv
  <2> QED BY <2>1, <2>2 DEF CycleInv
<1>6. CASE EndCycle
  BY <1>6, <1>d DEF EndCycle, CycleInv
<1>7. ASSUME NEW a \in Accounts, FailRead(a) PROVE CycleInv'
  BY <1>7, <1>g DEF FailRead, TypeOK
<1>8. ASSUME NEW a \in Accounts, NEW drifted \in BOOLEAN, Build(a, drifted)
      PROVE  CycleInv'
  BY <1>8, <1>g DEF Build, TypeOK
<1>9. ASSUME NEW a \in Accounts,
             Lookup(a) \/ Read(a) \/ FailRows(a) \/ TimeOut(a) \/ GiveUp(a)
      PROVE  CycleInv'
  BY <1>9, <1>g DEF Lookup, Read, FailRows, TimeOut, GiveUp, TypeOK
<1>10. ASSUME NEW a \in Accounts, Serve(a) PROVE CycleInv'
  <2>1. \A b, b2 \in Accounts : \/ /\ resp'[b][b2] = resp[b][b2]
                                   /\ pc'[b] = pc[b]
                                \/ NotOlder(resp'[b][b2], floor[b2])
    BY <1>10, <1>f DEF Serve, Snapshot, TypeOK
  <2>2. phase' = "syncing"
    BY <1>10 DEF Serve, CycleInv
  <2> QED BY <1>10, <1>c, <2>1, <2>2 DEF Serve, CycleInv
<1>11. ASSUME NEW a \in Accounts, Receive(a) PROVE CycleInv'
  <2>1. /\ phase' = "syncing"
        /\ \A b \in Accounts : NotOlder(known'[b], floor[b])
    BY <1>11 DEF Receive, CycleInv
  <2>2. \A b \in Accounts : pc'[b] = "answered" => pc[b] = "answered" /\ resp'[b] = resp[b]
    BY <1>11 DEF Receive, TypeOK
  <2> QED BY <1>11, <1>c, <2>1, <2>2 DEF Receive, CycleInv
<1>12. ASSUME NEW a \in Accounts, LoseAnswer(a) PROVE CycleInv'
  <2>1. phase' = "syncing"
    BY <1>12 DEF LoseAnswer, CycleInv
  <2>2. \A b \in Accounts : pc'[b] = "answered" => pc[b] = "answered" /\ resp'[b] = resp[b]
    BY <1>12 DEF LoseAnswer, TypeOK
  <2> QED BY <1>12, <1>c, <2>1, <2>2 DEF LoseAnswer, CycleInv
<1>13. ASSUME NEW m \in net, ServeLate(m) PROVE CycleInv'
  BY <1>13, <1>g DEF ServeLate
<1>14. ASSUME NEW S \in SUBSET Accounts, Crash(S) PROVE CycleInv'
  <2>1. ~refreshed' /\ phase' = "waiting" /\ floor' = NothingKnown
        /\ \A a \in Accounts : pc'[a] = "idle"
    BY <1>14 DEF Crash
  <2> QED BY <2>1, <1>d DEF CycleInv
<1>15. CASE UNCHANGED vars
  BY <1>15, <1>g DEF vars
<1> QED
  BY <1>1, <1>2, <1>3, <1>4, <1>5, <1>6, <1>7, <1>8, <1>9, <1>10, <1>11, <1>12,
     <1>13, <1>14, <1>15 DEF Next, Environment, Cycle, Worker

-----------------------------------------------------------------------------
(* Theorems *)

\* The inductive invariant: every copy of a cursor, wherever it is, is as safe
\* to read from as the platform's own, and no answer outlives its cycle.
THEOREM InductiveInvariant == Spec => []Inductive
<1>1. Init => Inductive
  BY TypeInit, FeedInit, ThreadInit, CycleInit DEF Inductive
<1>2. Inductive /\ [Next]_vars => Inductive'
  BY TypeStep, FeedStep, ThreadStep, CycleStep DEF Inductive
<1> QED BY <1>1, <1>2, PTL DEF Spec

\* Nothing below the platform's cursor is ever missing, whatever batches were
\* cut, lost, repeated or applied late: appendReplies and appendSends skip no row.
THEOREM NothingSkipped == Spec => []NoSkip
<1>1. Inductive => NoSkip
  BY DEF Inductive, FeedInv, SafeCampaign, NoSkip
<1> QED BY <1>1, InductiveInvariant, PTL

\* known.replace never installs an answer older than the cycle it is used in.
THEOREM MirrorIsOfThisCycle == Spec => []MirrorNotBehindCycle
<1>1. Inductive => MirrorNotBehindCycle
  BY DEF Inductive, CycleInv, MirrorNotBehindCycle
<1> QED BY <1>1, InductiveInvariant, PTL

\* What attachThreads relies on when it skips the rows of the cursor's
\* millisecond: the thread of such a reply is there, unless another reply of that
\* millisecond is.
THEOREM ThreadsDelivered == Spec => []ThreadAlreadyDelivered
<1>1. Inductive => ThreadAlreadyDelivered
  BY DEF Inductive, ThreadInv, ThreadsSafe, ThreadAlreadyDelivered
<1> QED BY <1>1, InductiveInvariant, PTL

\* The report that registers a campaign brings no rows of it, as appendReplies
\* promises for a campaign registered this very cycle.
THEOREM RegistersFirst == Spec => RegisterBeforeFeed
<1>1. ASSUME TypeOK, FeedInv, NEW a \in Accounts, NEW q \in Request,
             SafeReport(rows[a], plat[a], q), Apply(a, q), NEW b \in Accounts,
             ~plat[b].registered, plat'[b].registered, ~plat'[b].overtaken
      PROVE  plat'[b].stored = {}
  <2>1. plat' # plat
    BY <1>1
  <2>2. PICK c \in Cursors : plat' = [plat EXCEPT ![a] = Merged(@, q, c)]
    BY <1>1, <2>1 DEF Apply
  <2>3. b = a
    BY <1>1, <2>2 DEF TypeOK
  <2>4. plat'[a] = Merged(plat[a], q, c)
    BY <1>1, <2>2 DEF TypeOK
  <2>5. plat'[a].stored = plat[a].stored \cup q.batch
    BY <2>4 DEF Merged
  <2>6. q.batch = {} \/ q.gen = plat[a].gen
    <3> SUFFICES ASSUME q.batch # {}, q.gen # plat[a].gen PROVE FALSE
      OBVIOUS
    <3>1. Merged(plat[a], q, c).overtaken
      BY Zenon DEF Merged
    <3> QED BY <1>1, <2>3, <2>4, <3>1
  <2>7. plat[a].stored = {}
    BY <1>1, <2>3 DEF FeedInv, SafeCampaign
  <2> QED BY <1>1, <2>3, <2>5, <2>6, <2>7 DEF SafeReport
<1>2. ASSUME Inductive, [Next]_vars, NEW b \in Accounts,
             ~plat[b].registered, plat'[b].registered, ~plat'[b].overtaken
      PROVE  plat'[b].stored = {}
  <2>a. TypeOK /\ FeedInv
    BY <1>2 DEF Inductive
  <2>b. plat' # plat
    BY <1>2
  <2>1. ASSUME NEW a \in Accounts, Serve(a) PROVE plat'[b].stored = {}
    <3>1. req[a] \in Request /\ SafeReport(rows[a], plat[a], req[a])
      BY <2>a DEF TypeOK, FeedInv
    <3> QED BY <1>1, <1>2, <2>1, <2>a, <3>1 DEF Serve
  <2>2. ASSUME NEW m \in net, ServeLate(m) PROVE plat'[b].stored = {}
    <3>1. /\ m.account \in Accounts /\ m.report \in Request
          /\ SafeReport(rows[m.account], plat[m.account], m.report)
      BY <2>a DEF TypeOK, FeedInv, Late
    <3> QED BY <1>1, <1>2, <2>2, <2>a, <3>1 DEF ServeLate
  <2>3. ASSUME NEW a \in Accounts, NEW still \in BOOLEAN, Reset(a, still)
        PROVE  plat'[b].stored = {}
    BY <1>2, <2>3, <2>a DEF Reset, TypeOK, Cleared
  <2>4. CASE UNCHANGED plat
    BY <2>4, <2>b
  <2>5. \/ UNCHANGED plat
        \/ \E a \in Accounts : Serve(a) \/ \E still \in BOOLEAN : Reset(a, still)
        \/ \E m \in net : ServeLate(m)
    <3>1. CASE Environment
      BY <3>1 DEF Environment, LHInsert
    <3>2. CASE Cycle
      BY <3>2 DEF Cycle, ServeBootstrap, ReceiveBootstrap, FailBootstrap, EndCycle
    <3>3. CASE \E a \in Accounts : Worker(a)
      BY <3>3 DEF Worker, FailRead, Build, Lookup, Read, FailRows, Receive, LoseAnswer,
                  TimeOut, GiveUp
    <3>4. CASE \E S \in SUBSET Accounts : Crash(S)
      BY <3>4 DEF Crash
    <3>5. CASE UNCHANGED vars
      BY <3>5 DEF vars
    <3> QED BY <1>2, <3>1, <3>2, <3>3, <3>4, <3>5 DEF Next
  <2> QED BY <2>1, <2>2, <2>3, <2>4, <2>5
<1>3. Inductive /\ [Next]_vars
        => [\A a \in Accounts :
              ~plat[a].registered /\ plat'[a].registered /\ ~plat'[a].overtaken
                => plat'[a].stored = {}]_vars
  BY <1>2
<1> QED BY <1>3, InductiveInvariant, PTL DEF Spec, RegisterBeforeFeed

-----------------------------------------------------------------------------
(* The feed implements the gapless one                                      *)

\* No campaign has been reset.
NoResetYet == \A a \in Accounts : plat[a].gen = 0

\* Then no report of an older generation can have been applied.
NotOvertaken == \A a \in Accounts : ~plat[a].overtaken

LEMMA GaplessInit == Init => Gapless!Init /\ NotOvertaken
<1> SUFFICES ASSUME Init PROVE Gapless!Init /\ NotOvertaken
  OBVIOUS
<1>1. /\ rows = [a \in Accounts |-> {}]
      /\ \A a \in Accounts : plat[a].stored = {} /\ plat[a].cursor = 0
      /\ NotOvertaken
  BY DEF Init, NewCampaign, EmptyCursor, NotOvertaken
<1> QED BY <1>1 DEF Gapless!Init

\* Applying a gapless report is an advance of the gapless feed, or nothing.
LEMMA ApplyAdvances ==
  ASSUME TypeOK, FeedInv, NotOvertaken, NEW a \in Accounts, NEW q \in Request,
         SafeReport(rows[a], plat[a], q), q.gen = plat[a].gen, Apply(a, q), rows' = rows
  PROVE  /\ NotOvertaken'
         /\ Gapless!Next \/ UNCHANGED Gapless!vars
<1> DEFINE received == [b \in Accounts |-> plat[b].stored]
           mark == [b \in Accounts |-> plat[b].cursor]
<1>1. CASE plat' = plat
  BY <1>1 DEF NotOvertaken, Gapless!vars
<1>2. ASSUME NEW c \in Cursors, IsHighWater(c, plat[a].stored \cup q.batch),
             plat' = [plat EXCEPT ![a] = Merged(@, q, c)]
      PROVE  NotOvertaken' /\ (Gapless!Next \/ UNCHANGED Gapless!vars)
  <2>1. \A b \in Accounts : plat'[b] = IF b = a THEN Merged(plat[a], q, c) ELSE plat[b]
    BY <1>2 DEF TypeOK
  <2>2. /\ plat'[a].stored = plat[a].stored \cup q.batch
        /\ plat'[a].cursor = c
        /\ plat'[a].overtaken = (plat[a].overtaken \/ (q.batch # {} /\ q.gen # plat[a].gen))
    BY <2>1 DEF Merged
  <2>3. NotOvertaken'
    BY <2>1, <2>2 DEF NotOvertaken
  <2>4. received' = [received EXCEPT ![a] = @ \cup q.batch]
    BY <2>1, <2>2
  <2>5. mark' = [mark EXCEPT ![a] = c]
    BY <2>1, <2>2
  <2>6. rows[a] \in SUBSET Row /\ plat[a] \in Campaign /\ SafeCampaign(rows[a], plat[a])
    BY DEF TypeOK, FeedInv
  <2>7. CASE q.batch = {}
    <3>1. c = plat[a].cursor
      BY <1>2, <2>6, <2>7
         DEF SafeCampaign, IsHighWater, Shippable, Row, Campaign, Cursors, EmptyCursor
    <3>2. received' = received /\ mark' = mark
      BY <2>4, <2>5, <2>7, <3>1
    <3> QED BY <2>3, <3>2 DEF Gapless!vars
  <2>8. CASE q.batch # {}
    <3>1. q.batch \subseteq {r \in rows[a] : r.wire}
      BY DEF SafeReport, Shippable
    <3>2. \E r \in received'[a] : r.at = c
      BY <1>2, <2>1, <2>2, <2>6, <2>8, <3>1
         DEF IsHighWater, Row, Cursors, EmptyCursor
    <3>3. /\ SafeCampaign(rows[a], plat'[a]) /\ NotOlder(plat'[a], plat[a])
      BY ApplyKeepsSafe DEF KeepsSafe
    <3>4. \A r \in rows[a] : r.wire /\ r.at < mark'[a] => r \in received'[a]
      BY <2>1, <2>2, <2>3, <3>3 DEF SafeCampaign, StoredBelow, Shippable, NotOvertaken
    <3>5. mark'[a] >= mark[a]
      <4>1. plat'[a].gen = plat[a].gen
        BY <2>1 DEF Merged
      <4> QED BY <2>6, <3>3, <4>1 DEF NotOlder, Campaign, Gens
    <3>6. Gapless!Advance(a, q.batch)
      BY <2>4, <2>5, <3>1, <3>2, <3>4, <3>5 DEF Gapless!Advance
    <3> QED BY <2>3, <3>1, <3>6 DEF Gapless!Next
  <2> QED BY <2>7, <2>8
<1> QED BY <1>1, <1>2 DEF Apply

LEMMA GaplessStep ==
  ASSUME TypeOK, FeedInv, NotOvertaken, NoResetYet, NoResetYet', [Next]_vars
  PROVE  NotOvertaken' /\ [Gapless!Next]_(Gapless!vars)
<1>a. \A a \in Accounts, q \in Request :
        SafeReport(rows[a], plat[a], q) => q.gen = plat[a].gen
  BY BudgetAssumption DEF SafeReport, NoResetYet, Request, Gens
<1>b. CASE UNCHANGED <<rows, plat>>
  BY <1>b DEF NotOvertaken, Gapless!vars
<1>1. ASSUME NEW a \in Accounts, NEW r \in Row, LHInsert(a, r)
      PROVE  NotOvertaken' /\ Gapless!Next
  <2>1. Gapless!Appear(a, r)
    BY <1>1 DEF LHInsert, Gapless!Appear
  <2> QED BY <1>1, <2>1 DEF LHInsert, NotOvertaken, Gapless!Next
<1>2. ASSUME NEW a \in Accounts, NEW still \in BOOLEAN, Reset(a, still) PROVE FALSE
  <2>1. plat'[a].gen = plat[a].gen + 1
    BY <1>2 DEF Reset, TypeOK, Cleared
  <2> QED BY <2>1 DEF NoResetYet
<1>3. ASSUME NEW a \in Accounts, Serve(a)
      PROVE  NotOvertaken' /\ [Gapless!Next]_(Gapless!vars)
  <2>1. req[a] \in Request /\ SafeReport(rows[a], plat[a], req[a])
    BY DEF TypeOK, FeedInv
  <2> QED BY <1>3, <1>a, <2>1, ApplyAdvances DEF Serve
<1>4. ASSUME NEW m \in net, ServeLate(m)
      PROVE  NotOvertaken' /\ [Gapless!Next]_(Gapless!vars)
  <2>1. /\ m.account \in Accounts /\ m.report \in Request
        /\ SafeReport(rows[m.account], plat[m.account], m.report)
    BY DEF TypeOK, FeedInv, Late
  <2> QED BY <1>4, <1>a, <2>1, ApplyAdvances DEF ServeLate
<1>5. \/ UNCHANGED <<rows, plat>>
      \/ \E a \in Accounts, r \in Row : LHInsert(a, r)
      \/ \E a \in Accounts, still \in BOOLEAN : Reset(a, still)
      \/ \E a \in Accounts : Serve(a)
      \/ \E m \in net : ServeLate(m)
  <2>1. CASE Environment
    BY <2>1 DEF Environment
  <2>2. CASE Cycle
    BY <2>2 DEF Cycle, ServeBootstrap, ReceiveBootstrap, FailBootstrap, EndCycle
  <2>3. CASE \E a \in Accounts : Worker(a)
    BY <2>3 DEF Worker, FailRead, Build, Lookup, Read, FailRows, Receive, LoseAnswer,
                TimeOut, GiveUp
  <2>4. CASE \E S \in SUBSET Accounts : Crash(S)
    BY <2>4 DEF Crash
  <2>5. CASE UNCHANGED vars
    BY <2>5 DEF vars
  <2> QED BY <2>1, <2>2, <2>3, <2>4, <2>5 DEF Next
<1> QED BY <1>b, <1>1, <1>2, <1>3, <1>4, <1>5

\* As long as no cursor is reset the feed implements GaplessFeed: cycles, stale
\* mirrors, cut batches, repeated, late and lost reports and crashes are all
\* either invisible in what the platform holds or one gapless advance of it.
THEOREM FeedIsGapless == Spec /\ []NoResetYet => GaplessSpec
<1>1. Init => Gapless!Init /\ NotOvertaken
  BY GaplessInit
<1>2. Inductive /\ NotOvertaken /\ NoResetYet /\ NoResetYet' /\ [Next]_vars
        => NotOvertaken' /\ [Gapless!Next]_(Gapless!vars)
  BY GaplessStep DEF Inductive
<1> QED BY <1>1, <1>2, InductiveInvariant, PTL DEF Spec, GaplessSpec, Gapless!Spec

=============================================================================

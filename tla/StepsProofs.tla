---------------------------- MODULE StepsProofs ----------------------------
(***************************************************************************)
(* For any workflows, edits, waits and limits: no send of a step that has  *)
(* always been a message is lost; messages, funnel rows and sends of one   *)
(* version are numbered alike; the delay before a message is what LH waits *)
(* before it; the answers after a message are counted for it.              *)
(***************************************************************************)
EXTENDS Steps, SequenceTheorems, FiniteSetTheorems, WellFoundedInduction, TLAPS

\* The messages of a campaign are numbered, all of them.
LEMMA MessagesNumbered ==
  ASSUME NEW c, NEW a \in MessageActions(c)
  PROVE  a \in DOMAIN SeqMap(Stats(c))
<1>1. PICK i \in DOMAIN c.workflow : c.workflow[i] = a
  BY DEF MessageActions
<1>2. a \in Messaging /\ a \in c.bodies
  BY DEF MessageActions
<1>3. DOMAIN Stats(c) = DOMAIN c.workflow /\ Stats(c)[i] = StepStat(c, i)
  BY DEF Stats
<1>4. Stats(c)[i].action = a /\ Stats(c)[i].hasBody
  <2>1. StepStat(c, i).action = c.workflow[i]
    BY DEF StepStat
  <2>2. StepStat(c, i).hasBody <=> c.workflow[i] \in c.bodies
    BY Zenon DEF StepStat
  <2>. QED  BY <1>1, <1>2, <1>3, <2>1, <2>2
<1>5. IsMessage(Stats(c)[i])
  BY <1>2, <1>4 DEF IsMessage
<1>6. a \in {Stats(c)[k].action : k \in {j \in DOMAIN Stats(c) : IsMessage(Stats(c)[j])}}
  BY <1>3, <1>4, <1>5
<1>. QED  BY <1>6 DEF SeqMap

LEMMA NothingReadHasNoSeqs == DOMAIN NothingRead.seqs = {}
BY DEF NothingRead, NoSeqs

-----------------------------------------------------------------------------
(* Types *)

LEMMA InitTyped == Init => TypeOK
<1> SUFFICES ASSUME Init PROVE TypeOK
  OBVIOUS
<1>1. lh.version \in Nat /\ IsDesign(lh)
  BY DesignsAssumption DEF Init, IsDesign
<1>2. plat.known \in BOOLEAN /\ plat.version \in Nat /\ plat.sends = {} /\ plat.cursor = 0
  BY DEF Init
<1>3. read.version \in Nat /\ lasting \subseteq Messaging
  BY DEF Init, NothingRead, MessageActions
<1>. QED  BY <1>1, <1>2, <1>3, BoundsAssumption DEF Init, TypeOK

LEMMA TypeKeeps ==
  ASSUME TypeOK, [Next]_vars
  PROVE  TypeOK'
<1>1. ASSUME NEW d \in Designs, Edit(d) PROVE TypeOK'
  <2>1. lh'.version \in Nat /\ IsDesign(lh)'
    BY <1>1, DesignsAssumption DEF TypeOK, Edit, IsDesign
  <2>. QED  BY <1>1, <2>1 DEF TypeOK, Edit, Ids
<1>2. ASSUME NEW p \in People, NEW i \in DOMAIN lh.workflow, NEW replied \in BOOLEAN,
             Act(p, i, replied)
      PROVE  TypeOK'
  <2> DEFINE e == [person |-> p, action |-> lh.workflow[i], replied |-> replied]
  <2>1. e \in Result /\ results' = Append(results, e)
    BY <1>2 DEF TypeOK, IsDesign, Act, Result
  <2> HIDE DEF e
  <2>2. results' \in Seq(Result) /\ Len(results') = Len(results) + 1 /\ Len(results) \in Nat
    BY <2>1 DEF TypeOK
  <2>. QED  BY <1>2, <2>2 DEF TypeOK, Act, Ids, IsDesign
<1>3. ASSUME UNCHANGED <<lh, results, plat, lasting>>, read'.version \in Nat,
             pc' \in {"idle", "classify", "load", "report"}, faults' \in 0 .. MaxFaults
      PROVE  TypeOK'
  BY <1>3 DEF TypeOK, Ids, IsDesign
<1>4. ASSUME faults > 0, faults' = faults - 1 PROVE faults' \in 0 .. MaxFaults
  BY <1>4, BoundsAssumption DEF TypeOK
<1>5. CASE ReadCampaigns
  BY <1>3, <1>5 DEF ReadCampaigns, NothingRead, TypeOK
<1>6. CASE Classify
  <2>1. read' = NothingRead \/ read'.version = read.version
    BY <1>6 DEF Classify, NothingRead
  <2>2. read'.version \in Nat
    BY <2>1 DEF NothingRead, TypeOK
  <2>. QED  BY <1>3, <1>6, <2>2 DEF Classify, TypeOK
<1>7. CASE Load
  <2>1. read'.version = read.version
    BY <1>7 DEF Load
  <2>. QED  BY <1>3, <1>7, <2>1 DEF Load, TypeOK
<1>8. CASE FailClassify
  BY <1>3, <1>4, <1>8 DEF FailClassify, TypeOK
<1>9. CASE FailLoad
  BY <1>3, <1>4, <1>9 DEF FailLoad, TypeOK
<1>10. CASE FailReport
  BY <1>3, <1>4, <1>10 DEF FailReport, NothingRead, TypeOK
<1>11. ASSUME NEW S, S = Sends \/ S = {}, Apply(S), faults' \in 0 .. MaxFaults
       PROVE  TypeOK'
  <2>1. PICK c \in 0 .. Len(results) : plat' = Record(StoredWith(S), c)
    BY <1>11 DEF Apply
  <2>2. plat'.known = TRUE /\ plat'.sends = StoredWith(S) /\ plat'.cursor = c
    BY <2>1 DEF Record
  <2>3. plat'.version \in Nat
    BY <2>1 DEF Record, TypeOK
  <2>4. \A s \in Sends : s.id \in Ids
    BY DEF Sends, Batch
  <2>5. \A s \in StoredWith(S) : s.id \in Ids
    BY <1>11, <2>4 DEF StoredWith, TypeOK
  <2>6. UNCHANGED <<lh, results, lasting>> /\ pc' = "idle" /\ read' = NothingRead
    BY <1>11 DEF Apply
  <2>. QED  BY <1>11, <2>2, <2>3, <2>5, <2>6 DEF TypeOK, NothingRead, Ids, IsDesign
<1>12. CASE Report
  BY <1>11, <1>12 DEF Report, TypeOK
<1>13. CASE FailSends
  BY <1>4, <1>11, <1>13 DEF FailSends
<1>14. CASE UNCHANGED vars
  BY <1>3, <1>14 DEF vars, TypeOK
<1>. QED  BY <1>1, <1>2, <1>5, <1>6, <1>7, <1>8, <1>9, <1>10, <1>12, <1>13, <1>14
          DEF Next, LinkedHelper, Proceed, Fail

LEMMA InitLasting == Init => LastingInv
<1> SUFFICES ASSUME Init PROVE LastingInv
  OBVIOUS
<1>1. results = <<>> /\ Len(results) = 0 /\ plat.sends = {} /\ plat.cursor = 0
  BY DEF Init
<1>2. lasting = MessageActions(lh) /\ pc = "idle"
  BY DEF Init
<1>3. TypeOK
  BY InitTyped
<1>. QED  BY <1>1, <1>2, <1>3 DEF LastingInv, LastingSendsKept, Ids

-----------------------------------------------------------------------------
(* Linked Helper *)

\* An edit only makes fewer messages lasting.
LEMMA EditKeeps ==
  ASSUME LastingInv, TypeOK', NEW d \in Designs, Edit(d)
  PROVE  LastingInv'
<1>1. lasting' \subseteq MessageActions(lh)'
  BY DEF Edit, MessageActions
<1>2. lasting' \subseteq lasting /\ UNCHANGED <<results, plat, pc, read>>
  BY DEF Edit
<1>. QED  BY <1>1, <1>2 DEF LastingInv, LastingSendsKept, Ids, Stored

\* A result is appended behind the cursor.
LEMMA ActKeeps ==
  ASSUME LastingInv, TypeOK', NEW p \in People, NEW i \in DOMAIN lh.workflow, NEW replied \in BOOLEAN,
         Act(p, i, replied)
  PROVE  LastingInv'
<1> DEFINE e == [person |-> p, action |-> lh.workflow[i], replied |-> replied]
<1>1. results \in Seq(Result) /\ e \in Result /\ results' = Append(results, e)
  BY DEF LastingInv, TypeOK, IsDesign, Act, Result
<1> HIDE DEF e
<1>2. /\ results' \in Seq(Result) /\ Len(results') = Len(results) + 1 /\ Len(results) \in Nat
      /\ \A r \in 1 .. Len(results) : results'[r] = results[r]
  BY <1>1
<1>3. UNCHANGED <<lh, plat, pc, read, lasting>>
  BY DEF Act
<1>4. plat.cursor \in 0 .. Len(results)
  BY DEF LastingInv, TypeOK
<1>5. LastingSendsKept'
  BY <1>2, <1>3, <1>4 DEF LastingInv, LastingSendsKept, Ids, Stored
<1>6. (\A s \in plat.sends : s.id <= plat.cursor)'
  BY <1>2, <1>3, <1>4 DEF LastingInv, TypeOK, Ids
<1>7. (lasting \subseteq MessageActions(lh))'
  BY <1>3 DEF LastingInv, MessageActions
<1>. QED  BY <1>2, <1>3, <1>4, <1>5, <1>6, <1>7 DEF LastingInv

-----------------------------------------------------------------------------
(* syncAccount *)

\* Steps that change neither lh.db nor the platform.
LEMMA ReadingKeeps ==
  ASSUME LastingInv, TypeOK', UNCHANGED <<lh, results, plat, lasting>>,
         pc' # "idle" =>
           DOMAIN read'.seqs = {} \/ lasting \subseteq DOMAIN read'.seqs
  PROVE  LastingInv'
<1>1. (lasting \subseteq MessageActions(lh))'
  BY DEF LastingInv, MessageActions
<1>. QED  BY <1>1 DEF LastingInv, LastingSendsKept, Ids, Stored

\* The batch has everything between the old cursor and the newest row it sends.
LEMMA ApplyKeeps ==
  ASSUME LastingInv, TypeOK', pc = "report", NEW S, S = Sends \/ S = {}, Apply(S)
  PROVE  LastingInv'
<1> DEFINE all == StoredWith(S)
<1>0. PICK c \in 0 .. Len(results) : IsHighWater(c, all) /\ plat' = Record(all, c)
  BY DEF Apply
<1>1. IsHighWater(c, all) /\ plat'.sends = all /\ plat'.cursor = c
  BY <1>0 DEF Record
<1>2. UNCHANGED <<lh, results, lasting>> /\ pc' = "idle"
  BY DEF Apply
<1>3. results \in Seq(Result) /\ Len(results) \in Nat /\ Ids = 1 .. Len(results)
  BY DEF LastingInv, TypeOK, Ids
<1>4. ASSUME NEW s \in S
      PROVE  s.id \in Batch /\ results[s.id].action \in DOMAIN read.seqs
  <2>1. s \in Sends
    BY <1>4
  <2>. QED  BY <2>1 DEF Sends
<1>5. Batch \subseteq Ids
  BY DEF Batch
<1>6. \A s \in all : s.id \in Ids /\ s.id <= c
  BY <1>1, <1>4, <1>5 DEF IsHighWater, LastingInv, TypeOK, StoredWith
<1>7. ASSUME NEW i \in Ids, i <= c, results[i].action \in lasting
      PROVE  \E s \in all : s.id = i
  <2>1. CASE i <= plat.cursor
    BY <1>7, <2>1 DEF LastingInv, LastingSendsKept, Stored, StoredWith
  <2>2. CASE i > plat.cursor
    <3>1. PICK t \in all : t.id = c
      BY <1>1, <1>3, <1>7 DEF IsHighWater
    <3>2. c > plat.cursor /\ plat.cursor \in Nat
      BY <1>3, <1>7, <2>2 DEF LastingInv, TypeOK
    <3>3. t \in S
      BY <3>1, <3>2, <1>3 DEF LastingInv, TypeOK, StoredWith
    <3>4. c \in Batch /\ results[c].action \in DOMAIN read.seqs
      BY <3>1, <3>3, <1>4
    <3>5. i \in Batch
      BY <1>3, <1>7, <2>2, <3>2, <3>4, BoundsAssumption DEF Batch
    <3>6. results[i].action \in DOMAIN read.seqs
      BY <1>7, <3>4 DEF LastingInv
    <3> DEFINE u == [id |-> i, seq |-> read.seqs[results[i].action], of |-> read.statsOf]
    <3>7. u \in Sends /\ u.id = i
      BY <3>5, <3>6 DEF Sends
    <3>8. u \in S
      BY <3>3, <3>7
    <3>9. CASE i \in Stored
      BY <3>9 DEF Stored, StoredWith
    <3>10. CASE i \notin Stored
      BY <3>7, <3>8, <3>10 DEF StoredWith
    <3>. QED  BY <3>9, <3>10
  <2>. QED  BY <1>3, <2>1, <2>2 DEF LastingInv, TypeOK
<1>8. LastingSendsKept'
  BY <1>1, <1>2, <1>7 DEF LastingSendsKept, Ids, Stored
<1>9. (\A s \in plat.sends : s.id <= plat.cursor)'
  BY <1>1, <1>2, <1>6 DEF Ids
<1>10. (lasting \subseteq MessageActions(lh))'
  BY <1>2 DEF LastingInv, MessageActions
<1>11. plat'.cursor \in 0 .. Len(results)
  BY <1>1
<1>. QED  BY <1>2, <1>3, <1>8, <1>9, <1>10, <1>11 DEF LastingInv

LEMMA ProceedKeeps ==
  ASSUME LastingInv, TypeOK', Proceed
  PROVE  LastingInv'
<1>1. CASE ReadCampaigns
  <2>1. UNCHANGED <<lh, results, plat, lasting>> /\ DOMAIN read'.seqs = {}
    BY <1>1, NothingReadHasNoSeqs DEF ReadCampaigns, NothingRead
  <2>. QED  BY <2>1, ReadingKeeps
<1>2. CASE Classify
  <2>1. UNCHANGED <<lh, results, plat, lasting>>
    BY <1>2 DEF Classify
  <2>2. CASE read'.seqs = SeqMap(Stats(lh))
    <3>1. lasting \subseteq DOMAIN SeqMap(Stats(lh))
      BY MessagesNumbered DEF LastingInv
    <3>. QED  BY <2>1, <2>2, <3>1, ReadingKeeps
  <2>3. CASE pc' = "idle"
    BY <2>1, <2>3, ReadingKeeps
  <2>4. pc' = "idle" \/ read'.seqs = SeqMap(Stats(lh))
    BY <1>2 DEF Classify, NothingRead
  <2>. QED  BY <2>2, <2>3, <2>4
<1>3. CASE Load
  <2>1. UNCHANGED <<lh, results, plat, lasting>> /\ pc = "load" /\ read'.seqs = read.seqs
    BY <1>3 DEF Load
  <2>2. DOMAIN read'.seqs = {} \/ lasting \subseteq DOMAIN read'.seqs
    BY <2>1 DEF LastingInv
  <2>. QED  BY <2>1, <2>2, ReadingKeeps
<1>4. CASE Report
  <2>1. pc = "report" /\ (Apply(Sends) \/ Apply({}))
    BY <1>4 DEF Report
  <2>. QED  BY <2>1, ApplyKeeps
<1>. QED  BY <1>1, <1>2, <1>3, <1>4 DEF Proceed

LEMMA FailKeeps ==
  ASSUME LastingInv, TypeOK', Fail
  PROVE  LastingInv'
<1>1. CASE FailClassify
  <2>1. UNCHANGED <<lh, results, plat, read, lasting>> /\ pc = "classify"
    BY <1>1 DEF FailClassify
  <2>2. DOMAIN read'.seqs = {} \/ lasting \subseteq DOMAIN read'.seqs
    BY <2>1 DEF LastingInv
  <2>. QED  BY <2>1, <2>2, ReadingKeeps
<1>2. CASE FailLoad
  <2>1. UNCHANGED <<lh, results, plat, lasting>> /\ pc = "load" /\ read' = read
    BY <1>2 DEF FailLoad
  <2>2. DOMAIN read'.seqs = {} \/ lasting \subseteq DOMAIN read'.seqs
    BY <2>1 DEF LastingInv
  <2>. QED  BY <2>1, <2>2, ReadingKeeps
<1>3. CASE FailSends
  BY <1>3, ApplyKeeps DEF FailSends
<1>4. CASE FailReport
  <2>1. UNCHANGED <<lh, results, plat, lasting>> /\ pc' = "idle"
    BY <1>4 DEF FailReport
  <2>. QED  BY <2>1, ReadingKeeps
<1>. QED  BY <1>1, <1>2, <1>3, <1>4 DEF Fail

-----------------------------------------------------------------------------
LEMMA NextKeeps ==
  ASSUME LastingInv, [Next]_vars
  PROVE  LastingInv'
<1>0. TypeOK'
  BY TypeKeeps DEF LastingInv
<1>1. CASE LinkedHelper
  BY <1>0, <1>1, EditKeeps, ActKeeps DEF LinkedHelper
<1>2. CASE UNCHANGED vars
  BY <1>0, <1>2 DEF vars, LastingInv, LastingSendsKept, Ids, Stored, MessageActions
<1>. QED  BY <1>0, <1>1, <1>2, ProceedKeeps, FailKeeps DEF Next

\* The strengthening holds in every state.
THEOREM LastingInvariant == Spec => []LastingInv
<1>. QED  BY InitLasting, NextKeeps, PTL DEF Spec

\* Whatever the user makes of the workflow, the sends of a step that has been a
\* message in every version all reach the platform before the cursor passes them.
THEOREM SendsKept == Spec => []LastingSendsKept
<1>1. LastingInv => LastingSendsKept
  BY DEF LastingInv
<1>. QED  BY <1>1, LastingInvariant, PTL

-----------------------------------------------------------------------------
(* Induction.  The library's induction theorems take a predicate as a parameter;
   here it is a set, of those for which the predicate holds. *)

\* A set of naturals that is not empty has a least element.
LEMMA LeastNatural ==
  ASSUME NEW T, T \subseteq Nat, T # {}
  PROVE  \E x \in T : \A y \in T : x <= y
<1> DEFINE Below == {0 .. n : n \in T}
<1>1. Below # {} /\ \A n \in T : 0 .. n \in Below
  OBVIOUS
<1>2. Below \subseteq FiniteSubsetsOf(Nat)
  <2>1. \A n \in T : IsFiniteSet(0 .. n)
    BY FS_Interval
  <2>. QED  BY <2>1 DEF FiniteSubsetsOf
<1>3. PICK I \in Below : \A J \in Below : <<J, I>> \notin StrictSubsetOrdering(Nat)
  <2> HIDE DEF Below
  <2>. QED  BY <1>1, <1>2, FS_StrictSubsetOrderingWellFounded, WFMin
<1>4. PICK x \in T : I = 0 .. x
  OBVIOUS
<1>5. ASSUME NEW y \in T, ~(x <= y) PROVE FALSE
  <2>1. 0 .. y \subseteq 0 .. x /\ 0 .. y # 0 .. x
    BY <1>5
  <2>2. <<0 .. y, 0 .. x>> \in (SUBSET Nat) \X (SUBSET Nat)
    BY <1>5
  <2>3. <<0 .. y, 0 .. x>> \in StrictSubsetOrdering(Nat)
    BY <2>1, <2>2 DEF StrictSubsetOrdering
  <2>. QED  BY <1>1, <1>3, <1>4, <1>5, <2>3
<1>. QED  BY <1>5

\* Induction over 0 .. N, for the set S of those that have the property.
LEMMA UpTo ==
  ASSUME NEW N \in Nat, NEW S, 0 \in S,
         \A n \in 1 .. N : n - 1 \in S => n \in S
  PROVE  0 .. N \subseteq S
<1> DEFINE T == {n \in 0 .. N : n \notin S}
<1>1. SUFFICES ASSUME T # {} PROVE FALSE
  OBVIOUS
<1>2. PICK x \in T : \A y \in T : x <= y
  <2>1. T \subseteq Nat
    OBVIOUS
  <2> HIDE DEF T
  <2>. QED  BY <1>1, <2>1, LeastNatural
<1>3. x \in 0 .. N /\ x \notin S
  OBVIOUS
<1>4. x \in 1 .. N /\ x - 1 \in 0 .. N /\ x - 1 < x
  BY <1>3
<1>5. x - 1 \in S
  BY <1>2, <1>4
<1>. QED  BY <1>3, <1>4, <1>5

\* f is the function of 0 .. N that its first value and its steps make, in V.
StepsIn(V, N) == [1 .. N -> [V -> V]]
Recursion(f, N, V, first, step) ==
  f \in [0 .. N -> V] /\ f[0] = first /\ \A n \in 1 .. N : f[n] = step[n][f[n - 1]]

LEMMA RecursionExists ==
  ASSUME NEW N, N \in Nat, NEW V, NEW first, first \in V, NEW step, step \in StepsIn(V, N)
  PROVE  \E f : Recursion(f, N, V, first, step)
<1>0. step \in [1 .. N -> [V -> V]]
  BY DEF StepsIn
<1> DEFINE Makes(f, m) == f[0] = first /\ \A n \in 1 .. m : f[n] = step[n][f[n - 1]]
           S == {m \in 0 .. N : \E f \in [0 .. m -> V] : Makes(f, m)}
<1>1. 0 \in S
  <2> DEFINE f == [n \in 0 .. 0 |-> first]
  <2>1. f \in [0 .. 0 -> V] /\ f[0] = first /\ \A n \in 1 .. 0 : FALSE
    OBVIOUS
  <2> HIDE DEF f
  <2>2. Makes(f, 0)
    BY <2>1
  <2>. QED  BY <2>1, <2>2
<1>2. ASSUME NEW m \in 1 .. N, m - 1 \in S PROVE m \in S
  <2>1. PICK f \in [0 .. m - 1 -> V] : Makes(f, m - 1)
    BY <1>2
  <2> DEFINE last == step[m][f[m - 1]]
             g == [n \in 0 .. m |-> IF n = m THEN last ELSE f[n]]
  <2>2. m \in Nat /\ m >= 1 /\ m - 1 \in 0 .. m - 1 /\ 0 \in 0 .. m - 1 /\ 0 # m
    BY <1>2
  <2>3. last \in V
    BY <2>1, <2>2, <1>0
  <2> HIDE DEF last
  <2>4. \A n \in 0 .. m : n # m => n \in 0 .. m - 1
    BY <2>2
  <2>5. g \in [0 .. m -> V]
    BY <2>3, <2>4
  <2>6. g[m] = last /\ \A n \in 0 .. m - 1 : g[n] = f[n]
    BY <2>2
  <2> HIDE DEF g
  <2>7. g[0] = first
    BY <2>1, <2>2, <2>6
  <2>8. ASSUME NEW n \in 1 .. m PROVE g[n] = step[n][g[n - 1]]
    <3>1. CASE n = m
      BY <2>2, <2>6, <3>1 DEF last
    <3>2. CASE n # m
      <4>1. n \in 1 .. m - 1 /\ n - 1 \in 0 .. m - 1 /\ n \in 0 .. m - 1
        BY <2>2, <3>2
      <4>. QED  BY <2>1, <2>6, <4>1
    <3>. QED  BY <3>1, <3>2
  <2>9. Makes(g, m) /\ m \in 0 .. N
    BY <2>7, <2>8
  <2>. QED  BY <2>5, <2>9
<1>3. 0 .. N \subseteq S
  <2> HIDE DEF S
  <2>. QED  BY <1>1, <1>2, UpTo
<1>4. N \in S
  <2> HIDE DEF S
  <2>. QED  BY <1>3
<1>. QED  BY <1>4 DEF Recursion

LEMMA ValuesIn ==
  ASSUME NEW N, N \in Nat, NEW V, NEW f, f[0] \in V,
         \A n \in 1 .. N : f[n - 1] \in V => f[n] \in V
  PROVE  \A n \in 0 .. N : f[n] \in V
<1> DEFINE S == {n \in 0 .. N : f[n] \in V}
<1>1. 0 \in S
  OBVIOUS
<1>2. ASSUME NEW n \in 1 .. N, n - 1 \in S PROVE n \in S
  BY <1>2
<1>3. 0 .. N \subseteq S
  <2> HIDE DEF S
  <2>. QED  BY <1>1, <1>2, UpTo
<1>. QED  BY <1>3

-----------------------------------------------------------------------------
(* Numbering the members of a set of steps *)

\* How many of the first n steps are in M: the number of step n, if it is one.
Num(M, n) == Cardinality({j \in 1 .. n : j \in M})

LEMMA NumFirst ==
  ASSUME NEW M
  PROVE  Num(M, 0) = 0
<1>1. {j \in 1 .. 0 : j \in M} = {}
  OBVIOUS
<1>. QED  BY <1>1, FS_EmptySet DEF Num

LEMMA UpFinite ==
  ASSUME NEW M, NEW n \in Nat
  PROVE  IsFiniteSet({j \in 1 .. n : j \in M})
<1> DEFINE S == {j \in 1 .. n : j \in M}
           I == 1 .. n
<1>1. IsFiniteSet(I)
  BY FS_Interval
<1>2. S \subseteq I
  OBVIOUS
<1>3. IsFiniteSet(S)
  <2> HIDE DEF S, I
  <2>. QED  BY <1>1, <1>2, FS_Subset
<1>. QED  BY <1>3

LEMMA NumType ==
  ASSUME NEW M, NEW n \in Nat
  PROVE  Num(M, n) \in Nat
<1>1. IsFiniteSet({j \in 1 .. n : j \in M})
  BY UpFinite
<1>. QED  BY <1>1, FS_CardinalityType DEF Num

LEMMA NumStep ==
  ASSUME NEW M, NEW n \in Nat, n > 0
  PROVE  /\ n \in M => Num(M, n) = Num(M, n - 1) + 1
         /\ n \notin M => Num(M, n) = Num(M, n - 1)
<1> DEFINE Up(m) == {j \in 1 .. m : j \in M}
<1>1. IsFiniteSet(Up(n - 1)) /\ n \notin Up(n - 1)
  <2>1. n - 1 \in Nat /\ n \notin Up(n - 1)
    OBVIOUS
  <2>. QED  BY <2>1, UpFinite
<1>2. n \in M => Up(n) = Up(n - 1) \cup {n}
  OBVIOUS
<1>3. n \notin M => Up(n) = Up(n - 1)
  OBVIOUS
<1>4. \A m : Num(M, m) = Cardinality(Up(m))
  BY DEF Num
<1> HIDE DEF Up
<1>5. Cardinality(Up(n - 1) \cup {n}) = Cardinality(Up(n - 1)) + 1
  BY <1>1, FS_AddElement
<1>. QED  BY <1>2, <1>3, <1>4, <1>5

\* Numbers grow along the steps, and at each member.
LEMMA NumGrows ==
  ASSUME NEW M, NEW m \in Nat, NEW N \in Nat
  PROVE  \A n \in 0 .. N : m < n => Num(M, m) <= Num(M, n) /\ (n \in M => Num(M, m) < Num(M, n))
<1> DEFINE S == {n \in 0 .. N : m < n =>
                   Num(M, m) <= Num(M, n) /\ (n \in M => Num(M, m) < Num(M, n))}
<1>1. 0 \in S
  OBVIOUS
<1>2. ASSUME NEW n \in 1 .. N, n - 1 \in S PROVE n \in S
  <2>1. n \in Nat /\ n > 0 /\ n - 1 \in Nat /\ n \in 0 .. N
    OBVIOUS
  <2>2. Num(M, m) \in Nat /\ Num(M, n) \in Nat /\ Num(M, n - 1) \in Nat
    BY <2>1, NumType
  <2>3. /\ n \in M => Num(M, n) = Num(M, n - 1) + 1
        /\ n \notin M => Num(M, n) = Num(M, n - 1)
    BY <2>1, NumStep
  <2>4. m < n - 1 => Num(M, m) <= Num(M, n - 1)
    BY <1>2
  <2>5. m < n => m = n - 1 \/ m < n - 1
    BY <2>1
  <2>6. m < n => Num(M, m) <= Num(M, n - 1)
    BY <2>2, <2>4, <2>5
  <2>7. m < n => Num(M, m) <= Num(M, n) /\ (n \in M => Num(M, m) < Num(M, n))
    BY <2>2, <2>3, <2>6
  <2>. QED  BY <2>1, <2>7
<1>3. 0 .. N \subseteq S
  <2> HIDE DEF S
  <2>. QED  BY <1>1, <1>2, UpTo
<1>. QED  BY <1>3

\* Every number up to the last is that of a member.
LEMMA NumOnto ==
  ASSUME NEW M, NEW N \in Nat
  PROVE  \A k \in 1 .. Num(M, N) : \E i \in 1 .. N : i \in M /\ Num(M, i) = k
<1> DEFINE S == {n \in 0 .. N :
                   \A k \in 1 .. Num(M, n) : \E i \in 1 .. n : i \in M /\ Num(M, i) = k}
<1>1. 0 \in S
  BY NumFirst
<1>2. ASSUME NEW n \in 1 .. N, n - 1 \in S PROVE n \in S
  <2>1. n \in Nat /\ n > 0 /\ n - 1 \in Nat /\ n \in 0 .. N /\ 1 .. n - 1 \subseteq 1 .. n /\ n \in 1 .. n
    OBVIOUS
  <2>2. Num(M, n) \in Nat /\ Num(M, n - 1) \in Nat
    BY <2>1, NumType
  <2>3. /\ n \in M => Num(M, n) = Num(M, n - 1) + 1
        /\ n \notin M => Num(M, n) = Num(M, n - 1)
    BY <2>1, NumStep
  <2>4. \A k \in 1 .. Num(M, n - 1) : \E i \in 1 .. n : i \in M /\ Num(M, i) = k
    BY <1>2, <2>1
  <2>5. ASSUME NEW k \in 1 .. Num(M, n) PROVE \E i \in 1 .. n : i \in M /\ Num(M, i) = k
    <3>1. k \in 1 .. Num(M, n - 1) \/ (n \in M /\ k = Num(M, n))
      BY <2>2, <2>3
    <3>. QED  BY <2>1, <2>4, <3>1
  <2>. QED  BY <2>1, <2>5
<1>3. 0 .. N \subseteq S
  <2> HIDE DEF S
  <2>. QED  BY <1>1, <1>2, UpTo
<1>4. N \in S
  <2> HIDE DEF S
  <2>. QED  BY <1>3
<1>. QED  BY <1>4

\* seq lists the steps of w that are in M, as far as step n.
Lists(w, M, n, seq) ==
  /\ Len(seq) = Num(M, n)
  /\ \A i \in 1 .. n : i \in M => seq[Num(M, i)].action = w[i]

\* Members have their numbers within the list.
LEMMA NumWithin ==
  ASSUME NEW M, NEW n \in Nat, NEW i \in 1 .. n, i \in M
  PROVE  Num(M, i) \in 1 .. Num(M, n)
<1>1. i \in Nat /\ i > 0 /\ i - 1 \in Nat /\ n \in 0 .. n /\ (i = n \/ i < n)
  OBVIOUS
<1>2. Num(M, i) \in Nat /\ Num(M, n) \in Nat /\ Num(M, i - 1) \in Nat
  BY <1>1, NumType
<1>3. Num(M, i) = Num(M, i - 1) + 1
  BY <1>1, NumStep
<1>4. i < n => Num(M, i) <= Num(M, n)
  BY <1>1, NumGrows
<1>. QED  BY <1>1, <1>2, <1>3, <1>4

LEMMA ListNothing ==
  ASSUME NEW w, NEW M
  PROVE  Lists(w, M, 0, <<>>)
BY NumFirst DEF Lists

LEMMA ListMember ==
  ASSUME NEW w, NEW M, NEW n \in Nat, n > 0, n \in M, NEW V, NEW seq \in Seq(V),
         Lists(w, M, n - 1, seq), NEW e \in V, e.action = w[n]
  PROVE  Lists(w, M, n, Append(seq, e))
<1>1. n - 1 \in Nat /\ Num(M, n) = Num(M, n - 1) + 1
  BY NumStep
<1>2. Num(M, n) \in Nat /\ Num(M, n - 1) \in Nat
  BY <1>1, NumType
<1>3. Len(seq) = Num(M, n - 1)
  BY DEF Lists
<1> DEFINE t == Append(seq, e)
<1>4. Len(t) = Num(M, n) /\ t[Num(M, n)] = e /\ \A k \in 1 .. Num(M, n - 1) : t[k] = seq[k]
  BY <1>1, <1>2, <1>3
<1> HIDE DEF t
<1>5. ASSUME NEW i \in 1 .. n, i \in M PROVE t[Num(M, i)].action = w[i]
  <2>1. CASE i = n
    BY <1>4, <2>1
  <2>2. CASE i # n
    <3>1. i \in 1 .. n - 1
      BY <2>2
    <3>2. Num(M, i) \in 1 .. Num(M, n - 1)
      BY <1>1, <1>5, <3>1, NumWithin
    <3>. QED  BY <1>4, <1>5, <3>1, <3>2 DEF Lists
  <2>. QED  BY <2>1, <2>2
<1>6. Lists(w, M, n, t)
  BY <1>4, <1>5 DEF Lists
<1>. QED  BY <1>6 DEF t

LEMMA ListOther ==
  ASSUME NEW w, NEW M, NEW n \in Nat, n > 0, n \notin M, NEW seq, NEW t, Lists(w, M, n - 1, seq),
         Len(t) = Len(seq), \A k \in 1 .. Len(seq) : t[k].action = seq[k].action
  PROVE  Lists(w, M, n, t)
<1>1. n - 1 \in Nat /\ Num(M, n) = Num(M, n - 1)
  BY NumStep
<1>2. ASSUME NEW i \in 1 .. n, i \in M PROVE t[Num(M, i)].action = w[i]
  <2>1. i \in 1 .. n - 1
    BY <1>2
  <2>2. Num(M, i) \in 1 .. Num(M, n - 1)
    BY <1>1, <1>2, <2>1, NumWithin
  <2>. QED  BY <1>2, <2>1, <2>2 DEF Lists
<1>. QED  BY <1>1, <1>2 DEF Lists

\* Two lists of the same members agree.
LEMMA ListsAgree ==
  ASSUME NEW w, NEW M, NEW n \in Nat, NEW s, NEW t, Lists(w, M, n, s), Lists(w, M, n, t)
  PROVE  /\ Len(s) = Len(t)
         /\ \A k \in 1 .. Len(s) : s[k].action = t[k].action
<1>1. ASSUME NEW k \in 1 .. Len(s) PROVE s[k].action = t[k].action
  <2>1. k \in 1 .. Num(M, n)
    BY DEF Lists
  <2>2. PICK i \in 1 .. n : i \in M /\ Num(M, i) = k
    BY <2>1, NumOnto
  <2>. QED  BY <2>2 DEF Lists
<1>. QED  BY <1>1 DEF Lists

-----------------------------------------------------------------------------
(* The walks, step by step *)

Stat == [action : Actions, hasBody : BOOLEAN, sent : Nat, replied : Nat]
FunnelRow == [action : Actions, sent : Nat, replied : Nat]

\* What FunnelSteps makes of its rows at the next step.
WithStep(before, s) ==
  IF IsMessage(s)
    THEN Append(before, [action |-> s.action, sent |-> s.sent, replied |-> s.replied])
  ELSE IF s.action \notin Messaging /\ Len(before) > 0
    THEN [before EXCEPT ![Len(before)].replied = @ + s.replied]
  ELSE before

LEMMA AddReplies ==
  ASSUME NEW r \in FunnelRow, NEW m \in Nat
  PROVE  [r EXCEPT !.replied = @ + m] \in FunnelRow
<1>1. r.replied + m \in Nat
  BY DEF FunnelRow
<1> DEFINE k == r.replied + m
<1> HIDE DEF k
<1>2. [r EXCEPT !.replied = k] \in FunnelRow
  BY <1>1 DEF FunnelRow, k
<1>. QED  BY <1>2 DEF k

\* Replies are added to the last row; the rows stay those of their steps.
LEMMA AddedRow ==
  ASSUME NEW before \in Seq(FunnelRow), Len(before) > 0, NEW m \in Nat, NEW rows,
         rows = [before EXCEPT ![Len(before)].replied = @ + m]
  PROVE  /\ rows \in Seq(FunnelRow) /\ Len(rows) = Len(before)
         /\ \A k \in 1 .. Len(before) : rows[k].action = before[k].action
         /\ \A k \in 1 .. Len(before) :
              rows[k].replied = IF k = Len(before) THEN before[k].replied + m ELSE before[k].replied
<1> DEFINE last == Len(before)
           r == [before[last] EXCEPT !.replied = @ + m]
<1>1. last \in 1 .. Len(before) /\ before[last] \in FunnelRow
  OBVIOUS
<1>2. r \in FunnelRow
  BY <1>1, AddReplies
<1>3. r.action = before[last].action /\ r.replied = before[last].replied + m
  BY <1>1 DEF FunnelRow
<1> HIDE DEF r
<1>4. rows = [before EXCEPT ![last] = r]
  BY DEF r
<1> HIDE DEF last
<1>5. rows \in Seq(FunnelRow) /\ Len(rows) = Len(before)
  BY <1>1, <1>2, <1>4
<1>6. \A k \in 1 .. Len(before) : rows[k] = IF k = last THEN r ELSE before[k]
  BY <1>1, <1>4
<1>. QED  BY <1>3, <1>5, <1>6 DEF last

LEMMA WithStepType ==
  ASSUME NEW before \in Seq(FunnelRow), NEW s \in Stat
  PROVE  WithStep(before, s) \in Seq(FunnelRow)
<1>0. s.action \in Actions /\ s.sent \in Nat /\ s.replied \in Nat
  BY DEF Stat
<1>1. [action |-> s.action, sent |-> s.sent, replied |-> s.replied] \in FunnelRow
  BY <1>0 DEF FunnelRow
<1>2. ASSUME Len(before) > 0
      PROVE  [before EXCEPT ![Len(before)].replied = @ + s.replied] \in Seq(FunnelRow)
  BY <1>0, <1>2, AddedRow
<1> DEFINE row == [action |-> s.action, sent |-> s.sent, replied |-> s.replied]
<1>3. Append(before, row) \in Seq(FunnelRow)
  <2>1. row \in FunnelRow
    BY <1>1
  <2> HIDE DEF row
  <2>. QED  BY <2>1
<1>. QED  BY <1>2, <1>3 DEF WithStep

\* The rows after each step, the function FunnelSteps takes the last value of.
FunnelRows(stats) ==
  LET rows[n \in 0 .. Len(stats)] ==
        IF n = 0 THEN <<>>
        ELSE LET s == stats[n]
                 before == rows[n - 1]
                 last == Len(before)
             IN IF IsMessage(s)
                  THEN Append(before, [action |-> s.action, sent |-> s.sent,
                                       replied |-> s.replied])
                ELSE IF s.action \notin Messaging /\ last > 0
                  THEN [before EXCEPT ![last].replied = @ + s.replied]
                ELSE before
  IN rows

LEMMA FunnelWalk ==
  ASSUME NEW stats \in Seq(Stat)
  PROVE  /\ FunnelSteps(stats) = FunnelRows(stats)[Len(stats)]
         /\ FunnelRows(stats)[0] = <<>>
         /\ \A n \in 0 .. Len(stats) : FunnelRows(stats)[n] \in Seq(FunnelRow)
         /\ \A n \in 1 .. Len(stats) :
              FunnelRows(stats)[n] = WithStep(FunnelRows(stats)[n - 1], stats[n])
<1> DEFINE N == Len(stats)
           V == Seq(FunnelRow)
           T == FunnelRows(stats)
           step == [n \in 1 .. N |-> [v \in V |-> WithStep(v, stats[n])]]
<1>0. N \in Nat /\ <<>> \in V /\ FunnelSteps(stats) = T[N]
  BY DEF FunnelSteps, FunnelRows
<1>1. \A v \in V, n \in 1 .. N : WithStep(v, stats[n]) \in V
  <2>1. \A n \in 1 .. N : stats[n] \in Stat
    OBVIOUS
  <2> HIDE DEF N
  <2>. QED  BY <2>1, WithStepType
<1> HIDE DEF N, V
<1>2. step \in StepsIn(V, N) /\ \A v \in V, n \in 1 .. N : step[n][v] = WithStep(v, stats[n])
  BY <1>1 DEF StepsIn
<1> HIDE DEF step
<1>3. PICK f : Recursion(f, N, V, <<>>, step)
  BY <1>0, <1>2, RecursionExists
<1>4. \A n \in 1 .. N : n - 1 \in 0 .. N /\ n \in 0 .. N /\ n # 0
  BY <1>0
<1>5. \A n \in 0 .. N : n = 0 \/ n \in 1 .. N
  BY <1>0
<1>6. f = [n \in 0 .. N |-> f[n]] /\ f[0] = <<>> /\ \A n \in 0 .. N : f[n] \in V
  BY <1>0, <1>3 DEF Recursion
<1>7. \A n \in 1 .. N : f[n] = WithStep(f[n - 1], stats[n])
  BY <1>2, <1>3, <1>4 DEF Recursion
<1>8. f = [n \in 0 .. N |-> IF n = 0 THEN <<>> ELSE WithStep(f[n - 1], stats[n])]
  BY <1>5, <1>6, <1>7
<1>9. T = [n \in 0 .. N |-> IF n = 0 THEN <<>> ELSE WithStep(T[n - 1], stats[n])]
  BY <1>8, Zenon DEF FunnelRows, WithStep, N
<1> HIDE DEF T
<1>10. T[0] = <<>> /\ \A n \in 1 .. N : T[n] = WithStep(T[n - 1], stats[n])
  BY <1>0, <1>4, <1>9
<1>11. \A n \in 0 .. N : T[n] \in V
  <2>1. \A n \in 1 .. N : T[n - 1] \in V => T[n] \in V
    BY <1>1, <1>10
  <2>. QED  BY <1>0, <1>10, <2>1, ValuesIn
<1>. QED  BY <1>0, <1>10, <1>11 DEF T, N, V

\* What BuildActions has pending after each row.
Pending(rows) ==
  LET pending[n \in 0 .. Len(rows)] ==
        IF n = 0 THEN 0
        ELSE IF rows[n].action \in Messaging THEN 0
        ELSE pending[n - 1] + WaitMs[rows[n].action]
  IN pending

\* The same after a row, of what was pending before it.
WithWait(ms, a) == IF a \in Messaging THEN 0 ELSE ms + WaitMs[a]

LEMMA WaitsTyped == \A a \in Actions : WaitMs[a] \in Nat
BY ActionsAssumption

LEMMA PendingWalk ==
  ASSUME NEW rows, Len(rows) \in Nat, \A i \in 1 .. Len(rows) : rows[i].action \in Actions
  PROVE  /\ Pending(rows)[0] = 0
         /\ \A n \in 0 .. Len(rows) : Pending(rows)[n] \in Nat
         /\ \A n \in 1 .. Len(rows) :
              Pending(rows)[n] = WithWait(Pending(rows)[n - 1], rows[n].action)
<1> DEFINE N == Len(rows)
           T == Pending(rows)
           step == [n \in 1 .. N |-> [v \in Nat |-> WithWait(v, rows[n].action)]]
<1>0. N \in Nat
  OBVIOUS
<1>1. \A v \in Nat, n \in 1 .. N : WithWait(v, rows[n].action) \in Nat
  BY WaitsTyped DEF WithWait
<1> HIDE DEF N
<1>2. step \in StepsIn(Nat, N) /\ \A v \in Nat, n \in 1 .. N : step[n][v] = WithWait(v, rows[n].action)
  BY <1>1 DEF StepsIn
<1> HIDE DEF step
<1>3. PICK f : Recursion(f, N, Nat, 0, step)
  BY <1>0, <1>2, RecursionExists
<1>4. \A n \in 1 .. N : n - 1 \in 0 .. N /\ n \in 0 .. N /\ n # 0
  BY <1>0
<1>5. \A n \in 0 .. N : n = 0 \/ n \in 1 .. N
  BY <1>0
<1>6. f = [n \in 0 .. N |-> f[n]] /\ f[0] = 0 /\ \A n \in 0 .. N : f[n] \in Nat
  BY <1>0, <1>3 DEF Recursion
<1>7. \A n \in 1 .. N : f[n] = WithWait(f[n - 1], rows[n].action)
  BY <1>2, <1>3, <1>4 DEF Recursion
<1>8. f = [n \in 0 .. N |-> IF n = 0 THEN 0 ELSE WithWait(f[n - 1], rows[n].action)]
  BY <1>5, <1>6, <1>7
<1>9. T = [n \in 0 .. N |-> IF n = 0 THEN 0 ELSE WithWait(T[n - 1], rows[n].action)]
  BY <1>8, Zenon DEF Pending, WithWait, N
<1> HIDE DEF T
<1>10. T[0] = 0 /\ \A n \in 1 .. N : T[n] = WithWait(T[n - 1], rows[n].action)
  BY <1>0, <1>4, <1>9
<1>11. \A n \in 0 .. N : T[n] \in Nat
  <2> DEFINE V == Nat
  <2>1. T[0] \in V /\ \A n \in 1 .. N : T[n - 1] \in V => T[n] \in V
    BY <1>1, <1>10
  <2> HIDE DEF V
  <2>2. \A n \in 0 .. N : T[n] \in V
    BY <1>0, <2>1, ValuesIn
  <2>. QED  BY <2>2 DEF V
<1>. QED  BY <1>10, <1>11 DEF T, N

\* Elapsed, of any workflow.
ElapsedOf(w) ==
  LET ms[n \in 0 .. Len(w)] ==
        IF n = 0 THEN 0 ELSE ms[n - 1] + WaitMs[w[n]]
  IN ms

LEMMA ElapsedWalk ==
  ASSUME NEW w \in Seq(Actions)
  PROVE  /\ ElapsedOf(w)[0] = 0
         /\ \A n \in 0 .. Len(w) : ElapsedOf(w)[n] \in Nat
         /\ \A n \in 1 .. Len(w) : ElapsedOf(w)[n] = ElapsedOf(w)[n - 1] + WaitMs[w[n]]
<1> DEFINE N == Len(w)
           T == ElapsedOf(w)
           Then(v, n) == v + WaitMs[w[n]]
           step == [n \in 1 .. N |-> [v \in Nat |-> Then(v, n)]]
<1>0. N \in Nat
  OBVIOUS
<1>1. \A v \in Nat, n \in 1 .. N : Then(v, n) \in Nat
  <2>1. \A n \in 1 .. N : WaitMs[w[n]] \in Nat
    BY WaitsTyped
  <2> HIDE DEF N
  <2>. QED  BY <2>1
<1> HIDE DEF N, Then
<1>2. step \in StepsIn(Nat, N) /\ \A v \in Nat, n \in 1 .. N : step[n][v] = Then(v, n)
  BY <1>1 DEF StepsIn
<1> HIDE DEF step
<1>3. PICK f : Recursion(f, N, Nat, 0, step)
  BY <1>0, <1>2, RecursionExists
<1>4. \A n \in 1 .. N : n - 1 \in 0 .. N /\ n \in 0 .. N /\ n # 0
  BY <1>0
<1>5. \A n \in 0 .. N : n = 0 \/ n \in 1 .. N
  BY <1>0
<1>6. f = [n \in 0 .. N |-> f[n]] /\ f[0] = 0 /\ \A n \in 0 .. N : f[n] \in Nat
  BY <1>0, <1>3 DEF Recursion
<1>7. \A n \in 1 .. N : f[n] = Then(f[n - 1], n)
  BY <1>2, <1>3, <1>4 DEF Recursion
<1>8. f = [n \in 0 .. N |-> IF n = 0 THEN 0 ELSE Then(f[n - 1], n)]
  BY <1>5, <1>6, <1>7
<1>9. T = [n \in 0 .. N |-> IF n = 0 THEN 0 ELSE Then(T[n - 1], n)]
  BY <1>8, Zenon DEF ElapsedOf, Then, N
<1> HIDE DEF T
<1>10. T[0] = 0 /\ \A n \in 1 .. N : T[n] = Then(T[n - 1], n)
  BY <1>0, <1>4, <1>9
<1>11. \A n \in 0 .. N : T[n] \in Nat
  <2> DEFINE V == Nat
  <2>1. T[0] \in V /\ \A n \in 1 .. N : T[n - 1] \in V => T[n] \in V
    BY <1>1, <1>10
  <2> HIDE DEF V
  <2>2. \A n \in 0 .. N : T[n] \in V
    BY <1>0, <2>1, ValuesIn
  <2>. QED  BY <2>2 DEF V
<1>. QED  BY <1>10, <1>11 DEF T, N, Then

\* What MessagesOf has kept after each action.
Kept(actions) ==
  LET kept[n \in 0 .. Len(actions)] ==
        IF n = 0 THEN <<>>
        ELSE IF actions[n].action \in Messaging /\ actions[n].hasBody
          THEN Append(kept[n - 1], actions[n])
        ELSE kept[n - 1]
  IN kept

WithAction(kept, r) ==
  IF r.action \in Messaging /\ r.hasBody THEN Append(kept, r) ELSE kept

LEMMA KeptWalk ==
  ASSUME NEW B, NEW actions \in Seq(B)
  PROVE  /\ MessagesOf(actions) = Kept(actions)[Len(actions)]
         /\ Kept(actions)[0] = <<>>
         /\ \A n \in 0 .. Len(actions) : Kept(actions)[n] \in Seq(B)
         /\ \A n \in 1 .. Len(actions) : Kept(actions)[n] = WithAction(Kept(actions)[n - 1], actions[n])
<1> DEFINE N == Len(actions)
           V == Seq(B)
           T == Kept(actions)
           step == [n \in 1 .. N |-> [v \in V |-> WithAction(v, actions[n])]]
<1>0. N \in Nat /\ <<>> \in V /\ MessagesOf(actions) = T[N]
  BY DEF MessagesOf, Kept
<1>1. \A v \in V, n \in 1 .. N : WithAction(v, actions[n]) \in V
  <2>1. \A n \in 1 .. N : actions[n] \in B
    OBVIOUS
  <2> HIDE DEF N
  <2>. QED  BY <2>1 DEF WithAction
<1> HIDE DEF N, V
<1>2. step \in StepsIn(V, N) /\ \A v \in V, n \in 1 .. N : step[n][v] = WithAction(v, actions[n])
  BY <1>1 DEF StepsIn
<1> HIDE DEF step
<1>3. PICK f : Recursion(f, N, V, <<>>, step)
  BY <1>0, <1>2, RecursionExists
<1>4. \A n \in 1 .. N : n - 1 \in 0 .. N /\ n \in 0 .. N /\ n # 0
  BY <1>0
<1>5. \A n \in 0 .. N : n = 0 \/ n \in 1 .. N
  BY <1>0
<1>6. f = [n \in 0 .. N |-> f[n]] /\ f[0] = <<>> /\ \A n \in 0 .. N : f[n] \in V
  BY <1>0, <1>3 DEF Recursion
<1>7. \A n \in 1 .. N : f[n] = WithAction(f[n - 1], actions[n])
  BY <1>2, <1>3, <1>4 DEF Recursion
<1>8. f = [n \in 0 .. N |-> IF n = 0 THEN <<>> ELSE WithAction(f[n - 1], actions[n])]
  BY <1>5, <1>6, <1>7
<1>9. T = [n \in 0 .. N |-> IF n = 0 THEN <<>> ELSE WithAction(T[n - 1], actions[n])]
  BY <1>8, Zenon DEF Kept, WithAction, N
<1> HIDE DEF T
<1>10. T[0] = <<>> /\ \A n \in 1 .. N : T[n] = WithAction(T[n - 1], actions[n])
  BY <1>0, <1>4, <1>9
<1>11. \A n \in 0 .. N : T[n] \in V
  <2>1. \A n \in 1 .. N : T[n - 1] \in V => T[n] \in V
    BY <1>1, <1>10
  <2>. QED  BY <1>0, <1>10, <2>1, ValuesIn
<1>. QED  BY <1>0, <1>10, <1>11 DEF T, N, V

-----------------------------------------------------------------------------
(* What the walks list *)

\* The steps of a campaign that are messages.
MessageSteps(c) ==
  {i \in DOMAIN c.workflow : c.workflow[i] \in Messaging /\ c.workflow[i] \in c.bodies}

\* stats are of the steps of c.
StatsOf(c, stats) ==
  /\ stats \in Seq(Stat) /\ Len(stats) = Len(c.workflow)
  /\ \A i \in 1 .. Len(stats) : /\ stats[i].action = c.workflow[i]
                                /\ stats[i].hasBody <=> c.workflow[i] \in c.bodies

LEMMA FunnelLists ==
  ASSUME NEW c, IsDesign(c), NEW stats, StatsOf(c, stats)
  PROVE  \A n \in 0 .. Len(stats) : Lists(c.workflow, MessageSteps(c), n, FunnelRows(stats)[n])
<1> DEFINE N == Len(stats)
           M == MessageSteps(c)
           w == c.workflow
           R == FunnelRows(stats)
           S == {n \in 0 .. N : Lists(w, M, n, R[n])}
<1>0. stats \in Seq(Stat) /\ N \in Nat /\ w \in Seq(Actions) /\ DOMAIN w = 1 .. N
  BY DEF StatsOf, IsDesign
<1>1. /\ R[0] = <<>>
      /\ \A n \in 0 .. N : R[n] \in Seq(FunnelRow)
      /\ \A n \in 1 .. N : R[n] = WithStep(R[n - 1], stats[n])
  BY <1>0, FunnelWalk
<1>2. \A n \in 1 .. N : /\ stats[n] \in Stat /\ stats[n].action = w[n]
                        /\ IsMessage(stats[n]) <=> n \in M
  BY <1>0 DEF StatsOf, MessageSteps, IsMessage
<1> HIDE DEF N, M, w, R
<1>3. 0 \in S
  BY <1>0, <1>1, ListNothing
<1>4. ASSUME NEW n \in 1 .. N, n - 1 \in S PROVE n \in S
  <2>1. n \in Nat /\ n > 0 /\ n - 1 \in 0 .. N /\ n \in 0 .. N
    BY <1>0
  <2> DEFINE before == R[n - 1]
             s == stats[n]
  <2>2. before \in Seq(FunnelRow) /\ Lists(w, M, n - 1, before) /\ R[n] = WithStep(before, s)
    BY <1>1, <1>4, <2>1
  <2>3. s \in Stat /\ s.action = w[n] /\ (IsMessage(s) <=> n \in M)
    BY <1>2
  <2> HIDE DEF before, s
  <2>4. CASE n \in M
    <3> DEFINE e == [action |-> s.action, sent |-> s.sent, replied |-> s.replied]
    <3>1. e \in FunnelRow /\ e.action = w[n]
      BY <2>3 DEF FunnelRow, Stat
    <3>2. R[n] = Append(before, e)
      BY <2>2, <2>3, <2>4 DEF WithStep
    <3> HIDE DEF e
    <3>3. Lists(w, M, n, Append(before, e))
      BY <2>1, <2>2, <2>4, <3>1, ListMember
    <3>. QED  BY <2>1, <3>2, <3>3
  <2>5. CASE n \notin M
    <3>1. R[n] = before \/
          (Len(before) > 0 /\ R[n] = [before EXCEPT ![Len(before)].replied = @ + s.replied])
      BY <2>2, <2>3, <2>5 DEF WithStep
    <3>2. Len(R[n]) = Len(before) /\ \A k \in 1 .. Len(before) : R[n][k].action = before[k].action
      <4>1. s.replied \in Nat
        BY <2>3 DEF Stat
      <4>2. CASE R[n] = before
        BY <4>2
      <4>3. CASE Len(before) > 0 /\ R[n] = [before EXCEPT ![Len(before)].replied = @ + s.replied]
        BY <2>2, <4>1, <4>3, AddedRow
      <4>. QED  BY <3>1, <4>2, <4>3
    <3>3. Lists(w, M, n, R[n])
      BY <2>1, <2>2, <2>5, <3>2, ListOther
    <3>. QED  BY <2>1, <3>3
  <2>. QED  BY <2>4, <2>5
<1>5. 0 .. N \subseteq S
  <2> HIDE DEF S
  <2>. QED  BY <1>0, <1>3, <1>4, UpTo
<1>. QED  BY <1>5 DEF N, M, w, R

LEMMA FunnelIsList ==
  ASSUME NEW c, IsDesign(c), NEW stats, StatsOf(c, stats)
  PROVE  /\ FunnelSteps(stats) \in Seq(FunnelRow)
         /\ Lists(c.workflow, MessageSteps(c), Len(c.workflow), FunnelSteps(stats))
<1>1. Len(stats) = Len(c.workflow) /\ Len(stats) \in 0 .. Len(stats) /\ stats \in Seq(Stat)
  BY DEF StatsOf
<1>. QED  BY <1>1, FunnelWalk, FunnelLists

\* The numbers a campaign's steps are given are those of its messages.
LEMMA SeqMapNumbers ==
  ASSUME NEW c, IsDesign(c), NEW stats, StatsOf(c, stats)
  PROVE  /\ DOMAIN SeqMap(stats) = {c.workflow[i] : i \in MessageSteps(c)}
         /\ \A i \in MessageSteps(c) : SeqMap(stats)[c.workflow[i]] = Num(MessageSteps(c), i)
<1> DEFINE N == Len(stats)
           M == MessageSteps(c)
           w == c.workflow
           A == {stats[i].action : i \in {j \in DOMAIN stats : IsMessage(stats[j])}}
           At(a) == CHOOSE i \in DOMAIN stats : stats[i].action = a
           Upto(n) == {j \in 1 .. n : IsMessage(stats[j])}
<1>0. N \in Nat /\ DOMAIN w = 1 .. N /\ DOMAIN stats = 1 .. N /\ M \subseteq 1 .. N
  BY DEF StatsOf, IsDesign, MessageSteps
<1>1. \A n \in 1 .. N : stats[n].action = w[n] /\ (IsMessage(stats[n]) <=> n \in M)
  BY <1>0 DEF StatsOf, MessageSteps, IsMessage
<1>2. \A i, j \in 1 .. N : w[i] = w[j] => i = j
  BY <1>0 DEF IsDesign
<1>3. SeqMap(stats) = [a \in A |-> Cardinality(Upto(At(a)))]
  BY DEF SeqMap
<1> HIDE DEF N, M, w
<1>4. A = {w[i] : i \in M}
  BY <1>0, <1>1
<1>5. ASSUME NEW i \in M PROVE SeqMap(stats)[w[i]] = Num(M, i)
  <2>1. w[i] \in A /\ i \in 1 .. N
    BY <1>0, <1>4
  <2>2. At(w[i]) = i
    BY <1>0, <1>1, <1>2, <2>1
  <2>3. Upto(i) = {j \in 1 .. i : j \in M}
    <3>1. \A j \in 1 .. i : j \in 1 .. N
      BY <1>0, <2>1
    <3>. QED  BY <1>1, <3>1
  <2> HIDE DEF A, At, Upto
  <2>4. SeqMap(stats)[w[i]] = Cardinality(Upto(At(w[i])))
    BY <1>3, <2>1
  <2>. QED  BY <2>2, <2>3, <2>4 DEF Num
<1>6. DOMAIN SeqMap(stats) = A
  BY <1>3
<1>. QED  BY <1>4, <1>5, <1>6 DEF M, w

\* The actions of a register block are the steps, each with what was pending.
LEMMA BuiltActions ==
  ASSUME NEW c, IsDesign(c)
  PROVE  /\ DOMAIN BuildActions(Rows(c)) = 1 .. Len(c.workflow)
         /\ \A i \in 1 .. Len(c.workflow) :
              /\ BuildActions(Rows(c))[i].action = c.workflow[i]
              /\ BuildActions(Rows(c))[i].hasBody = (c.workflow[i] \in c.bodies)
              /\ BuildActions(Rows(c))[i].delay =
                   IF c.workflow[i] \in Messaging /\ Pending(Rows(c))[i - 1] > 0
                     THEN Delay(Pending(Rows(c))[i - 1]) ELSE NoDelay
         /\ Pending(Rows(c))[0] = 0
         /\ \A n \in 0 .. Len(c.workflow) : Pending(Rows(c))[n] \in Nat
         /\ \A n \in 1 .. Len(c.workflow) :
              Pending(Rows(c))[n] = WithWait(Pending(Rows(c))[n - 1], c.workflow[n])
<1> DEFINE N == Len(c.workflow)
           w == c.workflow
           rows == Rows(c)
           P == Pending(rows)
<1>1. w \in Seq(Actions) /\ N \in Nat /\ DOMAIN w = 1 .. N
  BY DEF IsDesign
<1>2. DOMAIN rows = 1 .. N /\ \A i \in 1 .. N : rows[i].action = w[i] /\ rows[i].hasBody = (w[i] \in c.bodies)
  BY <1>1, Zenon DEF Rows
<1>3. Len(rows) = N
  <2>1. rows = [i \in 1 .. N |-> rows[i]]
    BY <1>1, Zenon DEF Rows
  <2> HIDE DEF rows
  <2>2. rows \in Seq({rows[i] : i \in 1 .. N})
    BY <1>1, <2>1
  <2>. QED  BY <1>1, <1>2, <2>2
<1>4. \A i \in 1 .. N : w[i] \in Actions
  BY <1>1
<1>5. BuildActions(rows) =
        [i \in DOMAIN rows |->
          [action |-> rows[i].action, hasBody |-> rows[i].hasBody,
           delay  |-> IF rows[i].action \in Messaging /\ P[i - 1] > 0
                        THEN Delay(P[i - 1]) ELSE NoDelay]]
  BY DEF BuildActions, Pending
<1> HIDE DEF rows, N, w, P
<1>6. /\ P[0] = 0 /\ \A n \in 0 .. N : P[n] \in Nat
      /\ \A n \in 1 .. N : P[n] = WithWait(P[n - 1], w[n])
  <2>1. Len(rows) \in Nat /\ \A i \in 1 .. Len(rows) : rows[i].action = w[i] /\ w[i] \in Actions
    BY <1>1, <1>2, <1>3, <1>4
  <2>2. /\ P[0] = 0 /\ \A n \in 0 .. Len(rows) : P[n] \in Nat
        /\ \A n \in 1 .. Len(rows) : P[n] = WithWait(P[n - 1], rows[n].action)
    BY <2>1, PendingWalk DEF P
  <2>. QED  BY <1>3, <2>1, <2>2
<1>7. DOMAIN BuildActions(rows) = 1 .. N
  BY <1>2, <1>5
<1>8. ASSUME NEW i \in 1 .. N
      PROVE  /\ BuildActions(rows)[i].action = w[i]
             /\ BuildActions(rows)[i].hasBody = (w[i] \in c.bodies)
             /\ BuildActions(rows)[i].delay =
                  IF w[i] \in Messaging /\ P[i - 1] > 0 THEN Delay(P[i - 1]) ELSE NoDelay
  <2> DEFINE r == [action |-> rows[i].action, hasBody |-> rows[i].hasBody,
                   delay  |-> IF rows[i].action \in Messaging /\ P[i - 1] > 0
                                THEN Delay(P[i - 1]) ELSE NoDelay]
  <2>1. BuildActions(rows)[i] = r
    BY <1>2, <1>5
  <2>. QED  BY <1>2, <2>1
<1>. QED  BY <1>6, <1>7, <1>8 DEF rows, N, w, P

\* The platform's messages are the actions of the messages, in their order.
LEMMA MessagesArePicked ==
  ASSUME NEW c, IsDesign(c)
  PROVE  LET built == BuildActions(Rows(c))
             M == MessageSteps(c)
         IN /\ Len(MessagesOf(built)) = Num(M, Len(c.workflow))
            /\ \A i \in M : MessagesOf(built)[Num(M, i)] = built[i]
            /\ DOMAIN MessagesOf(built) = 1 .. Len(MessagesOf(built))
<1> DEFINE N == Len(c.workflow)
           w == c.workflow
           M == MessageSteps(c)
           built == BuildActions(Rows(c))
           K == Kept(built)
           B == {built[i] : i \in 1 .. N}
           Picks(n) == /\ Len(K[n]) = Num(M, n)
                       /\ \A i \in 1 .. n : i \in M => K[n][Num(M, i)] = built[i]
           S == {n \in 0 .. N : Picks(n)}
<1>1. N \in Nat /\ DOMAIN built = 1 .. N /\ M \subseteq 1 .. N
  BY BuiltActions DEF IsDesign, MessageSteps
<1>2. \A n \in 1 .. N : n \in M <=> built[n].action \in Messaging /\ built[n].hasBody
  <2>1. \A n \in 1 .. N : built[n].action = w[n] /\ built[n].hasBody = (w[n] \in c.bodies)
    BY BuiltActions
  <2>2. \A n \in 1 .. N : n \in M <=> w[n] \in Messaging /\ w[n] \in c.bodies
    BY DEF MessageSteps, IsDesign
  <2> HIDE DEF built, N, w, M
  <2>. QED  BY <2>1, <2>2, Zenon
<1>3. built = [i \in 1 .. N |-> built[i]]
  <2>1. built = [i \in DOMAIN built |-> built[i]]
    BY Zenon DEF BuildActions
  <2>. QED  BY <1>1, <2>1
<1> HIDE DEF built, N, w, M
<1>4. built \in Seq(B) /\ Len(built) = N
  <2>1. built \in [1 .. N -> B]
    BY <1>3
  <2>2. built \in Seq(B)
    BY <1>1, <2>1, SeqDef
  <2>. QED  BY <1>1, <2>2
<1> HIDE DEF K, B
<1>5. /\ MessagesOf(built) = K[N] /\ K[0] = <<>>
      /\ \A n \in 0 .. N : K[n] \in Seq(B)
      /\ \A n \in 1 .. N : K[n] = WithAction(K[n - 1], built[n])
  BY <1>4, KeptWalk DEF K
<1>6. 0 \in S
  BY <1>1, <1>5, NumFirst
<1>7. ASSUME NEW n \in 1 .. N, n - 1 \in S PROVE n \in S
  <2>1. n \in Nat /\ n > 0 /\ n - 1 \in 0 .. N /\ n \in 0 .. N /\ n - 1 \in Nat
    BY <1>1
  <2> DEFINE before == K[n - 1]
             e == built[n]
  <2>2. before \in Seq(B) /\ Len(before) = Num(M, n - 1) /\ K[n] = WithAction(before, e)
    BY <1>5, <1>7, <2>1
  <2>3. \A i \in 1 .. n - 1 : i \in M => before[Num(M, i)] = built[i]
    BY <1>7
  <2>4. e \in B /\ (n \in M <=> e.action \in Messaging /\ e.hasBody)
    BY <1>2 DEF B
  <2>5. Num(M, n) \in Nat /\ Num(M, n - 1) \in Nat
    BY <2>1, NumType
  <2>6. /\ n \in M => Num(M, n) = Num(M, n - 1) + 1
        /\ n \notin M => Num(M, n) = Num(M, n - 1)
    BY <2>1, NumStep
  <2>7. \A i \in 1 .. n - 1 : i \in M => Num(M, i) \in 1 .. Num(M, n - 1)
    BY <2>1, NumWithin
  <2> HIDE DEF before
  <2>8. CASE n \in M
    <3>1. K[n] = Append(before, e)
      BY <2>2, <2>8, <2>4 DEF WithAction
    <3>2. /\ Len(K[n]) = Num(M, n) /\ K[n][Num(M, n)] = e
          /\ \A k \in 1 .. Num(M, n - 1) : K[n][k] = before[k]
      BY <2>2, <2>8, <2>4, <2>5, <2>6, <3>1
    <3>3. ASSUME NEW i \in 1 .. n, i \in M PROVE K[n][Num(M, i)] = built[i]
      <4>1. CASE i = n
        BY <3>2, <4>1
      <4>2. CASE i # n
        <5>1. i \in 1 .. n - 1
          BY <4>2
        <5>. QED  BY <2>3, <2>7, <3>2, <3>3, <5>1
      <4>. QED  BY <4>1, <4>2
    <3>. QED  BY <2>1, <3>2, <3>3
  <2>9. CASE n \notin M
    <3>1. K[n] = before
      BY <2>2, <2>9, <2>4 DEF WithAction
    <3>2. \A i \in 1 .. n : i \in M => i \in 1 .. n - 1
      BY <2>9
    <3>. QED  BY <2>1, <2>2, <2>3, <2>9, <2>6, <3>1, <3>2
  <2>. QED  BY <2>8, <2>9
<1>8. 0 .. N \subseteq S
  <2> HIDE DEF S
  <2>. QED  BY <1>1, <1>6, <1>7, UpTo
<1>9. N \in 0 .. N /\ Picks(N)
  BY <1>1, <1>8
<1>10. MessagesOf(built) \in Seq(B)
  BY <1>5, <1>9
<1>. QED  BY <1>1, <1>5, <1>9, <1>10 DEF built, N, M

LEMMA MessagesAreList ==
  ASSUME NEW c, IsDesign(c)
  PROVE  Lists(c.workflow, MessageSteps(c), Len(c.workflow), MessagesOf(BuildActions(Rows(c))))
<1>1. \A i \in MessageSteps(c) : i \in 1 .. Len(c.workflow)
  BY DEF MessageSteps, IsDesign
<1>2. \A i \in MessageSteps(c) : BuildActions(Rows(c))[i].action = c.workflow[i]
  BY <1>1, BuiltActions
<1>3. /\ Len(MessagesOf(BuildActions(Rows(c)))) = Num(MessageSteps(c), Len(c.workflow))
      /\ \A i \in MessageSteps(c) :
           MessagesOf(BuildActions(Rows(c)))[Num(MessageSteps(c), i)] = BuildActions(Rows(c))[i]
  BY MessagesArePicked
<1>. QED  BY <1>2, <1>3 DEF Lists

-----------------------------------------------------------------------------
(* Counting people *)

\* As many values as arguments, if no two are equal.
LEMMA ImageCounted ==
  ASSUME NEW R, IsFiniteSet(R), NEW f
  PROVE  /\ IsFiniteSet({f[r] : r \in R})
         /\ (\A r, s \in R : f[r] = f[s] => r = s) => Cardinality({f[r] : r \in R}) = Cardinality(R)
<1> DEFINE T == {f[r] : r \in R}
           g == [r \in R |-> f[r]]
<1>1. g \in Surjection(R, T)
  BY DEF Surjection
<1>2. (\A r, s \in R : f[r] = f[s] => r = s) => g \in Injection(R, T)
  BY DEF Injection, IsInjective
<1> HIDE DEF T, g
<1>3. IsFiniteSet(T) /\ (g \in Injection(R, T) => Cardinality(T) = Cardinality(R))
  BY <1>1, FS_Surjection
<1>. QED  BY <1>2, <1>3 DEF T

PersonOf == [r \in Ids |-> results[r].person]
On(a) == {r \in Ids : results[r].action = a}
RepliesOn(a) == {r \in Ids : results[r].action = a /\ results[r].replied}

LEMMA SomeIdsFinite ==
  ASSUME results \in Seq(Result), NEW S, S \subseteq Ids
  PROVE  IsFiniteSet(S) /\ Cardinality(S) \in Nat
<1>1. IsFiniteSet(Ids)
  BY FS_Interval DEF Ids
<1>. QED  BY <1>1, FS_Subset, FS_CardinalityType

LEMMA StepStatFields ==
  ASSUME NEW c, NEW i
  PROVE  /\ StepStat(c, i).action = c.workflow[i]
         /\ StepStat(c, i).hasBody = (c.workflow[i] \in c.bodies)
         /\ StepStat(c, i).sent = Cardinality({PersonOf[r] : r \in On(c.workflow[i])})
         /\ StepStat(c, i).replied = Cardinality({PersonOf[r] : r \in RepliesOn(c.workflow[i])})
<1> DEFINE a == c.workflow[i]
           P == {results[r].person : r \in {s \in Ids : results[s].action = a}}
           Q == {results[r].person : r \in {s \in Ids : results[s].action = a /\ results[s].replied}}
<1>1. StepStat(c, i) = [action |-> a, hasBody |-> a \in c.bodies,
                        sent |-> Cardinality(P), replied |-> Cardinality(Q)]
  BY Zenon DEF StepStat
<1>2. P = {PersonOf[r] : r \in On(a)} /\ Q = {PersonOf[r] : r \in RepliesOn(a)}
  BY DEF PersonOf, On, RepliesOn
<1> HIDE DEF P, Q
<1> DEFINE sent == Cardinality(P)
           replied == Cardinality(Q)
           hasBody == a \in c.bodies
           stat == StepStat(c, i)
<1> HIDE DEF sent, replied, hasBody, a, stat
<1>3. stat = [action |-> a, hasBody |-> hasBody, sent |-> sent, replied |-> replied]
  BY <1>1 DEF sent, replied, hasBody, stat
<1>4. stat.action = a /\ stat.hasBody = hasBody /\ stat.sent = sent /\ stat.replied = replied
  BY <1>3
<1>. QED  BY <1>2, <1>4, Zenon DEF sent, replied, hasBody, a, stat

\* Stats is of the steps it is asked of.
LEMMA StatsAreOf ==
  ASSUME results \in Seq(Result), NEW c, IsDesign(c), NEW d,
         d.workflow = c.workflow, d.bodies = c.bodies
  PROVE  StatsOf(c, Stats(d))
<1> DEFINE w == c.workflow
           N == Len(w)
<1>1. w \in Seq(Actions) /\ N \in Nat /\ DOMAIN w = 1 .. N
  BY DEF IsDesign
<1>2. Stats(d) = [i \in 1 .. N |-> StepStat(d, i)]
  BY <1>1, Zenon DEF Stats
<1>3. ASSUME NEW i \in 1 .. N
      PROVE  /\ StepStat(d, i) \in Stat /\ StepStat(d, i).action = w[i]
             /\ StepStat(d, i).hasBody = (w[i] \in c.bodies)
  <2> DEFINE P == {PersonOf[r] : r \in On(w[i])}
             Q == {PersonOf[r] : r \in RepliesOn(w[i])}
  <2>1. On(w[i]) \subseteq Ids /\ RepliesOn(w[i]) \subseteq Ids
    BY DEF On, RepliesOn
  <2>2. IsFiniteSet(On(w[i])) /\ IsFiniteSet(RepliesOn(w[i]))
    BY <2>1, SomeIdsFinite
  <2>3. IsFiniteSet(P) /\ IsFiniteSet(Q)
    BY <2>2, ImageCounted
  <2> HIDE DEF P, Q
  <2>4. Cardinality(P) \in Nat /\ Cardinality(Q) \in Nat
    BY <2>3, FS_CardinalityType
  <2>5. /\ StepStat(d, i).action = w[i] /\ StepStat(d, i).hasBody = (w[i] \in c.bodies)
        /\ StepStat(d, i).sent = Cardinality(P) /\ StepStat(d, i).replied = Cardinality(Q)
    <3>1. d.workflow[i] = w[i] /\ d.bodies = c.bodies
      OBVIOUS
    <3>2. /\ StepStat(d, i).action = d.workflow[i]
          /\ StepStat(d, i).hasBody = (d.workflow[i] \in d.bodies)
          /\ StepStat(d, i).sent = Cardinality({PersonOf[r] : r \in On(d.workflow[i])})
          /\ StepStat(d, i).replied = Cardinality({PersonOf[r] : r \in RepliesOn(d.workflow[i])})
      BY StepStatFields, Zenon
    <3>. QED  BY <3>1, <3>2, Zenon DEF P, Q
  <2>6. w[i] \in Actions /\ (w[i] \in c.bodies) \in BOOLEAN
    BY <1>1
  <2>7. StepStat(d, i) = [action |-> w[i], hasBody |-> w[i] \in c.bodies,
                          sent |-> Cardinality(P), replied |-> Cardinality(Q)]
    <3>1. StepStat(d, i) = [action |-> StepStat(d, i).action, hasBody |-> StepStat(d, i).hasBody,
                            sent |-> StepStat(d, i).sent, replied |-> StepStat(d, i).replied]
      BY Zenon DEF StepStat
    <3>. QED  BY <2>5, <3>1, Zenon
  <2>. QED  BY <2>4, <2>5, <2>6, <2>7 DEF Stat
<1> HIDE DEF N
<1>4. Stats(d) \in Seq(Stat) /\ Len(Stats(d)) = N
  <2>1. Stats(d) \in [1 .. N -> Stat]
    BY <1>2, <1>3
  <2>2. Stats(d) \in Seq(Stat)
    BY <1>1, <2>1, SeqDef
  <2>. QED  BY <1>1, <1>2, <2>2
<1>5. \A i \in 1 .. N : Stats(d)[i] = StepStat(d, i)
  BY <1>2
<1>. QED  BY <1>3, <1>4, <1>5 DEF StatsOf, N

-----------------------------------------------------------------------------
(* Numbers of one version mean the same step *)

Drawn == {[workflow |-> d.workflow, bodies |-> d.bodies] : d \in Designs}

\* seq is of the messages of c in their order; seqs has their numbers; s was sent
\* under the number of its step.
ListedIn(c, seq) == Lists(c.workflow, MessageSteps(c), Len(c.workflow), seq)
NumberedIn(c, seqs) ==
  /\ DOMAIN seqs = {c.workflow[i] : i \in MessageSteps(c)}
  /\ \A i \in MessageSteps(c) : seqs[c.workflow[i]] = Num(MessageSteps(c), i)
SentFrom(c, s) ==
  \E i \in MessageSteps(c) : c.workflow[i] = results[s.id].action /\ s.seq = Num(MessageSteps(c), i)

\* h[v] is the campaign's version v: what the platform holds and what has been
\* read of a version is what the walks make of it.
IsHistory(h) ==
  /\ lh.version > 0 /\ h \in [1 .. lh.version -> Drawn]
  /\ h[lh.version] = [workflow |-> lh.workflow, bodies |-> lh.bodies]
FunnelHeld(h) ==
  /\ plat.statsOf \in 0 .. lh.version
  /\ plat.statsOf > 0 => ListedIn(h[plat.statsOf], plat.funnel)
MessagesHeld(h) ==
  /\ plat.rowsOf \in 0 .. lh.version
  /\ plat.rowsOf = 0 => plat.messages = <<>>
  /\ plat.rowsOf > 0 => plat.messages = MessagesOf(BuildActions(Rows(h[plat.rowsOf])))
SendsHeld(h) ==
  \A s \in plat.sends : s.of \in 1 .. lh.version /\ SentFrom(h[s.of], s)
StatsRead(h) ==
  /\ read.statsOf \in 0 .. lh.version
  /\ read.statsOf = 0 => DOMAIN read.seqs = {}
  /\ read.statsOf > 0 => ListedIn(h[read.statsOf], read.funnel) /\ NumberedIn(h[read.statsOf], read.seqs)
RowsRead(h) ==
  /\ read.rowsOf \in 0 .. lh.version
  /\ read.rowsOf = 0 => read.rows = <<>>
  /\ read.rowsOf > 0 => read.rows = Rows(h[read.rowsOf])
Explains(h) ==
  /\ IsHistory(h) /\ FunnelHeld(h) /\ MessagesHeld(h) /\ SendsHeld(h) /\ StatsRead(h) /\ RowsRead(h)

VersionsInv == TypeOK /\ \E h \in [1 .. lh.version -> Drawn] : Explains(h)

LEMMA DrawnIsDesign ==
  ASSUME NEW c \in Drawn
  PROVE  IsDesign(c)
BY DesignsAssumption DEF Drawn, IsDesign

\* What SQLite returns of the newest version are its rows and its statistics.
LEMMA NewestIsRead ==
  ASSUME TypeOK, NEW h, IsHistory(h)
  PROVE  /\ IsDesign(h[lh.version]) /\ lh.version \in 1 .. lh.version
         /\ StatsOf(h[lh.version], Stats(lh))
         /\ Rows(lh) = Rows(h[lh.version])
<1> DEFINE c == h[lh.version]
<1>1. lh.version \in 1 .. lh.version
  BY DEF TypeOK, IsHistory
<1>2. c \in Drawn /\ c = [workflow |-> lh.workflow, bodies |-> lh.bodies]
  BY <1>1 DEF IsHistory
<1>3. c.workflow = lh.workflow /\ c.bodies = lh.bodies
  BY <1>2
<1> HIDE DEF c
<1>4. IsDesign(c)
  BY <1>2, DrawnIsDesign
<1>5. StatsOf(c, Stats(lh))
  BY <1>3, <1>4, StatsAreOf DEF TypeOK
<1>6. Rows(lh) = Rows(c)
  BY <1>3, Zenon DEF Rows
<1>. QED  BY <1>1, <1>4, <1>5, <1>6 DEF c

LEMMA NothingListed == MessagesOf(BuildActions(<<>>)) = <<>>
<1> DEFINE built == BuildActions(<<>>)
<1>1. built \in Seq({})
  <2>0. DOMAIN built = DOMAIN <<>> /\ built = [i \in DOMAIN built |-> built[i]]
    BY Zenon DEF BuildActions
  <2>1. DOMAIN built = {} /\ built = [i \in DOMAIN built |-> built[i]]
    <3> HIDE DEF built
    <3>. QED  BY <2>0
  <2> HIDE DEF built
  <2>2. built \in [1 .. 0 -> {}]
    BY <2>1
  <2>. QED  BY <2>2, SeqDef
<1> HIDE DEF built
<1>2. Len(built) = 0
  BY <1>1
<1>3. MessagesOf(built) = Kept(built)[0] /\ Kept(built)[0] = <<>>
  BY <1>1, <1>2, KeptWalk
<1>. QED  BY <1>3 DEF built

LEMMA InitExplained ==
  ASSUME Init
  PROVE  \E h \in [1 .. lh.version -> Drawn] : Explains(h)
<1>1. PICK d \in Designs : lh = [version |-> 1, workflow |-> d.workflow, bodies |-> d.bodies]
  BY DEF Init
<1> DEFINE c == [workflow |-> d.workflow, bodies |-> d.bodies]
           h == [v \in 1 .. 1 |-> c]
<1>2. c \in Drawn
  BY DEF Drawn
<1>3. lh.version = 1 /\ lh.workflow = d.workflow /\ lh.bodies = d.bodies
  BY <1>1
<1>4. c = [workflow |-> lh.workflow, bodies |-> lh.bodies]
  BY <1>3
<1> HIDE DEF c
<1>5. h \in [1 .. lh.version -> Drawn] /\ h[1] = c
  BY <1>2, <1>3
<1> HIDE DEF h
<1>6. IsHistory(h)
  BY <1>3, <1>4, <1>5 DEF IsHistory
<1>7. /\ plat.statsOf = 0 /\ plat.rowsOf = 0 /\ plat.messages = <<>> /\ plat.sends = {}
      /\ read = NothingRead
  BY DEF Init
<1>8. read.statsOf = 0 /\ read.rowsOf = 0 /\ read.rows = <<>> /\ DOMAIN read.seqs = {}
  BY <1>7, NothingReadHasNoSeqs DEF NothingRead
<1>9. Explains(h)
  BY <1>3, <1>6, <1>7, <1>8
     DEF Explains, FunnelHeld, MessagesHeld, SendsHeld, StatsRead, RowsRead
<1>. QED  BY <1>5, <1>9

\* An edit is a version more.
LEMMA EditExplained ==
  ASSUME TypeOK, NEW h \in [1 .. lh.version -> Drawn], Explains(h), NEW d \in Designs, Edit(d)
  PROVE  (\E g \in [1 .. lh.version -> Drawn] : Explains(g))'
<1> DEFINE c == [workflow |-> d.workflow, bodies |-> d.bodies]
<1>1. PICK n : n = lh.version + 1
  OBVIOUS
<1>2. PICK g : g = [v \in 1 .. n |-> IF v = n THEN c ELSE h[v]]
  OBVIOUS
<1>3. lh.version \in Nat /\ lh.version > 0
  BY DEF TypeOK, Explains, IsHistory
<1>4. c \in Drawn
  BY DEF Drawn
<1>5. lh'.version = n /\ lh'.workflow = d.workflow /\ lh'.bodies = d.bodies
  BY <1>1 DEF Edit
<1>6. c = [workflow |-> lh'.workflow, bodies |-> lh'.bodies]
  BY <1>5
<1> HIDE DEF c
<1>7. \A v \in 1 .. n : v = n \/ v \in 1 .. lh.version
  BY <1>1, <1>3
<1>8. g \in [1 .. n -> Drawn]
  BY <1>2, <1>4, <1>7
<1>9. n \in Nat /\ n > 0 /\ g[n] = c /\ \A v \in 1 .. lh.version : g[v] = h[v]
  BY <1>1, <1>2, <1>3
<1>10. \A v \in 0 .. lh.version : v \in 0 .. n /\ (v > 0 => v \in 1 .. lh.version /\ v \in 1 .. n)
  BY <1>1, <1>3
<1>11. IsHistory(g)'
  BY <1>5, <1>6, <1>8, <1>9 DEF IsHistory
<1>12. UNCHANGED <<results, plat, read>>
  BY DEF Edit
<1>13. FunnelHeld(g)'
  BY <1>5, <1>9, <1>10, <1>12 DEF Explains, FunnelHeld
<1>14. MessagesHeld(g)'
  BY <1>5, <1>9, <1>10, <1>12 DEF Explains, MessagesHeld
<1>15. SendsHeld(g)'
  <2>1. ASSUME NEW s \in plat.sends PROVE s.of \in 1 .. n /\ SentFrom(g[s.of], s)'
    <3>1. s.of \in 1 .. lh.version /\ SentFrom(h[s.of], s)
      BY DEF Explains, SendsHeld
    <3>2. s.of \in 1 .. n /\ g[s.of] = h[s.of]
      BY <1>1, <1>3, <1>9, <3>1
    <3>. QED  BY <1>12, <3>1, <3>2 DEF SentFrom
  <2>. QED  BY <1>5, <1>12, <2>1 DEF SendsHeld
<1>16. StatsRead(g)'
  BY <1>5, <1>9, <1>10, <1>12 DEF Explains, StatsRead
<1>17. RowsRead(g)'
  BY <1>5, <1>9, <1>10, <1>12 DEF Explains, RowsRead
<1>18. Explains(g)'
  BY <1>11, <1>13, <1>14, <1>15, <1>16, <1>17 DEF Explains
<1>. QED  BY <1>5, <1>8, <1>18

LEMMA ActExplained ==
  ASSUME TypeOK, NEW h \in [1 .. lh.version -> Drawn], Explains(h),
         NEW p \in People, NEW i \in DOMAIN lh.workflow, NEW replied \in BOOLEAN,
         Act(p, i, replied)
  PROVE  (\E g \in [1 .. lh.version -> Drawn] : Explains(g))'
<1> DEFINE e == [person |-> p, action |-> lh.workflow[i], replied |-> replied]
<1>1. results \in Seq(Result) /\ e \in Result /\ results' = Append(results, e)
  BY DEF TypeOK, IsDesign, Act, Result
<1> HIDE DEF e
<1>2. \A r \in Ids : results'[r] = results[r]
  BY <1>1 DEF Ids
<1>3. UNCHANGED <<lh, plat, read>>
  BY DEF Act
<1>4. SendsHeld(h)'
  <2>1. ASSUME NEW s \in plat.sends PROVE s.of \in 1 .. lh.version /\ SentFrom(h[s.of], s)'
    <3>1. s.of \in 1 .. lh.version /\ SentFrom(h[s.of], s) /\ s.id \in Ids
      BY DEF TypeOK, Explains, SendsHeld
    <3>. QED  BY <1>2, <3>1 DEF SentFrom
  <2>. QED  BY <1>3, <2>1 DEF SendsHeld
<1>5. Explains(h)'
  BY <1>3, <1>4 DEF Explains, IsHistory, FunnelHeld, MessagesHeld, StatsRead, RowsRead
<1>. QED  BY <1>3, <1>5

\* Steps that change neither lh.db nor the platform.
LEMMA ReadingExplained ==
  ASSUME NEW h \in [1 .. lh.version -> Drawn], Explains(h),
         UNCHANGED <<lh, results, plat>>, StatsRead(h)', RowsRead(h)'
  PROVE  (\E g \in [1 .. lh.version -> Drawn] : Explains(g))'
<1>1. SendsHeld(h)'
  BY DEF Explains, SendsHeld, SentFrom
<1>2. Explains(h)'
  BY <1>1 DEF Explains, IsHistory, FunnelHeld, MessagesHeld
<1>. QED  BY <1>2

LEMMA NothingReadExplained ==
  ASSUME TypeOK, NEW h, read' = NothingRead, UNCHANGED lh
  PROVE  StatsRead(h)' /\ RowsRead(h)'
<1>1. /\ read'.statsOf = 0 /\ read'.rowsOf = 0 /\ read'.rows = <<>> /\ DOMAIN read'.seqs = {}
  BY NothingReadHasNoSeqs DEF NothingRead
<1>. QED  BY <1>1 DEF StatsRead, RowsRead, TypeOK

\* The statistics are of the newest version, and so are the funnel and the numbers
\* computed from them.
LEMMA ClassifyExplained ==
  ASSUME TypeOK, NEW h \in [1 .. lh.version -> Drawn], Explains(h), Classify
  PROVE  (\E g \in [1 .. lh.version -> Drawn] : Explains(g))'
<1>1. UNCHANGED <<lh, results, plat>>
  BY DEF Classify
<1>2. CASE read' = NothingRead
  BY <1>1, <1>2, NothingReadExplained, ReadingExplained
<1>3. CASE read' = [NothingRead EXCEPT !.version = read.version, !.statsOf = lh.version,
                                       !.funnel = FunnelSteps(Stats(lh)),
                                       !.seqs = SeqMap(Stats(lh))]
  <2> DEFINE c == h[lh.version]
  <2>1. /\ read'.statsOf = lh.version /\ read'.funnel = FunnelSteps(Stats(lh))
        /\ read'.seqs = SeqMap(Stats(lh)) /\ read'.rowsOf = 0 /\ read'.rows = <<>>
    BY <1>3 DEF NothingRead
  <2>2. IsDesign(c) /\ StatsOf(c, Stats(lh)) /\ lh.version \in 0 .. lh.version
    BY NewestIsRead DEF Explains
  <2> HIDE DEF c
  <2>3. ListedIn(c, FunnelSteps(Stats(lh)))
    BY <2>2, FunnelIsList DEF ListedIn
  <2>4. NumberedIn(c, SeqMap(Stats(lh)))
    BY <2>2, SeqMapNumbers DEF NumberedIn
  <2>5. lh.version > 0
    BY DEF Explains, IsHistory
  <2>6. StatsRead(h)' /\ RowsRead(h)'
    BY <1>1, <2>1, <2>2, <2>3, <2>4, <2>5 DEF StatsRead, RowsRead, TypeOK, c
  <2>. QED  BY <1>1, <2>6, ReadingExplained
<1>. QED  BY <1>2, <1>3 DEF Classify

LEMMA LoadExplained ==
  ASSUME TypeOK, NEW h \in [1 .. lh.version -> Drawn], Explains(h), Load
  PROVE  (\E g \in [1 .. lh.version -> Drawn] : Explains(g))'
<1>1. UNCHANGED <<lh, results, plat>>
  BY DEF Load
<1>2. CASE read' = read
  BY <1>1, <1>2, ReadingExplained DEF Explains, StatsRead, RowsRead
<1>3. CASE read' = [read EXCEPT !.rows = Rows(lh), !.rowsOf = lh.version]
  <2>1. /\ read'.statsOf = read.statsOf /\ read'.funnel = read.funnel /\ read'.seqs = read.seqs
    BY <1>3
  <2>2. \/ read'.rows = read.rows /\ read'.rowsOf = read.rowsOf
        \/ read'.rows = Rows(lh) /\ read'.rowsOf = lh.version
    BY <1>3
  <2>3. IsHistory(h) /\ lh.version > 0 /\ lh.version \in 0 .. lh.version
    BY DEF Explains, IsHistory, TypeOK
  <2>4. Rows(lh) = Rows(h[lh.version])
    BY <2>3, NewestIsRead
  <2>5. RowsRead(h)'
    BY <1>1, <2>2, <2>4, <2>3 DEF RowsRead, Explains
  <2>6. StatsRead(h)'
    BY <1>1, <2>1 DEF StatsRead, Explains
  <2>. QED  BY <1>1, <2>5, <2>6, ReadingExplained
<1>. QED  BY <1>2, <1>3 DEF Load

\* What a report carries is what has been read.
LEMMA ApplyExplained ==
  ASSUME TypeOK, NEW h \in [1 .. lh.version -> Drawn], Explains(h),
         NEW S, S = Sends \/ S = {}, Apply(S)
  PROVE  (\E g \in [1 .. lh.version -> Drawn] : Explains(g))'
<1> DEFINE all == StoredWith(S)
<1>1. PICK n \in 0 .. Len(results) : plat' = Record(all, n)
  BY DEF Apply
<1>2. /\ plat'.funnel = read.funnel /\ plat'.statsOf = read.statsOf /\ plat'.sends = all
      /\ \/ plat'.messages = plat.messages /\ plat'.rowsOf = plat.rowsOf
         \/ plat'.messages = MessagesOf(BuildActions(read.rows)) /\ plat'.rowsOf = read.rowsOf
  BY <1>1 DEF Record
<1>3. UNCHANGED <<lh, results>> /\ read' = NothingRead
  BY DEF Apply
<1>4. StatsRead(h)' /\ RowsRead(h)'
  BY <1>3, NothingReadExplained
<1>5. FunnelHeld(h)'
  BY <1>2, <1>3 DEF FunnelHeld, StatsRead, Explains
<1>6. MessagesHeld(h)'
  BY <1>2, <1>3, NothingListed DEF MessagesHeld, RowsRead, Explains
<1>7. SendsHeld(h)'
  <2>1. ASSUME NEW s \in Sends PROVE s.of \in 1 .. lh.version /\ SentFrom(h[s.of], s)
    <3>1. PICK r \in Batch : /\ results[r].action \in DOMAIN read.seqs
                             /\ s = [id |-> r, seq |-> read.seqs[results[r].action], of |-> read.statsOf]
      BY DEF Sends
    <3>2. read.statsOf \in 1 .. lh.version /\ NumberedIn(h[read.statsOf], read.seqs)
      BY <3>1 DEF StatsRead, Explains, TypeOK
    <3> DEFINE c == h[read.statsOf]
    <3>3. PICK i \in MessageSteps(c) : c.workflow[i] = results[r].action
      BY <3>1, <3>2 DEF NumberedIn
    <3>4. s.id = r /\ s.of = read.statsOf /\ s.seq = read.seqs[results[r].action]
      BY <3>1
    <3>5. s.seq = Num(MessageSteps(c), i)
      BY <3>2, <3>3, <3>4 DEF NumberedIn
    <3>. QED  BY <3>2, <3>3, <3>4, <3>5 DEF SentFrom
  <2>2. \A s \in all : s \in plat.sends \/ s \in Sends
    BY DEF StoredWith
  <2>3. \A s \in all : s.of \in 1 .. lh.version /\ SentFrom(h[s.of], s)
    BY <2>1, <2>2 DEF SendsHeld, Explains
  <2>. QED  BY <1>2, <1>3, <2>3 DEF SendsHeld, SentFrom
<1>8. IsHistory(h)'
  BY <1>3 DEF IsHistory, Explains
<1>9. Explains(h)'
  BY <1>4, <1>5, <1>6, <1>7, <1>8 DEF Explains
<1>. QED  BY <1>3, <1>9

LEMMA VersionsKept ==
  ASSUME VersionsInv, [Next]_vars
  PROVE  VersionsInv'
<1>0. TypeOK' /\ TypeOK
  BY TypeKeeps DEF VersionsInv
<1>1. PICK h \in [1 .. lh.version -> Drawn] : Explains(h)
  BY DEF VersionsInv
<1>2. CASE LinkedHelper
  BY <1>0, <1>1, <1>2, EditExplained, ActExplained DEF LinkedHelper, VersionsInv
<1>3. ASSUME UNCHANGED <<lh, results, plat>>, read' = NothingRead \/ read' = read
      PROVE  VersionsInv'
  <2>1. StatsRead(h)' /\ RowsRead(h)'
    BY <1>0, <1>1, <1>3, NothingReadExplained DEF Explains, StatsRead, RowsRead
  <2>. QED  BY <1>0, <1>1, <1>3, <2>1, ReadingExplained DEF VersionsInv
<1>4. CASE ReadCampaigns
  <2>1. UNCHANGED <<lh, results, plat>>
    BY <1>4 DEF ReadCampaigns
  <2>2. /\ read'.statsOf = 0 /\ read'.rowsOf = 0 /\ read'.rows = <<>> /\ DOMAIN read'.seqs = {}
    BY <1>4, NothingReadHasNoSeqs DEF ReadCampaigns, NothingRead
  <2>3. StatsRead(h)' /\ RowsRead(h)'
    BY <1>0, <2>1, <2>2 DEF StatsRead, RowsRead, TypeOK
  <2>. QED  BY <1>0, <1>1, <2>1, <2>3, ReadingExplained DEF VersionsInv
<1>5. CASE Classify
  BY <1>0, <1>1, <1>5, ClassifyExplained DEF VersionsInv
<1>6. CASE Load
  BY <1>0, <1>1, <1>6, LoadExplained DEF VersionsInv
<1>7. CASE Report
  BY <1>0, <1>1, <1>7, ApplyExplained DEF Report, VersionsInv
<1>8. CASE FailClassify \/ FailLoad \/ FailReport
  BY <1>3, <1>8 DEF FailClassify, FailLoad, FailReport
<1>9. CASE FailSends
  BY <1>0, <1>1, <1>9, ApplyExplained DEF FailSends, VersionsInv
<1>10. CASE UNCHANGED vars
  BY <1>3, <1>10 DEF vars
<1>. QED  BY <1>2, <1>4, <1>5, <1>6, <1>7, <1>8, <1>9, <1>10 DEF Next, Proceed, Fail

\* Whatever the user edits between the reads of a report, what the platform holds
\* and what has been read of lh.db is what the walks make of one of its versions.
THEOREM VersionsInvariant == Spec => []VersionsInv
<1>1. Init => VersionsInv
  BY InitTyped, InitExplained DEF VersionsInv
<1>. QED  BY <1>1, VersionsKept, PTL DEF Spec

LEMMA ExplainedAligned ==
  ASSUME VersionsInv
  PROVE  Aligned
<1>1. PICK h \in [1 .. lh.version -> Drawn] : Explains(h)
  BY DEF VersionsInv
<1>2. \A v \in 1 .. lh.version : IsDesign(h[v])
  BY DrawnIsDesign
<1>3. ASSUME plat.rowsOf > 0
      PROVE  /\ plat.rowsOf \in 1 .. lh.version
             /\ ListedIn(h[plat.rowsOf], plat.messages)
             /\ DOMAIN plat.messages = 1 .. Len(plat.messages)
  <2>1. plat.rowsOf \in 1 .. lh.version
    BY <1>1, <1>3 DEF Explains, MessagesHeld, TypeOK, VersionsInv
  <2> DEFINE c == h[plat.rowsOf]
  <2>2. IsDesign(c) /\ plat.messages = MessagesOf(BuildActions(Rows(c)))
    BY <1>1, <1>2, <1>3, <2>1 DEF Explains, MessagesHeld
  <2> HIDE DEF c
  <2>3. ListedIn(c, plat.messages) /\ DOMAIN plat.messages = 1 .. Len(plat.messages)
    BY <2>2, MessagesAreList, MessagesArePicked DEF ListedIn
  <2>. QED  BY <2>1, <2>3 DEF c
<1>4. plat.rowsOf \in Nat /\ (plat.rowsOf # 0 => plat.rowsOf > 0)
  BY <1>1 DEF Explains, MessagesHeld, TypeOK, VersionsInv
<1>5. ASSUME plat.statsOf = plat.rowsOf, plat.rowsOf # 0
      PROVE  /\ Len(plat.funnel) = Len(plat.messages)
             /\ \A k \in DOMAIN plat.messages : plat.funnel[k].action = plat.messages[k].action
  <2> DEFINE c == h[plat.rowsOf]
  <2>1. ListedIn(c, plat.messages) /\ ListedIn(c, plat.funnel) /\ IsDesign(c)
    BY <1>1, <1>2, <1>3, <1>4, <1>5 DEF Explains, FunnelHeld
  <2> HIDE DEF c
  <2>2. Len(c.workflow) \in Nat
    BY <2>1 DEF IsDesign
  <2>3. /\ Len(plat.messages) = Len(plat.funnel)
        /\ \A k \in 1 .. Len(plat.messages) : plat.messages[k].action = plat.funnel[k].action
    <3> DEFINE w == c.workflow
               M == MessageSteps(c)
               N == Len(w)
               s == plat.messages
               t == plat.funnel
    <3>1. Lists(w, M, N, s) /\ Lists(w, M, N, t) /\ N \in Nat
      BY <2>1, <2>2 DEF ListedIn
    <3> HIDE DEF w, M, N, s, t
    <3>2. Len(s) = Len(t) /\ \A k \in 1 .. Len(s) : s[k].action = t[k].action
      BY <3>1, ListsAgree
    <3>. QED  BY <3>2 DEF s, t
  <2>. QED  BY <1>3, <1>4, <1>5, <2>3
<1>6. ASSUME NEW s \in plat.sends, s.of = plat.rowsOf
      PROVE  /\ s.seq \in DOMAIN plat.messages
             /\ plat.messages[s.seq].action = results[s.id].action
  <2>1. s.of \in 1 .. lh.version /\ SentFrom(h[s.of], s)
    BY <1>1 DEF Explains, SendsHeld
  <2>2. plat.rowsOf > 0
    BY <1>6, <2>1
  <2> DEFINE c == h[plat.rowsOf]
  <2>3. ListedIn(c, plat.messages) /\ IsDesign(c) /\ SentFrom(c, s)
    BY <1>2, <1>3, <1>6, <2>1, <2>2
  <2> HIDE DEF c
  <2>4. PICK i \in MessageSteps(c) : /\ c.workflow[i] = results[s.id].action
                                     /\ s.seq = Num(MessageSteps(c), i)
    BY <2>3 DEF SentFrom
  <2>5. i \in 1 .. Len(c.workflow) /\ Len(c.workflow) \in Nat
    BY <2>3 DEF MessageSteps, IsDesign
  <2>6. s.seq \in 1 .. Num(MessageSteps(c), Len(c.workflow))
    BY <2>4, <2>5, NumWithin
  <2>. QED  BY <1>3, <2>2, <2>3, <2>4, <2>5, <2>6 DEF ListedIn, Lists
<1>. QED  BY <1>5, <1>6 DEF Aligned

\* Messages, funnel rows and sends read from one version are numbered alike, for
\* any workflows, edited at any point of a report.
THEOREM NumbersAgree == Spec => []Aligned
BY VersionsInvariant, ExplainedAligned, PTL

-----------------------------------------------------------------------------
(* Waits *)

\* What is pending is what has been waited since the last messaging step.
LEMMA PendingSince ==
  ASSUME NEW c, IsDesign(c), NEW b \in 0 .. Len(c.workflow),
         b = 0 \/ c.workflow[b] \in Messaging
  PROVE  \A n \in 0 .. Len(c.workflow) :
           b <= n /\ (\A j \in b + 1 .. n : c.workflow[j] \notin Messaging) =>
             Pending(Rows(c))[n] = ElapsedOf(c.workflow)[n] - ElapsedOf(c.workflow)[b]
<1> DEFINE N == Len(c.workflow)
           w == c.workflow
           P == Pending(Rows(c))
           T == ElapsedOf(w)
           S == {n \in 0 .. N : b <= n /\ (\A j \in b + 1 .. n : w[j] \notin Messaging) =>
                                  P[n] = T[n] - T[b]}
<1>1. N \in Nat /\ w \in Seq(Actions)
  BY DEF IsDesign
<1>2. P[0] = 0 /\ \A n \in 0 .. N : P[n] \in Nat
  BY BuiltActions
<1>3. \A n \in 1 .. N : P[n] = WithWait(P[n - 1], w[n])
  BY BuiltActions
<1>4. /\ T[0] = 0 /\ \A n \in 0 .. N : T[n] \in Nat
      /\ \A n \in 1 .. N : T[n] = T[n - 1] + WaitMs[w[n]]
  BY <1>1, ElapsedWalk
<1>5. \A n \in 1 .. N : WaitMs[w[n]] \in Nat
  BY <1>1, WaitsTyped
<1> HIDE DEF N, w, P, T
<1>6. 0 \in S
  <2>1. b <= 0 => b = 0
    BY <1>1 DEF N
  <2>. QED  BY <1>1, <1>2, <1>4, <2>1
<1>7. ASSUME NEW n \in 1 .. N, n - 1 \in S PROVE n \in S
  <2>1. n \in Nat /\ n > 0 /\ n - 1 \in 0 .. N /\ n \in 0 .. N /\ b \in Nat /\ b \in 0 .. N
    BY <1>1 DEF N
  <2>2. ASSUME b <= n, \A j \in b + 1 .. n : w[j] \notin Messaging
        PROVE  P[n] = T[n] - T[b]
    <3>1. CASE b = n
      <4>1. w[n] \in Messaging
        BY <2>1, <3>1 DEF w
      <4>2. P[n] = 0
        BY <1>3, <4>1 DEF WithWait
      <4>3. T[n] \in Nat
        BY <1>4, <2>1
      <4>. QED  BY <3>1, <4>2, <4>3
    <3>2. CASE b # n
      <4>1. b <= n - 1 /\ n \in b + 1 .. n /\ \A j \in b + 1 .. n - 1 : j \in b + 1 .. n
        BY <2>1, <2>2, <3>2
      <4>2. P[n - 1] = T[n - 1] - T[b]
        BY <1>7, <2>2, <4>1
      <4>3. P[n] = P[n - 1] + WaitMs[w[n]]
        BY <1>3, <2>2, <4>1 DEF WithWait
      <4>4. T[n] = T[n - 1] + WaitMs[w[n]]
        BY <1>4
      <4>5. T[n - 1] \in Nat /\ T[b] \in Nat /\ WaitMs[w[n]] \in Nat
        BY <1>4, <1>5, <2>1
      <4>. QED  BY <4>2, <4>3, <4>4, <4>5
    <3>. QED  BY <3>1, <3>2
  <2>. QED  BY <2>1, <2>2
<1>8. 0 .. N \subseteq S
  <2> HIDE DEF S
  <2>. QED  BY <1>1, <1>6, <1>7, UpTo
<1>. QED  BY <1>8 DEF N, w, P, T

\* The delay covers a wait and is less than a minute longer.
LEMMA DelayCovers ==
  ASSUME NEW ms \in Nat
  PROVE  /\ ms <= Delay(ms).value * Delay(ms).unit
         /\ Delay(ms).value * Delay(ms).unit < ms + Minute
<1> DEFINE unit == IF ms >= Day /\ ms % Day = 0 THEN Day
                   ELSE IF ms >= Hour /\ ms % Hour = 0 THEN Hour ELSE Minute
           value == (ms + unit - 1) \div unit
<1>1. Delay(ms).value = value /\ Delay(ms).unit = unit
  BY DEF Delay
<1>2. Minute = 60000 /\ Hour = 3600000 /\ Day = 86400000
  BY DEF Minute, Hour, Day
<1>3. CASE ms % Day = 0 /\ unit = Day
  <2>1. ms % 86400000 = 0 /\ value = (ms + 86399999) \div 86400000
    BY <1>2, <1>3
  <2>2. value * 86400000 = ms
    BY <2>1
  <2>. QED  BY <1>1, <1>2, <1>3, <2>2
<1>4. CASE ms % Hour = 0 /\ unit = Hour
  <2>1. ms % 3600000 = 0 /\ value = (ms + 3599999) \div 3600000
    BY <1>2, <1>4
  <2>2. value * 3600000 = ms
    BY <2>1
  <2>. QED  BY <1>1, <1>2, <1>4, <2>2
<1>5. CASE unit = Minute
  <2>1. value = (ms + 59999) \div 60000
    BY <1>2, <1>5
  <2>2. ms <= value * 60000 /\ value * 60000 < ms + 60000
    BY <2>1
  <2>. QED  BY <1>1, <1>2, <1>5, <2>2
<1>. QED  BY <1>3, <1>4, <1>5

\* The delay of the k-th message, of any campaign.
LEMMA WaitsCovered ==
  ASSUME NEW c, IsDesign(c),
         NEW k \in DOMAIN MessagesOf(BuildActions(Rows(c))), NEW i \in DOMAIN c.workflow,
         c.workflow[i] = MessagesOf(BuildActions(Rows(c)))[k].action,
         NEW b \in 0 .. i - 1, b = 0 \/ c.workflow[b] \in Messaging,
         \A j \in b + 1 .. i - 1 : c.workflow[j] \notin Messaging,
         NEW d, d = MessagesOf(BuildActions(Rows(c)))[k].delay,
         NEW ms, ms = ElapsedOf(c.workflow)[i - 1] - ElapsedOf(c.workflow)[b]
  PROVE  ms <= d.value * d.unit /\ d.value * d.unit < ms + Minute
<1> DEFINE w == c.workflow
           N == Len(w)
           M == MessageSteps(c)
           built == BuildActions(Rows(c))
           P == Pending(Rows(c))
<1>1. N \in Nat /\ DOMAIN w = 1 .. N /\ M \subseteq 1 .. N /\ \A j \in M : w[j] \in Messaging
  BY DEF IsDesign, MessageSteps
<1>2. k \in 1 .. Num(M, N)
  BY MessagesArePicked
<1>3. PICK j \in M : Num(M, j) = k
  <2> HIDE DEF M, N
  <2>. QED  BY <1>1, <1>2, NumOnto
<1>4. MessagesOf(built)[k] = built[j]
  BY <1>3, MessagesArePicked
<1>5. built[j].action = w[j] /\ j \in 1 .. N
  BY <1>1, BuiltActions
<1>6. j = i
  BY <1>1, <1>4, <1>5 DEF IsDesign
<1>7. i \in 1 .. N /\ i - 1 \in 0 .. N /\ b \in 0 .. N /\ b <= i - 1
  BY <1>1
<1>8. d = IF P[i - 1] > 0 THEN Delay(P[i - 1]) ELSE NoDelay
  <2>1. w[i] \in Messaging
    BY <1>1, <1>3, <1>6
  <2>2. built[i].delay = IF w[i] \in Messaging /\ P[i - 1] > 0 THEN Delay(P[i - 1]) ELSE NoDelay
    BY <1>7, BuiltActions
  <2> HIDE DEF built, P
  <2>. QED  BY <1>4, <1>6, <2>1, <2>2 DEF built
<1>9. P[i - 1] = ms /\ P[i - 1] \in Nat
  <2>1. P[i - 1] \in Nat
    BY <1>7, BuiltActions
  <2>2. P[i - 1] = ElapsedOf(w)[i - 1] - ElapsedOf(w)[b]
    BY <1>7, PendingSince
  <2>. QED  BY <2>1, <2>2
<1> HIDE DEF P
<1>10. CASE P[i - 1] > 0
  BY <1>8, <1>9, <1>10, DelayCovers
<1>11. CASE ~(P[i - 1] > 0)
  <2>1. d.value = 0 /\ d.unit = 60000 /\ ms = 0
    BY <1>8, <1>9, <1>11 DEF NoDelay, Minute
  <2>. QED  BY <2>1 DEF Minute
<1>. QED  BY <1>10, <1>11

LEMMA ExplainedWaits ==
  ASSUME VersionsInv
  PROVE  WaitsKept
<1>1. PICK h \in [1 .. lh.version -> Drawn] : Explains(h)
  BY DEF VersionsInv
<1>2. SUFFICES ASSUME plat.rowsOf = lh.version,
                      NEW k \in DOMAIN plat.messages, NEW i \in DOMAIN lh.workflow,
                      NEW b \in 0 .. i - 1,
                      lh.workflow[i] = plat.messages[k].action, LastBefore(b, i)
               PROVE  LET d == plat.messages[k].delay
                          ms == Elapsed[i - 1] - Elapsed[b]
                      IN ms <= d.value * d.unit /\ d.value * d.unit < ms + Minute
  BY DEF WaitsKept
<1> DEFINE c == h[lh.version]
<1>3. IsHistory(h) /\ lh.version > 0 /\ lh.version \in 1 .. lh.version
  BY <1>1 DEF Explains, IsHistory, TypeOK, VersionsInv
<1>4. c \in Drawn /\ c.workflow = lh.workflow
  BY <1>3 DEF IsHistory
<1>5. IsDesign(c)
  BY <1>4, DrawnIsDesign
<1>6. plat.messages = MessagesOf(BuildActions(Rows(c)))
  BY <1>1, <1>2, <1>3 DEF Explains, MessagesHeld
<1>7. Elapsed = ElapsedOf(c.workflow)
  BY <1>4, Zenon DEF Elapsed, ElapsedOf
<1> HIDE DEF c
<1> DEFINE d == plat.messages[k].delay
           ms == Elapsed[i - 1] - Elapsed[b]
<1>8. /\ d = MessagesOf(BuildActions(Rows(c)))[k].delay
      /\ ms = ElapsedOf(c.workflow)[i - 1] - ElapsedOf(c.workflow)[b]
  BY <1>6, <1>7
<1>9. /\ k \in DOMAIN MessagesOf(BuildActions(Rows(c))) /\ i \in DOMAIN c.workflow
      /\ c.workflow[i] = MessagesOf(BuildActions(Rows(c)))[k].action
  BY <1>2, <1>4, <1>6
<1>10. /\ b = 0 \/ c.workflow[b] \in Messaging
       /\ \A j \in b + 1 .. i - 1 : c.workflow[j] \notin Messaging
  BY <1>2, <1>4 DEF LastBefore
<1> HIDE DEF d, ms
<1>11. ms <= d.value * d.unit /\ d.value * d.unit < ms + Minute
  BY <1>5, <1>8, <1>9, <1>10, WaitsCovered
<1>. QED  BY <1>11 DEF d, ms

\* The platform's delay before a message is LH's waits before it, rounded up to the
\* minute at most, for any workflows and waits.
THEOREM WaitsArePreserved == Spec => []WaitsKept
BY VersionsInvariant, ExplainedWaits, PTL

-----------------------------------------------------------------------------
(* Answers *)

\* LH takes a person through a step once, and records no answer on a message.
ResultsInv ==
  /\ TypeOK
  /\ \A r, s \in Ids : results[r].person = results[s].person /\ results[r].action = results[s].action
                         => r = s
  /\ \A r \in Ids : results[r].replied => results[r].action \notin Messaging

LEMMA ResultsKept ==
  ASSUME ResultsInv, [Next]_vars
  PROVE  ResultsInv'
<1>1. TypeOK' /\ TypeOK
  BY TypeKeeps DEF ResultsInv
<1>2. CASE UNCHANGED results
  BY <1>1, <1>2 DEF ResultsInv, Ids
<1>3. ASSUME NEW p \in People, NEW i \in DOMAIN lh.workflow, NEW replied \in BOOLEAN,
             Act(p, i, replied)
      PROVE  ResultsInv'
  <2> DEFINE e == [person |-> p, action |-> lh.workflow[i], replied |-> replied]
             n == Len(results) + 1
  <2>1. results \in Seq(Result) /\ e \in Result /\ results' = Append(results, e)
    BY <1>1, <1>3 DEF TypeOK, IsDesign, Act, Result
  <2>2. e.person = p /\ e.action = lh.workflow[i] /\ (e.replied => e.action \notin Messaging)
    BY <1>3 DEF Act
  <2>3. \A r \in Ids : ~(results[r].person = p /\ results[r].action = lh.workflow[i])
    <3>1. i \in Nat /\ ~(i < i)
      BY <1>1 DEF TypeOK, IsDesign
    <3>. QED  BY <1>3, <3>1 DEF Act
  <2> HIDE DEF e
  <2>4. /\ Ids' = 1 .. n /\ results'[n] = e
        /\ \A r \in Ids' : r = n \/ (r \in Ids /\ results'[r] = results[r])
    BY <2>1 DEF Ids
  <2> HIDE DEF n
  <2>5. ASSUME NEW r \in Ids', NEW s \in Ids', results'[r].person = results'[s].person,
               results'[r].action = results'[s].action
        PROVE  r = s
    BY <2>2, <2>3, <2>4, <2>5 DEF ResultsInv
  <2>6. ASSUME NEW r \in Ids', results'[r].replied PROVE results'[r].action \notin Messaging
    BY <2>2, <2>4, <2>6 DEF ResultsInv
  <2>. QED  BY <1>1, <2>5, <2>6 DEF ResultsInv
<1>4. CASE Proceed \/ Fail \/ UNCHANGED vars
  BY <1>2, <1>4 DEF Proceed, Fail, vars, ReadCampaigns, Classify, Load, Report, Apply,
                    FailClassify, FailLoad, FailSends, FailReport
<1>5. CASE \E d \in Designs : Edit(d)
  BY <1>2, <1>5 DEF Edit
<1>. QED  BY <1>3, <1>4, <1>5 DEF Next, LinkedHelper

\* A step's replied counts the answers recorded on it.
LEMMA RepliesCounted ==
  ASSUME ResultsInv, NEW n \in DOMAIN lh.workflow
  PROVE  Stats(lh)[n].replied = Cardinality(RepliesOn(lh.workflow[n]))
<1> DEFINE a == lh.workflow[n]
           R == RepliesOn(a)
<1>1. Stats(lh)[n] = StepStat(lh, n)
  BY DEF Stats
<1>2. StepStat(lh, n).replied = Cardinality({PersonOf[r] : r \in R})
  BY StepStatFields
<1>3. R \subseteq Ids /\ \A r \in R : results[r].action = a /\ PersonOf[r] = results[r].person
  BY DEF RepliesOn, PersonOf
<1>4. \A r, s \in R : PersonOf[r] = PersonOf[s] => r = s
  <2> HIDE DEF R
  <2>. QED  BY <1>3 DEF ResultsInv
<1>5. IsFiniteSet(R)
  BY <1>3, SomeIdsFinite DEF ResultsInv, TypeOK
<1>6. Cardinality({PersonOf[r] : r \in R}) = Cardinality(R)
  BY <1>4, <1>5, ImageCounted
<1>. QED  BY <1>1, <1>2, <1>6

\* The answers recorded on steps i+1 .. n before there is another message.
Answers(i, n) ==
  {r \in Ids : /\ results[r].replied
               /\ \E j \in i + 1 .. n : /\ lh.workflow[j] = results[r].action
                                        /\ \A l \in i + 1 .. j : l \notin MessageSteps(lh)}

LEMMA AnswersFinite ==
  ASSUME ResultsInv, NEW i, NEW n
  PROVE  IsFiniteSet(Answers(i, n)) /\ Cardinality(Answers(i, n)) \in Nat
<1>1. Answers(i, n) \subseteq Ids
  BY DEF Answers
<1>. QED  BY <1>1, SomeIdsFinite DEF ResultsInv, TypeOK

\* How one more step changes the answers to message i.
LEMMA AnswersStep ==
  ASSUME ResultsInv, NEW n \in DOMAIN lh.workflow, NEW i \in 1 .. n - 1
  PROVE  /\ lh.workflow[n] \in Messaging => Answers(i, n) = Answers(i, n - 1)
         /\ (\E l \in i + 1 .. n - 1 : l \in MessageSteps(lh)) => Answers(i, n) = Answers(i, n - 1)
         /\ (\A l \in i + 1 .. n : l \notin MessageSteps(lh)) =>
              Cardinality(Answers(i, n)) =
                Cardinality(Answers(i, n - 1)) + Cardinality(RepliesOn(lh.workflow[n]))
<1> DEFINE w == lh.workflow
           M == MessageSteps(lh)
           N == Len(w)
<1>1. /\ N \in Nat /\ n \in 1 .. N /\ DOMAIN w = 1 .. N
      /\ \A j, l \in 1 .. N : w[j] = w[l] => j = l
  BY DEF ResultsInv, TypeOK, IsDesign
<1>2. \A r \in Ids : results[r].replied => results[r].action \notin Messaging
  BY DEF ResultsInv
<1> HIDE DEF w, M, N
<1>3. /\ \A j \in i + 1 .. n : j = n \/ j \in i + 1 .. n - 1
      /\ \A j \in i + 1 .. n - 1 : j \in i + 1 .. n /\ j # n /\ j \in 1 .. N
      /\ n \in i + 1 .. n
      /\ i + 1 .. n - 1 \subseteq i + 1 .. n
  BY <1>1
<1>4. \A r : r \in Answers(i, n) <=>
               r \in Answers(i, n - 1) \/
               (r \in RepliesOn(w[n]) /\ \A l \in i + 1 .. n : l \notin M)
  <2>1. \A m, r : r \in Answers(i, m) <=>
                    /\ r \in Ids /\ results[r].replied
                    /\ \E j \in i + 1 .. m : /\ w[j] = results[r].action
                                             /\ \A l \in i + 1 .. j : l \notin M
    BY DEF Answers, w, M
  <2>2. \A r : r \in RepliesOn(w[n]) <=> r \in Ids /\ results[r].action = w[n] /\ results[r].replied
    BY DEF RepliesOn
  <2>. QED  BY <1>3, <2>1, <2>2
<1>5. w[n] \in Messaging => RepliesOn(w[n]) = {}
  BY <1>2 DEF RepliesOn
<1>6. w[n] \in Messaging => Answers(i, n) = Answers(i, n - 1)
  BY <1>4, <1>5
<1>7. (\E l \in i + 1 .. n - 1 : l \in M) => Answers(i, n) = Answers(i, n - 1)
  BY <1>3, <1>4
<1>8. ASSUME \A l \in i + 1 .. n : l \notin M
      PROVE  Cardinality(Answers(i, n)) = Cardinality(Answers(i, n - 1)) + Cardinality(RepliesOn(w[n]))
  <2> DEFINE old == Answers(i, n - 1)
             new == RepliesOn(w[n])
  <2>1. Answers(i, n) = old \cup new
    BY <1>4, <1>8
  <2>2. old \cap new = {}
    <3>1. \A r \in old : \E j \in i + 1 .. n - 1 : w[j] = results[r].action
      BY DEF Answers, w
    <3>2. \A r \in new : results[r].action = w[n]
      BY DEF RepliesOn
    <3> HIDE DEF old, new
    <3>. QED  BY <1>1, <1>3, <3>1, <3>2
  <2>3. new \subseteq Ids
    BY DEF RepliesOn
  <2>4. /\ IsFiniteSet(old) /\ Cardinality(old) \in Nat
        /\ IsFiniteSet(new) /\ Cardinality(new) \in Nat
    BY <2>3, AnswersFinite, SomeIdsFinite DEF ResultsInv, TypeOK
  <2> HIDE DEF old, new
  <2>5. Cardinality(old \cup new) = Cardinality(old) + Cardinality(new)
    <3>1. Cardinality(old \cup new) = Cardinality(old) + Cardinality(new) - Cardinality(old \cap new)
      BY <2>4, FS_Union
    <3>2. Cardinality(old \cap new) = 0
      BY <2>2, FS_EmptySet
    <3>. QED  BY <2>4, <3>1, <3>2
  <2>. QED  BY <2>1, <2>5 DEF old, new
<1>. QED  BY <1>6, <1>7, <1>8 DEF w, M

\* The rows of the funnel count, after each step, the answers up to there.
LEMMA RowsCountAnswers ==
  ASSUME ResultsInv
  PROVE  \A n \in 0 .. Len(lh.workflow) : \A i \in 1 .. n : i \in MessageSteps(lh) =>
           FunnelRows(Stats(lh))[n][Num(MessageSteps(lh), i)].replied = Cardinality(Answers(i, n))
<1> DEFINE stats == Stats(lh)
           w == lh.workflow
           M == MessageSteps(lh)
           N == Len(w)
           R == FunnelRows(stats)
           Counts(n) == \A i \in 1 .. n : i \in M => R[n][Num(M, i)].replied = Cardinality(Answers(i, n))
           S == {n \in 0 .. N : Counts(n)}
<1>1. IsDesign(lh) /\ results \in Seq(Result) /\ N \in Nat /\ DOMAIN w = 1 .. N
  BY DEF ResultsInv, TypeOK, IsDesign
<1>2. StatsOf(lh, stats) /\ stats \in Seq(Stat) /\ Len(stats) = N
  BY <1>1, StatsAreOf DEF StatsOf
<1>3. /\ \A n \in 0 .. N : R[n] \in Seq(FunnelRow)
      /\ \A n \in 1 .. N : R[n] = WithStep(R[n - 1], stats[n])
  BY <1>2, FunnelWalk
<1>4. \A n \in 0 .. N : Len(R[n]) = Num(M, n)
  BY <1>1, <1>2, FunnelLists DEF Lists
<1>5. \A n \in 1 .. N : /\ stats[n] \in Stat /\ stats[n].action = w[n]
                        /\ IsMessage(stats[n]) <=> n \in M
  BY <1>1, <1>2 DEF StatsOf, MessageSteps, IsMessage
<1>6. \A n \in 1 .. N : stats[n].replied = Cardinality(RepliesOn(w[n]))
  BY <1>1, RepliesCounted
<1>7. \A n \in M : w[n] \in Messaging
  BY DEF MessageSteps
<1>8. \A n \in 1 .. N : w[n] \in Messaging => Cardinality(RepliesOn(w[n])) = 0
  <2>1. \A a \in Messaging : RepliesOn(a) = {}
    BY DEF ResultsInv, RepliesOn
  <2>. QED  BY <2>1, FS_EmptySet
<1>9. \A n \in 1 .. N : \A i \in 1 .. n - 1 :
        /\ w[n] \in Messaging => Answers(i, n) = Answers(i, n - 1)
        /\ (\E l \in i + 1 .. n - 1 : l \in M) => Answers(i, n) = Answers(i, n - 1)
        /\ (\A l \in i + 1 .. n : l \notin M) =>
             Cardinality(Answers(i, n)) = Cardinality(Answers(i, n - 1)) + Cardinality(RepliesOn(w[n]))
  BY <1>1, AnswersStep
<1>10. ASSUME NEW n \in Nat PROVE Cardinality(Answers(n, n)) = 0
  <2>1. (n + 1 .. n) = {}
    OBVIOUS
  <2>2. Answers(n, n) = {}
    BY <2>1 DEF Answers
  <2>. QED  BY <2>2, FS_EmptySet
<1> HIDE DEF stats, w, M, N, R
<1>11. 0 \in S
  BY <1>1
<1>12. ASSUME NEW n \in 1 .. N, n - 1 \in S PROVE n \in S
  <2>1. n \in Nat /\ n > 0 /\ n - 1 \in 0 .. N /\ n \in 0 .. N /\ n - 1 \in Nat
    BY <1>1
  <2> DEFINE before == R[n - 1]
             s == stats[n]
             last == Len(before)
  <2>2. /\ before \in Seq(FunnelRow) /\ R[n] = WithStep(before, s) /\ last = Num(M, n - 1)
        /\ s \in Stat /\ s.action = w[n] /\ (IsMessage(s) <=> n \in M)
        /\ s.replied = Cardinality(RepliesOn(w[n])) /\ s.replied \in Nat
    BY <1>3, <1>4, <1>5, <1>6, <2>1 DEF Stat
  <2>3. \A i \in 1 .. n - 1 : i \in M => before[Num(M, i)].replied = Cardinality(Answers(i, n - 1))
    BY <1>12
  <2>4. \A i \in 1 .. n - 1 : i \in M => Num(M, i) \in 1 .. last
    BY <2>1, <2>2, NumWithin
  <2>5. /\ n \in M => Num(M, n) = last + 1
        /\ last \in Nat
    BY <2>1, <2>2, NumStep, NumType
  <2> HIDE DEF before, s, last
  <2>6. CASE n \in M
    <3> DEFINE e == [action |-> s.action, sent |-> s.sent, replied |-> s.replied]
    <3>1. R[n] = Append(before, e) /\ e \in FunnelRow /\ e.replied = 0
      BY <1>7, <1>8, <2>2, <2>6 DEF WithStep, FunnelRow, Stat
    <3> HIDE DEF e
    <3>2. R[n][last + 1] = e /\ \A k \in 1 .. last : R[n][k] = before[k]
      BY <2>2, <3>1 DEF last
    <3>3. ASSUME NEW i \in 1 .. n, i \in M
          PROVE  R[n][Num(M, i)].replied = Cardinality(Answers(i, n))
      <4>1. CASE i = n
        BY <1>10, <2>1, <2>5, <2>6, <3>1, <3>2, <4>1
      <4>2. CASE i # n
        <5>1. i \in 1 .. n - 1
          BY <4>2
        <5>2. Answers(i, n) = Answers(i, n - 1)
          BY <1>7, <1>9, <2>6, <5>1
        <5>. QED  BY <2>3, <2>4, <3>2, <3>3, <5>1, <5>2
      <4>. QED  BY <4>1, <4>2
    <3>. QED  BY <2>1, <3>3
  <2>7. CASE n \notin M /\ w[n] \in Messaging
    <3>1. R[n] = before
      BY <2>2, <2>7 DEF WithStep
    <3>2. \A i \in 1 .. n : i \in M => i \in 1 .. n - 1
      BY <2>7
    <3>3. \A i \in 1 .. n - 1 : Answers(i, n) = Answers(i, n - 1)
      BY <1>9, <2>7
    <3>. QED  BY <2>1, <2>3, <3>1, <3>2, <3>3
  <2>8. CASE n \notin M /\ w[n] \notin Messaging
    <3>1. ASSUME NEW i \in 1 .. n, i \in M
          PROVE  R[n][Num(M, i)].replied = Cardinality(Answers(i, n))
      <4>1. i \in 1 .. n - 1
        BY <2>8, <3>1
      <4>2. Num(M, i) \in 1 .. last /\ last > 0
        BY <2>4, <2>5, <3>1, <4>1
      <4>3. R[n] = [before EXCEPT ![last].replied = @ + s.replied]
        BY <2>2, <2>8, <4>2 DEF WithStep, last
      <4>4. \A k \in 1 .. last :
              R[n][k].replied = IF k = last THEN before[k].replied + s.replied ELSE before[k].replied
        BY <2>2, <4>2, <4>3, AddedRow DEF last
      <4>5. CASE Num(M, i) = last
        <5>1. \A l \in i + 1 .. n : l \notin M
          <6>1. ASSUME NEW l \in i + 1 .. n, l \in M PROVE FALSE
            <7>1. l \in 1 .. n - 1 /\ i \in Nat /\ i < l /\ l \in 0 .. n
              BY <2>8, <6>1
            <7>2. Num(M, i) < Num(M, l)
              BY <2>1, <6>1, <7>1, NumGrows
            <7>3. Num(M, l) \in 1 .. last
              BY <2>4, <6>1, <7>1
            <7>. QED  BY <2>5, <4>5, <7>2, <7>3
          <6>. QED  BY <6>1
        <5>2. Cardinality(Answers(i, n)) = Cardinality(Answers(i, n - 1)) + Cardinality(RepliesOn(w[n]))
          BY <1>9, <4>1, <5>1
        <5>. QED  BY <2>2, <2>3, <3>1, <4>1, <4>2, <4>4, <4>5, <5>2
      <4>6. CASE Num(M, i) # last
        <5>1. PICK l \in 1 .. n - 1 : l \in M /\ Num(M, l) = last
          <6>1. last \in 1 .. Num(M, n - 1)
            BY <2>2, <2>5, <4>2
          <6>. QED  BY <2>1, <6>1, NumOnto
        <5>2. l \in i + 1 .. n - 1
          <6>1. ASSUME l < i PROVE FALSE
            <7>1. Num(M, l) <= Num(M, i) /\ l \in Nat
              <8>1. l \in Nat /\ i \in 0 .. n
                BY <4>1
              <8>. QED  BY <2>1, <6>1, <8>1, NumGrows
            <7>. QED  BY <2>5, <4>2, <4>6, <5>1, <7>1
          <6>2. l # i
            BY <4>6, <5>1
          <6>. QED  BY <4>1, <6>1, <6>2
        <5>3. Answers(i, n) = Answers(i, n - 1)
          BY <1>9, <4>1, <5>1, <5>2
        <5>. QED  BY <2>3, <3>1, <4>1, <4>2, <4>4, <4>6, <5>3
      <4>. QED  BY <4>5, <4>6
    <3>. QED  BY <2>1, <3>1
  <2>. QED  BY <2>6, <2>7, <2>8
<1>13. 0 .. N \subseteq S
  <2> HIDE DEF S
  <2>. QED  BY <1>1, <1>11, <1>12, UpTo
<1>. QED  BY <1>13 DEF stats, w, M, N, R

\* The answers the property gives to row k are those after its message.
LEMMA CountedAreAnswers ==
  ASSUME ResultsInv
  PROVE  AnswersCounted
<1> DEFINE w == lh.workflow
           M == MessageSteps(lh)
           N == Len(w)
           funnel == FunnelSteps(Stats(lh))
           Before(a, b) == \E i, j \in DOMAIN w : i < j /\ w[i] = a /\ w[j] = b
           To(k) == {r \in Ids : /\ results[r].replied
                                 /\ Before(funnel[k].action, results[r].action)
                                 /\ k < Len(funnel) => Before(results[r].action, funnel[k + 1].action)}
<1>1. /\ IsDesign(lh) /\ results \in Seq(Result) /\ N \in Nat /\ DOMAIN w = 1 .. N
      /\ \A i, j \in 1 .. N : w[i] = w[j] => i = j
      /\ M \subseteq 1 .. N
  BY DEF ResultsInv, TypeOK, IsDesign, MessageSteps
<1>2. StatsOf(lh, Stats(lh)) /\ Stats(lh) \in Seq(Stat) /\ Len(Stats(lh)) = N
  BY <1>1, StatsAreOf DEF StatsOf
<1>3. funnel \in Seq(FunnelRow) /\ Len(funnel) = Num(M, N) /\ DOMAIN funnel = 1 .. Num(M, N)
  <2>1. funnel \in Seq(FunnelRow) /\ Lists(w, M, N, funnel)
    BY <1>1, <1>2, FunnelIsList
  <2>. QED  BY <2>1 DEF Lists
<1>4. \A i \in M : funnel[Num(M, i)].action = w[i]
  <2>1. Lists(w, M, N, funnel)
    BY <1>1, <1>2, FunnelIsList
  <2>. QED  BY <1>1, <2>1 DEF Lists
<1>5. \A i \in M : funnel[Num(M, i)].replied = Cardinality(Answers(i, N))
  <2>1. funnel = FunnelRows(Stats(lh))[N]
    BY <1>2, FunnelWalk
  <2>2. \A i \in 1 .. N : i \in M => FunnelRows(Stats(lh))[N][Num(M, i)].replied = Cardinality(Answers(i, N))
    BY <1>1, RowsCountAnswers
  <2>. QED  BY <1>1, <2>1, <2>2
<1>6. \A i, r : r \in Answers(i, N) <=>
                  /\ r \in Ids /\ results[r].replied
                  /\ \E j \in i + 1 .. N : /\ w[j] = results[r].action
                                           /\ \A l \in i + 1 .. j : l \notin M
  BY DEF Answers
<1>7. \A r \in Ids : results[r].replied => results[r].action \notin Messaging
  BY DEF ResultsInv
<1>8. \A i \in M : w[i] \in Messaging
  BY DEF MessageSteps
<1>9. AnswersCounted <=> \A k \in DOMAIN funnel : funnel[k].replied = Cardinality(To(k))
  BY DEF AnswersCounted
<1> HIDE DEF w, M, N, funnel
<1>10. \A k : \A r : r \in To(k) <=>
                  /\ r \in Ids /\ results[r].replied
                  /\ Before(funnel[k].action, results[r].action)
                  /\ k < Len(funnel) => Before(results[r].action, funnel[k + 1].action)
  OBVIOUS
<1>11. \A i, j \in 1 .. N : Before(w[i], w[j]) <=> i < j
  BY <1>1
<1>12. \A a, i : i \in 1 .. N /\ Before(w[i], a) => \E j \in 1 .. N : w[j] = a /\ i < j
  BY <1>1
<1> HIDE DEF To, Before
<1>13. ASSUME NEW k \in 1 .. Num(M, N) PROVE funnel[k].replied = Cardinality(To(k))
  <2>1. PICK i \in 1 .. N : i \in M /\ Num(M, i) = k
    BY <1>1, NumOnto
  <2>2. i \in Nat /\ k \in Nat /\ Num(M, N) \in Nat
    BY <1>1, NumType
  <2>3. \A l \in 1 .. N : (l \in M => Num(M, l) \in Nat) /\ (i < l /\ l \in M => k < Num(M, l))
    <3>1. \A l \in 0 .. N : i < l => (l \in M => k < Num(M, l))
      BY <1>1, <2>1, <2>2, NumGrows
    <3>2. \A l \in 1 .. N : l \in Nat /\ l \in 0 .. N
      BY <1>1
    <3>. QED  BY <3>1, <3>2, NumType
  <2>4. ASSUME NEW r \in Ids, results[r].replied, NEW j \in 1 .. N, w[j] = results[r].action, i < j
        PROVE  (k < Len(funnel) => Before(results[r].action, funnel[k + 1].action))
                 <=> \A l \in i + 1 .. j : l \notin M
    <3>1. j \notin M /\ j \in Nat
      BY <1>1, <1>7, <1>8, <2>4
    <3>2. ASSUME k < Len(funnel) => Before(results[r].action, funnel[k + 1].action),
                 NEW l \in i + 1 .. j, l \in M
          PROVE  FALSE
      <4>1. l \in 1 .. N /\ i < l /\ l < j
        <5>1. l # j
          BY <3>1, <3>2
        <5>. QED  BY <1>1, <2>2, <3>1, <5>1
      <4>2. k < Num(M, l) /\ Num(M, l) \in 1 .. Num(M, N)
        BY <1>1, <2>3, <3>2, <4>1, NumWithin
      <4>3. k < Num(M, N) /\ k + 1 \in 1 .. Num(M, N)
        BY <2>2, <4>2
      <4>4. PICK m \in 1 .. N : m \in M /\ Num(M, m) = k + 1
        BY <1>1, <4>3, NumOnto
      <4>5. Before(w[j], w[m])
        BY <1>3, <1>4, <2>4, <3>2, <4>3, <4>4
      <4>6. j < m /\ l < m
        BY <1>1, <1>11, <4>1, <4>4, <4>5
      <4>7. Num(M, l) < Num(M, m)
        BY <1>1, <4>1, <4>4, <4>6, NumGrows
      <4>. QED  BY <2>2, <4>2, <4>4, <4>7
    <3>3. ASSUME \A l \in i + 1 .. j : l \notin M, k < Len(funnel)
          PROVE  Before(results[r].action, funnel[k + 1].action)
      <4>1. k + 1 \in 1 .. Num(M, N)
        BY <1>3, <2>2, <3>3
      <4>2. PICK m \in 1 .. N : m \in M /\ Num(M, m) = k + 1
        BY <1>1, <4>1, NumOnto
      <4>3. m > i
        <5>1. ASSUME m < i PROVE FALSE
          <6>1. m \in Nat /\ i \in 0 .. N
            BY <1>1, <2>1
          <6>2. Num(M, m) < Num(M, i)
            BY <1>1, <2>1, <5>1, <6>1, NumGrows
          <6>. QED  BY <2>1, <2>2, <4>2, <6>2
        <5>2. m # i
          BY <2>1, <2>2, <4>2
        <5>. QED  BY <5>1, <5>2
      <4>4. j < m
        BY <3>1, <3>3, <4>2, <4>3
      <4>. QED  BY <1>4, <1>11, <2>4, <4>2, <4>4
    <3>. QED  BY <3>2, <3>3
  <2>5. funnel[k].action = w[i] /\ funnel[k].replied = Cardinality(Answers(i, N))
    BY <1>4, <1>5, <2>1
  <2>6. ASSUME NEW r PROVE r \in To(k) <=> r \in Answers(i, N)
    <3>1. ASSUME r \in To(k) PROVE r \in Answers(i, N)
      <4>1. r \in Ids /\ results[r].replied /\ Before(w[i], results[r].action)
        BY <1>10, <2>5, <3>1
      <4>2. PICK j \in 1 .. N : w[j] = results[r].action /\ i < j
        BY <1>12, <4>1
      <4>3. \A l \in i + 1 .. j : l \notin M
        BY <1>10, <2>4, <3>1, <4>1, <4>2
      <4>4. j \in i + 1 .. N
        BY <2>2, <4>2
      <4>. QED  BY <1>6, <4>1, <4>2, <4>3, <4>4
    <3>2. ASSUME r \in Answers(i, N) PROVE r \in To(k)
      <4>1. /\ r \in Ids /\ results[r].replied
            /\ \E j \in i + 1 .. N : w[j] = results[r].action /\ \A l \in i + 1 .. j : l \notin M
        BY <1>6, <3>2
      <4>2. PICK j \in i + 1 .. N : w[j] = results[r].action /\ \A l \in i + 1 .. j : l \notin M
        BY <4>1
      <4>3. j \in 1 .. N /\ i < j
        BY <2>2
      <4>4. Before(w[i], results[r].action)
        BY <1>11, <4>2, <4>3
      <4>. QED  BY <1>10, <2>4, <2>5, <4>1, <4>2, <4>3, <4>4
    <3>. QED  BY <3>1, <3>2
  <2>7. To(k) = Answers(i, N)
    BY <2>6
  <2>. QED  BY <2>5, <2>7
<1>. QED  BY <1>3, <1>9, <1>13 DEF Before, To

\* Every answer recorded on a step after a message and before the next is counted
\* for that message in the funnel, and no other is (buildFunnelSteps).
THEOREM AnswersAreCounted == Spec => []AnswersCounted
<1>1. Init => ResultsInv
  BY InitTyped DEF Init, ResultsInv, Ids
<1>2. ResultsInv /\ [Next]_vars => ResultsInv'
  BY ResultsKept
<1>3. ResultsInv => AnswersCounted
  BY CountedAreAnswers
<1>. QED  BY <1>1, <1>2, <1>3, PTL DEF Spec

=============================================================================

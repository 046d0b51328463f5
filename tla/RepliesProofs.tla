--------------------------- MODULE RepliesProofs ---------------------------
(***************************************************************************)
(* RepliesInv is an inductive invariant of Replies, for any campaigns,     *)
(* people, messages, limit, tables and bounds: attribution is settled when *)
(* a message is mirrored, and the two queries of a collection, merged and  *)
(* cut, skip nothing but what changes between them or what the profile of  *)
(* the database hides.                                                     *)
(***************************************************************************)
EXTENDS Replies, FiniteSetTheorems, TLAPS

-----------------------------------------------------------------------------
(* Attribution *)

\* A message has one campaign at most: the oldest link is one, and so is the
\* lowest campaign of the last moment.
LEMMA OneClaim ==
  ASSUME NEW R \in Seq(Result), NEW L, L \subseteq Link, NEW m \in Message,
         NEW c \in Campaigns, NEW d \in Campaigns,
         Belongs(R, L, m, c), Belongs(R, L, m, d)
  PROVE  c = d
<1>1. LinksOf(L, m) \subseteq Nat
  BY BoundsAssumption DEF LinksOf, Link
<1>2. CASE LinksOf(L, m) = {}
  <2>1. Claims(R, m, c) /\ Claims(R, m, d)
    BY <1>2 DEF Belongs, LinkedTo, Manual
  <2>2. PICK i \in Touching(R, m) :
          /\ R[i].campaign = c
          /\ \A j \in Touching(R, m) :
               R[j].at < R[i].at \/ (R[j].at = R[i].at /\ c <= R[j].campaign)
    BY <2>1 DEF Claims
  <2>3. PICK j \in Touching(R, m) :
          /\ R[j].campaign = d
          /\ \A k \in Touching(R, m) :
               R[k].at < R[j].at \/ (R[k].at = R[j].at /\ d <= R[k].campaign)
    BY <2>1 DEF Claims
  <2>4. R[i] \in Result /\ R[j] \in Result
    BY DEF Touching
  <2>5. R[i].at \in Nat /\ R[j].at \in Nat
    BY <2>4, BoundsAssumption DEF Result, Times
  <2>. QED  BY <2>2, <2>3, <2>5, CampaignsAssumption
<1>3. CASE LinksOf(L, m) # {}
  <2>1. LinkedTo(R, L, m, c) /\ LinkedTo(R, L, m, d)
    BY <1>3 DEF Belongs, Manual
  <2>2. PICK r \in LinksOf(L, m) :
          (\A q \in LinksOf(L, m) : r <= q) /\ R[r].campaign = c
    BY <2>1 DEF LinkedTo
  <2>3. PICK s \in LinksOf(L, m) :
          (\A q \in LinksOf(L, m) : s <= q) /\ R[s].campaign = d
    BY <2>1 DEF LinkedTo
  <2>4. r \in Nat /\ s \in Nat /\ r <= s /\ s <= r
    BY <1>1, <2>2, <2>3
  <2>5. r = s
    BY <2>4
  <2>. QED  BY <2>2, <2>3, <2>5
<1>. QED  BY <1>2, <1>3

\* A result created after message m was written changes nothing for m.
LEMMA LaterResult ==
  ASSUME NEW R \in Seq(Result), NEW L, NEW x \in Result, NEW m \in Message,
         NEW c, m.sent < x.at, LinksOf(L, m) \subseteq DOMAIN R
  PROVE  Belongs(Append(R, x), L, m, c) <=> Belongs(R, L, m, c)
<1> DEFINE Q == Append(R, x)
<1>1. \A i \in DOMAIN R : Q[i] = R[i]
  OBVIOUS
<1>2. DOMAIN Q = DOMAIN R \cup {Len(R) + 1} /\ Q[Len(R) + 1] = x
  OBVIOUS
<1>3. x.at \in Nat /\ m.sent \in Nat
  BY BoundsAssumption DEF Result, Message, Times
<1> HIDE DEF Q
<1>4. Touching(Q, m) = Touching(R, m)
  BY <1>1, <1>2, <1>3 DEF Touching
<1>5. \A i \in Touching(R, m) : Q[i] = R[i]
  BY <1>1 DEF Touching
<1>6. Claims(Q, m, c) <=> Claims(R, m, c)
  BY <1>4, <1>5 DEF Claims
<1>7. LinkedTo(Q, L, m, c) <=> LinkedTo(R, L, m, c)
  BY <1>1 DEF LinkedTo
<1>. QED  BY <1>6, <1>7 DEF Belongs, Manual, Q

\* Results never change the campaign of a linked message.
LEMMA LinkedStays ==
  ASSUME NEW R \in Seq(Result), NEW L, NEW x \in Result, NEW m, NEW c,
         LinksOf(L, m) \subseteq DOMAIN R
  PROVE  LinkedTo(Append(R, x), L, m, c) <=> LinkedTo(R, L, m, c)
<1>1. \A i \in DOMAIN R : Append(R, x)[i] = R[i]
  OBVIOUS
<1>. QED  BY <1>1 DEF LinkedTo

\* Links of the message with identity n to the results S, and what they add.
LinksTo(n, S) == {[message |-> n, result |-> r] : r \in S}

LEMMA LinksUnion ==
  ASSUME NEW L, NEW N, NEW m
  PROVE  LinksOf(L \cup N, m) = LinksOf(L, m) \cup LinksOf(N, m)
<1>1. \A q : q \in LinksOf(L \cup N, m)
              <=> \E l \in L \cup N : l.message = m.id /\ q = l.result
  BY DEF LinksOf
<1>2. \A q : q \in LinksOf(L, m) <=> \E l \in L : l.message = m.id /\ q = l.result
  BY DEF LinksOf
<1>3. \A q : q \in LinksOf(N, m) <=> \E l \in N : l.message = m.id /\ q = l.result
  BY DEF LinksOf
<1>. QED  BY <1>1, <1>2, <1>3

LEMMA OtherLinks ==
  ASSUME NEW L, NEW n, NEW S, NEW m, m.id # n
  PROVE  LinksOf(L \cup LinksTo(n, S), m) = LinksOf(L, m)
<1>1. LinksOf(LinksTo(n, S), m) = {}
  BY DEF LinksOf, LinksTo
<1>2. LinksOf(L \cup LinksTo(n, S), m) = LinksOf(L, m) \cup LinksOf(LinksTo(n, S), m)
  BY LinksUnion
<1>. QED  BY <1>1, <1>2

LEMMA OwnLinks ==
  ASSUME NEW L, NEW S, NEW m
  PROVE  LinksOf(L \cup LinksTo(m.id, S), m) = LinksOf(L, m) \cup S
<1>1. \A r \in S : r \in LinksOf(LinksTo(m.id, S), m)
  <2> TAKE r \in S
  <2>1. [message |-> m.id, result |-> r] \in LinksTo(m.id, S)
    BY DEF LinksTo
  <2> DEFINE l == [message |-> m.id, result |-> r]
  <2>2. l \in LinksTo(m.id, S) /\ l.message = m.id /\ l.result = r
    BY <2>1
  <2> HIDE DEF l
  <2>. QED  BY <2>2 DEF LinksOf
<1>2. LinksOf(LinksTo(m.id, S), m) = S
  BY <1>1 DEF LinksOf, LinksTo
<1>. QED  BY <1>2, LinksUnion

LEMMA SameLinks ==
  ASSUME NEW R, NEW L, NEW K, NEW m, NEW c, LinksOf(K, m) = LinksOf(L, m)
  PROVE  /\ Belongs(R, K, m, c) <=> Belongs(R, L, m, c)
         /\ LinkedTo(R, K, m, c) <=> LinkedTo(R, L, m, c)
BY DEF Belongs, LinkedTo, Manual

\* A further link, to a result newer than one linked already.
LEMMA NewerLink ==
  ASSUME NEW R, NEW L, NEW K, NEW m, NEW c, NEW r \in Nat, NEW q \in LinksOf(L, m),
         q < r, LinksOf(L, m) \subseteq Nat, LinksOf(K, m) = LinksOf(L, m) \cup {r}
  PROVE  Belongs(R, K, m, c) <=> Belongs(R, L, m, c)
<1>1. LinkedTo(R, K, m, c) <=> LinkedTo(R, L, m, c)
  BY DEF LinkedTo
<1>. QED  BY <1>1 DEF Belongs, Manual

-----------------------------------------------------------------------------
(* Merging *)

\* A message behind a full list stays behind every cut that list takes part in:
\* the merge of two lists, each cut at the limit, leaves out only what a cut of
\* all their rows could leave out.
LEMMA FullListBounds ==
  ASSUME NEW T, IsFiniteSet(T), T \subseteq Message, NEW A, A \subseteq T,
         NEW D, D \subseteq T, A \subseteq D, NEW B, Oldest(B, Limit, D),
         Cardinality(A) = Limit, NEW t \in Nat, \A x \in A : x.at <= t
  PROVE  \A x \in B : x.at <= t
<1>1. IsFiniteSet(A) /\ IsFiniteSet(B) /\ IsFiniteSet(D)
  BY FS_Subset DEF Oldest
<1>2. Cardinality(D) \in Nat /\ Cardinality(A) <= Cardinality(D)
  BY <1>1, FS_Subset, FS_CardinalityType
<1>3. CASE Cardinality(D) <= Limit
  <2>1. A = D
    BY <1>1, <1>2, <1>3, FS_Subset, LimitAssumption
  <2>. QED  BY <2>1 DEF Oldest
<1>4. CASE ~(Cardinality(D) <= Limit)
  <2>1. Cardinality(B) = Limit /\ B \subseteq D
    BY <1>4 DEF Oldest
  <2> SUFFICES ASSUME NEW x \in B, ~(x.at <= t) PROVE FALSE
    OBVIOUS
  <2>2. x \notin A /\ B # A
    OBVIOUS
  <2>3. ~(A \subseteq B)
    BY <1>1, <2>1, <2>2, FS_Subset
  <2>4. PICK y \in A : y \notin B
    BY <2>3
  <2>5. x.at <= y.at /\ y.at <= t
    BY <2>4 DEF Oldest
  <2>6. x \in Message /\ y \in Message
    BY <2>1, <2>4
  <2>. QED  BY <2>5, <2>6, BoundsAssumption DEF Message, Times
<1>. QED  BY <1>3, <1>4

\* So with either list of a merge.
LEMMA MergeBounds ==
  ASSUME NEW T, IsFiniteSet(T), T \subseteq Message, NEW K, NEW M, K \subseteq T,
         M \subseteq T, NEW B, Oldest(B, Limit, K \cup M), NEW n \in T,
         \/ Cardinality(K) = Limit /\ \A x \in K : x.at <= n.at
         \/ Cardinality(M) = Limit /\ \A x \in M : x.at <= n.at
  PROVE  \A x \in B : x.at <= n.at
<1> DEFINE D == K \cup M
<1>1. /\ D \subseteq T /\ K \subseteq D /\ M \subseteq D
      /\ Oldest(B, Limit, D)
  OBVIOUS
<1>2. n.at \in Nat
  BY BoundsAssumption DEF Message, Times
<1> HIDE DEF D
<1>3. CASE Cardinality(K) = Limit /\ \A x \in K : x.at <= n.at
  BY <1>1, <1>2, <1>3, FullListBounds
<1>4. CASE Cardinality(M) = Limit /\ \A x \in M : x.at <= n.at
  BY <1>1, <1>2, <1>4, FullListBounds
<1>. QED  BY <1>3, <1>4

\* A message that a cut leaves out lies behind all of the cut, which is full.
LEMMA LeftOut ==
  ASSUME NEW D, NEW B, Oldest(B, Limit, D), NEW m \in D, m \notin B
  PROVE  Cardinality(B) = Limit /\ \A x \in B : x.at <= m.at
BY DEF Oldest

-----------------------------------------------------------------------------
(* Linked Helper's steps *)

\* What a step of LH leaves as it was for the agent.
LHStep ==
  /\ UNCHANGED <<agentVars, hidden>>
  /\ msgs \subseteq msgs' /\ moved \subseteq moved' /\ torn \subseteq torn'
  /\ \A m \in msgs \ moved', c \in Campaigns :
       Belongs(results', links', m, c) <=> Belongs(results, links, m, c)
  /\ \A m \in msgs \ torn' :
       LinkedTo(results', links', m, reading) => LinkedTo(results, links, m, reading)
  /\ \A m \in msgs' \ msgs :
       /\ m.at = now
       /\ LinkedTo(results', links', m, reading) => m \in torn'

LEMMA LHKeeps ==
  ASSUME RepliesInv, LHStep
  PROVE  AttributionInv' /\ LinkedQueryInv' /\ NothingElseSkipped'
<1> USE DEF LHStep, agentVars
<1>1. AttributionInv'
  <2>1. \A c \in Campaigns : \A m \in stored[c] :
          m \in moved' \/ Belongs(results', links', m, c)
    BY DEF RepliesInv, AttributionInv, TypeOK
  <2>2. \A m \in linked : m \in moved' \/ Belongs(results', links', m, reading)
    BY DEF RepliesInv, AttributionInv, TypeOK
  <2>. QED  BY <2>1, <2>2 DEF RepliesInv, AttributionInv
<1>2. LinkedQueryInv'
  BY DEF RepliesInv, LinkedQueryInv
<1>3. NothingElseSkipped'
  <2> SUFFICES ASSUME NEW c \in Campaigns, NEW m \in msgs', m \notin moved' \cup torn' \cup hidden',
                      Belongs(results', links', m, c), m \notin stored[c],
                      NEW x \in stored[c], m.at < x.at
               PROVE  FALSE
    BY DEF NothingElseSkipped, Skipped
  <2>1. x \in msgs /\ x \in Message /\ now \in Nat
    BY BoundsAssumption DEF RepliesInv, TypeOK, Times
  <2>2. x.at <= now /\ x.at \in Nat
    BY <2>1, BoundsAssumption DEF RepliesInv, TablesInv, Message, Times
  <2>3. CASE m \in msgs
    BY <2>3 DEF RepliesInv, NothingElseSkipped, Skipped
  <2>4. CASE m \notin msgs
    BY <2>1, <2>2, <2>4
  <2>. QED  BY <2>3, <2>4
<1>. QED  BY <1>1, <1>2, <1>3

\* The links of a mirrored message refer to results there are.
LEMMA LinksExist ==
  ASSUME RepliesInv, NEW m
  PROVE  LinksOf(links, m) \subseteq DOMAIN results /\ LinksOf(links, m) \subseteq Nat
<1>1. LinksOf(links, m) \subseteq DOMAIN results
  BY DEF RepliesInv, TablesInv, LinksOf
<1>2. results \in Seq(Result)
  BY DEF RepliesInv, TypeOK
<1>3. DOMAIN results \subseteq Nat
  BY <1>2
<1>. QED  BY <1>1, <1>3

LEMMA TickKeeps ==
  ASSUME RepliesInv, Tick
  PROVE  TypeOK' /\ TablesInv' /\ StaysPut' /\ LHStep
<1> USE DEF Tick, lhVars, agentVars
<1>1. now \in Nat /\ MaxNow \in Nat
  BY BoundsAssumption DEF RepliesInv, TypeOK, Times
<1>2. TypeOK'
  <2>1. now' \in Times
    BY <1>1 DEF Times
  <2>. QED  BY <2>1 DEF RepliesInv, TypeOK
<1>3. TablesInv'
  <2>1. \A i \in DOMAIN results : results[i].at \in Nat
    <3> TAKE i \in DOMAIN results
    <3>1. results[i] \in Result
      BY DEF RepliesInv, TypeOK
    <3>. QED  BY <3>1, BoundsAssumption DEF Result, Times
  <2>2. \A m \in msgs : m.at \in Nat
    BY BoundsAssumption DEF RepliesInv, TypeOK, Message, Times
  <2>3. \A i \in DOMAIN results : results[i].at <= now'
    BY <1>1, <2>1 DEF RepliesInv, TablesInv
  <2>4. \A m \in msgs : m.at <= now'
    BY <1>1, <2>2 DEF RepliesInv, TablesInv
  <2>. QED  BY <2>3, <2>4 DEF RepliesInv, TablesInv
<1>4. StaysPut'
  BY DEF RepliesInv, StaysPut
<1>5. LHStep
  BY DEF LHStep
<1>. QED  BY <1>2, <1>3, <1>4, <1>5

LEMMA UpgradeKeeps ==
  ASSUME RepliesInv, Upgrade
  PROVE  TypeOK' /\ TablesInv' /\ StaysPut' /\ LHStep
<1> USE DEF Upgrade, agentVars
<1>1. TypeOK'
  BY DEF RepliesInv, TypeOK, Tables
<1>2. TablesInv' /\ StaysPut'
  BY DEF RepliesInv, TablesInv, StaysPut
<1>3. LHStep
  BY DEF LHStep
<1>. QED  BY <1>1, <1>2, <1>3

LEMMA ActKeeps ==
  ASSUME RepliesInv, NEW p \in People, NEW c \in Campaigns, Act(p, c)
  PROVE  TypeOK' /\ TablesInv' /\ StaysPut' /\ LHStep
<1> DEFINE x == [person |-> p, campaign |-> c, at |-> now]
<1>1. /\ results' = Append(results, x) /\ Len(results) < MaxResults
      /\ UNCHANGED <<now, msgs, links, schema, agentVars, torn, hidden>>
  BY DEF Act
<1>2. results \in Seq(Result) /\ x \in Result /\ now \in Nat
  BY BoundsAssumption DEF RepliesInv, TypeOK, Result, Times
<1> HIDE DEF x
<1>3. /\ DOMAIN results' = DOMAIN results \cup {Len(results) + 1}
      /\ \A i \in DOMAIN results : results'[i] = results[i]
      /\ results'[Len(results) + 1] = x
      /\ results' \in Seq(Result) /\ Len(results') <= MaxResults
  BY <1>1, <1>2, BoundsAssumption
<1>4. moved' = moved \cup {m \in msgs : \E d \in Campaigns :
         ~(Belongs(results, links, m, d) <=> Belongs(results', links', m, d))}
  BY DEF Act, Moves
<1>5. TypeOK'
  BY <1>1, <1>3, <1>4 DEF RepliesInv, TypeOK, agentVars
<1>6. TablesInv'
  <2>1. x.at = now
    BY DEF x
  <2>2. \A i \in DOMAIN results' : results'[i].at <= now
    BY <1>2, <1>3, <2>1 DEF RepliesInv, TablesInv
  <2>. QED  BY <1>1, <1>3, <2>2 DEF RepliesInv, TablesInv
<1>7. StaysPut'
  <2> SUFFICES ASSUME NEW m \in msgs, m.id \notin Tardy, NEW d \in Campaigns
               PROVE  Belongs(results', links', m, d) <=> Belongs(results, links, m, d)
    BY <1>4 DEF RepliesInv, StaysPut, TypeOK
  <2>1. m \in Message /\ m.sent < m.at /\ m.at <= now
    BY DEF RepliesInv, TypeOK, TablesInv
  <2>2. m.sent \in Nat /\ m.at \in Nat
    BY <2>1, BoundsAssumption DEF Message, Times
  <2>3. m.sent < x.at
    BY <1>2, <2>1, <2>2 DEF x
  <2>. QED  BY <1>1, <1>2, <2>1, <2>3, LinksExist, LaterResult
<1>8. LHStep
  <2>1. \A m \in msgs \ moved', d \in Campaigns :
          Belongs(results', links', m, d) <=> Belongs(results, links, m, d)
    BY <1>4
  <2>2. \A m \in msgs :
          LinkedTo(results', links', m, reading) => LinkedTo(results, links, m, reading)
    BY <1>1, <1>2, LinksExist, LinkedStays DEF agentVars
  <2>3. moved \subseteq moved'
    BY <1>4
  <2>. QED  BY <1>1, <2>1, <2>2, <2>3 DEF LHStep, agentVars
<1>. QED  BY <1>5, <1>6, <1>7, <1>8

LEMMA MirrorKeeps ==
  ASSUME RepliesInv, NEW m \in Message, NEW S \in SUBSET (1 .. MaxResults), Mirror(m, S)
  PROVE  TypeOK' /\ TablesInv' /\ StaysPut' /\ LHStep
<1>1. /\ \A x \in msgs : x.id # m.id
      /\ m.at = now /\ (m.id \in Tardy \/ m.sent < now)
      /\ S \subseteq DOMAIN results
      /\ msgs' = msgs \cup {m}
      /\ links' = links \cup {[message |-> m.id, result |-> r] : r \in S}
      /\ UNCHANGED <<now, results, schema, agentVars, moved, hidden>>
  BY DEF Mirror, ResultsOf
<1>2. /\ results \in Seq(Result) /\ now \in Nat /\ m.at \in Nat
      /\ IsFiniteSet(msgs) /\ msgs \subseteq Message
      /\ torn \subseteq msgs /\ links \in SUBSET Link
  BY BoundsAssumption DEF RepliesInv, TypeOK, Times, Message
<1>3. /\ torn \subseteq torn' /\ torn' \subseteq torn \cup {m}
      /\ ~LinkedTo(results, links, m, reading) /\ LinkedTo(results, links', m, reading)
           => m \in torn'
  BY DEF Mirror, Tears
<1>4. LinksOf(links, m) = {}
  <2>1. \A k \in links : k.message # m.id
    BY <1>1 DEF RepliesInv, TablesInv
  <2>. QED  BY <2>1 DEF LinksOf
<1>5. \A x \in msgs : LinksOf(links', x) = LinksOf(links, x)
  <2>1. links' = links \cup LinksTo(m.id, S)
    BY <1>1 DEF LinksTo
  <2>2. \A x \in msgs : LinksOf(links \cup LinksTo(m.id, S), x) = LinksOf(links, x)
    <3> TAKE x \in msgs
    <3>1. x.id # m.id
      BY <1>1
    <3>. QED  BY <3>1, OtherLinks
  <2>. QED  BY <2>1, <2>2
<1>6. TypeOK'
  <2>1. IsFiniteSet(msgs')
    BY <1>1, <1>2, FS_AddElement
  <2>2. links' \in SUBSET Link
    <3>1. \A r \in S : [message |-> m.id, result |-> r] \in Link
      BY DEF Link, Message
    <3>. QED  BY <1>1, <1>2, <3>1
  <2>. QED  BY <1>1, <1>2, <1>3, <2>1, <2>2 DEF RepliesInv, TypeOK, agentVars
<1>7. TablesInv'
  <2>1. \A x, y \in msgs' : x.id = y.id => x = y
    BY <1>1 DEF RepliesInv, TablesInv
  <2>2. \A k \in links' : k.result \in DOMAIN results /\ \E x \in msgs' : x.id = k.message
    <3> SUFFICES ASSUME NEW k \in links'
                 PROVE  k.result \in DOMAIN results /\ \E x \in msgs' : x.id = k.message
      OBVIOUS
    <3>1. CASE k \in links
      BY <1>1, <3>1 DEF RepliesInv, TablesInv
    <3>2. CASE k \notin links
      <4>1. PICK r \in S : k = [message |-> m.id, result |-> r]
        BY <1>1, <3>2
      <4>. QED  BY <1>1, <4>1
    <3>. QED  BY <3>1, <3>2
  <2>3. \A x \in msgs' : x.at <= now /\ (x.id \in Tardy \/ x.sent < x.at)
    BY <1>1, <1>2 DEF RepliesInv, TablesInv
  <2>. QED  BY <1>1, <2>1, <2>2, <2>3 DEF RepliesInv, TablesInv
<1>8. StaysPut'
  BY <1>1 DEF RepliesInv, StaysPut
<1>9. LHStep
  <2>1. \A x \in msgs, d \in Campaigns :
          Belongs(results', links', x, d) <=> Belongs(results, links, x, d)
    BY <1>1, <1>5, SameLinks DEF agentVars
  <2>2. \A x \in msgs :
          LinkedTo(results', links', x, reading) => LinkedTo(results, links, x, reading)
    BY <1>1, <1>5, SameLinks DEF agentVars
  <2>3. LinkedTo(results', links', m, reading) => m \in torn'
    <3>1. ~LinkedTo(results, links, m, reading)
      BY <1>4 DEF LinkedTo
    <3>. QED  BY <1>1, <1>3, <3>1 DEF agentVars
  <2>. QED  BY <1>1, <1>3, <2>1, <2>2, <2>3 DEF LHStep, agentVars
<1>. QED  BY <1>6, <1>7, <1>8, <1>9

LEMMA RelinkKeeps ==
  ASSUME RepliesInv, NEW m \in msgs, NEW r \in 1 .. MaxResults, Relink(m, r)
  PROVE  TypeOK' /\ TablesInv' /\ StaysPut' /\ LHStep
<1>1. /\ r \in DOMAIN results
      /\ m.id \in Tardy \/ \E q \in LinksOf(links, m) : q < r
      /\ links' = links \cup {[message |-> m.id, result |-> r]}
      /\ UNCHANGED <<now, results, msgs, schema, agentVars, hidden>>
  BY DEF Relink, ResultsOf
<1>2. /\ results \in Seq(Result) /\ msgs \subseteq Message
      /\ moved \subseteq msgs /\ torn \subseteq msgs /\ links \in SUBSET Link
  BY DEF RepliesInv, TypeOK
<1>3. /\ torn \subseteq torn' /\ torn' \subseteq torn \cup {m}
      /\ ~LinkedTo(results, links, m, reading) /\ LinkedTo(results, links', m, reading)
           => m \in torn'
  BY DEF Relink, Tears
<1>4. moved' = moved \cup {x \in msgs : \E d \in Campaigns :
         ~(Belongs(results, links, x, d) <=> Belongs(results', links', x, d))}
  BY DEF Relink, Moves
<1>5. links' = links \cup LinksTo(m.id, {r})
  BY <1>1 DEF LinksTo
<1>6. \A x \in msgs : x # m => LinksOf(links', x) = LinksOf(links, x)
  <2>1. \A x \in msgs : x # m => x.id # m.id
    BY DEF RepliesInv, TablesInv
  <2>2. \A x \in msgs : x # m =>
          LinksOf(links \cup LinksTo(m.id, {r}), x) = LinksOf(links, x)
    <3> SUFFICES ASSUME NEW x \in msgs, x # m
                 PROVE  LinksOf(links \cup LinksTo(m.id, {r}), x) = LinksOf(links, x)
      OBVIOUS
    <3>1. x.id # m.id
      BY <2>1
    <3>. QED  BY <3>1, OtherLinks
  <2>. QED  BY <1>5, <2>2
<1>7. LinksOf(links', m) = LinksOf(links, m) \cup {r}
  BY <1>5, OwnLinks
<1>8. TypeOK'
  <2>1. [message |-> m.id, result |-> r] \in Link
    BY <1>2 DEF Link, Message
  <2>2. links' \in SUBSET Link
    BY <1>1, <1>2, <2>1
  <2>. QED  BY <1>1, <1>2, <1>3, <1>4, <2>2 DEF RepliesInv, TypeOK, agentVars
<1>9. TablesInv'
  BY <1>1 DEF RepliesInv, TablesInv
<1>10. StaysPut'
  <2> SUFFICES ASSUME NEW x \in msgs, x.id \notin Tardy, NEW d \in Campaigns
               PROVE  Belongs(results', links', x, d) <=> Belongs(results, links, x, d)
    BY <1>4 DEF RepliesInv, StaysPut, TypeOK
  <2>1. CASE x # m
    BY <1>1, <1>6, <2>1, SameLinks
  <2>2. CASE x = m
    <3>1. PICK q \in LinksOf(links, m) : q < r
      BY <1>1, <2>2
    <3>2. r \in Nat /\ LinksOf(links, m) \subseteq Nat
      BY LinksExist
    <3>. QED  BY <1>1, <1>7, <2>2, <3>1, <3>2, NewerLink
  <2>. QED  BY <2>1, <2>2
<1>11. LHStep
  <2>1. \A x \in msgs \ moved', d \in Campaigns :
          Belongs(results', links', x, d) <=> Belongs(results, links, x, d)
    BY <1>4
  <2>2. \A x \in msgs \ torn' :
          LinkedTo(results', links', x, reading) => LinkedTo(results, links, x, reading)
    <3> TAKE x \in msgs \ torn'
    <3>1. CASE x # m
      BY <1>1, <1>6, <3>1, SameLinks DEF agentVars
    <3>2. CASE x = m
      BY <1>1, <1>3, <3>2 DEF agentVars
    <3>. QED  BY <3>1, <3>2
  <2>. QED  BY <1>1, <1>3, <1>4, <2>1, <2>2 DEF LHStep, agentVars
<1>. QED  BY <1>8, <1>9, <1>10, <1>11

-----------------------------------------------------------------------------
(* The agent's steps *)

LEMMA ProfileTyped ==
  ASSUME TypeOK, ProfileFor
  PROVE  profile' \in (SUBSET Tables) \cup {NoProfile} /\ misreads' \in 0 .. MaxMisreads
<1>1. CASE profile # NoProfile
  BY <1>1 DEF TypeOK, ProfileFor
<1>2. CASE profile = NoProfile /\ profile' = schema /\ UNCHANGED misreads
  BY <1>2 DEF TypeOK
<1>3. CASE /\ misreads < MaxMisreads /\ misreads' = misreads + 1
           /\ profile' \in {schema \cap S : S \in Probed} \ {schema}
  <2>1. misreads' \in 0 .. MaxMisreads
    BY <1>3, FaultsAssumption DEF TypeOK
  <2>2. profile' \in SUBSET Tables
    BY <1>3 DEF TypeOK
  <2>. QED  BY <2>1, <2>2
<1>. QED  BY <1>1, <1>2, <1>3 DEF ProfileFor

LEMMA QueryLinkedKeeps ==
  ASSUME RepliesInv, NEW c \in Campaigns, QueryLinked(c)
  PROVE  RepliesInv'
<1>1. /\ UNCHANGED <<now, results, msgs, links, schema, stored, restarts, moved, torn, hidden>>
      /\ reading' = c /\ ProfileFor
  BY DEF QueryLinked, lhVars
<1>2. PICK t \in Times :
        /\ IsCursor(t, c)
        /\ linked' \subseteq msgs
        /\ Oldest(linked', Limit, LinkedDue(c, t))
  BY DEF QueryLinked
<1>3. TypeOK'
  <2>1. profile' \in (SUBSET Tables) \cup {NoProfile} /\ misreads' \in 0 .. MaxMisreads
    BY <1>1, ProfileTyped DEF RepliesInv
  <2>. QED  BY <1>1, <1>2, <2>1 DEF RepliesInv, TypeOK
<1>4. AttributionInv'
  <2>1. \A m \in linked' : LinkedTo(results, links, m, c)
    BY <1>2 DEF Oldest, LinkedDue
  <2>. QED  BY <1>1, <2>1, NoCampaignAssumption DEF RepliesInv, AttributionInv, Belongs
<1>5. LinkedQueryInv'
  <2> SUFFICES ASSUME NEW m \in msgs \ linked', LinkedTo(results, links, m, c),
                      LinkedTables \subseteq profile'
               PROVE  \/ \E x \in stored[c] : m.at < x.at
                      \/ Cardinality(linked') = Limit /\ \A x \in linked' : x.at <= m.at
    BY <1>1 DEF LinkedQueryInv
  <2>1. CASE m.at >= t
    <3>1. m \in LinkedDue(c, t)
      BY <2>1 DEF LinkedDue
    <3>. QED  BY <1>2, <3>1, LeftOut
  <2>2. CASE ~(m.at >= t)
    <3>1. t \in Nat /\ m.at \in Nat
      BY BoundsAssumption DEF RepliesInv, TypeOK, Message, Times
    <3>. QED  BY <1>2, <2>2, <3>1 DEF IsCursor
  <2>. QED  BY <2>1, <2>2
<1>. QED  BY <1>1, <1>3, <1>4, <1>5
          DEF RepliesInv, StaysPut, TablesInv, NothingElseSkipped, Skipped

\* A batch may be delivered if it is of its campaign and leaves nothing behind
\* that the profile lets it see.
LEMMA DeliverKeeps ==
  ASSUME RepliesInv, reading \in Campaigns, NEW B, B \subseteq msgs, Deliver(B),
         \A m \in B : m \in moved \/ Belongs(results, links, m, reading),
         \A m \in msgs \ (moved \cup torn \cup hidden \cup stored[reading] \cup B) :
           Belongs(results, links, m, reading) /\ m \notin Unseen(reading)
             => \A x \in B : x.at <= m.at
  PROVE  RepliesInv'
<1>1. /\ UNCHANGED <<now, results, msgs, links, schema, profile, misreads, restarts, moved, torn>>
      /\ reading' = NoCampaign /\ linked' = {}
      /\ stored' = [stored EXCEPT ![reading] = @ \cup B]
      /\ hidden' = hidden \cup Unseen(reading)
  BY DEF Deliver, lhVars
<1>2. \A c \in Campaigns : stored'[c] = IF c = reading THEN stored[c] \cup B ELSE stored[c]
  BY <1>1 DEF RepliesInv, TypeOK
<1>3. TypeOK'
  <2>1. Unseen(reading) \subseteq msgs
    BY DEF Unseen
  <2>. QED  BY <1>1, <2>1 DEF RepliesInv, TypeOK
<1>4. AttributionInv'
  BY <1>1, <1>2 DEF RepliesInv, AttributionInv
<1>5. LinkedQueryInv'
  BY <1>1 DEF LinkedQueryInv
<1>6. NothingElseSkipped'
  <2> SUFFICES ASSUME NEW c \in Campaigns, NEW m \in msgs, m \notin moved \cup torn \cup hidden',
                      Belongs(results, links, m, c), m \notin stored'[c],
                      NEW x \in stored'[c], m.at < x.at
               PROVE  FALSE
    BY <1>1 DEF NothingElseSkipped, Skipped
  <2>1. CASE x \in stored[c]
    BY <1>1, <1>2, <2>1 DEF RepliesInv, NothingElseSkipped, Skipped
  <2>2. CASE x \notin stored[c]
    <3>1. c = reading /\ x \in B /\ m \notin B /\ m \notin stored[c]
      BY <1>2, <2>2
    <3>2. m \notin hidden /\ m \notin Unseen(reading)
      BY <1>1
    <3>3. x.at <= m.at
      BY <3>1, <3>2
    <3>4. x.at \in Nat /\ m.at \in Nat
      BY <3>1, BoundsAssumption DEF RepliesInv, TypeOK, Message, Times
    <3>. QED  BY <3>3, <3>4
  <2>. QED  BY <2>1, <2>2
<1>. QED  BY <1>1, <1>3, <1>4, <1>5, <1>6 DEF RepliesInv, StaysPut, TablesInv

LEMMA QueryManualKeeps ==
  ASSUME RepliesInv, QueryManual
  PROVE  RepliesInv'
<1> DEFINE Exempt == moved \cup torn \cup hidden
<1>1. reading \in Campaigns /\ linked \subseteq msgs /\ msgs \subseteq Message /\ IsFiniteSet(msgs)
  BY DEF QueryManual, RepliesInv, TypeOK
<1>2. \A m \in msgs : m.at \in Nat
  BY <1>1, BoundsAssumption DEF Message, Times
\* What has not arrived is not below the cursor.
<1>3. ASSUME NEW m \in msgs \ (Exempt \cup stored[reading]),
             Belongs(results, links, m, reading)
      PROVE  \A x \in stored[reading] : ~(m.at < x.at)
  BY <1>1, <1>3 DEF RepliesInv, NothingElseSkipped, Skipped
\* Nor is it in front of a full linked list.
<1>4. ASSUME NEW m \in msgs \ (Exempt \cup stored[reading]), m \notin linked,
             LinkedTo(results, links, m, reading), m \notin Unseen(reading)
      PROVE  Cardinality(linked) = Limit /\ \A x \in linked : x.at <= m.at
  <2>1. Belongs(results, links, m, reading)
    BY <1>4 DEF Belongs
  <2>2. reading # NoCampaign
    BY <1>1, NoCampaignAssumption
  <2>3. LinkedTables \subseteq profile
    BY <1>4 DEF Unseen
  <2>. QED  BY <1>3, <1>4, <2>1, <2>2, <2>3 DEF RepliesInv, LinkedQueryInv
<1>5. CASE ~(ManualTables \subseteq profile)
  <2>1. Deliver(linked)
    BY <1>5 DEF QueryManual
  <2>2. \A m \in msgs \ (Exempt \cup stored[reading] \cup linked) :
          Belongs(results, links, m, reading) /\ m \notin Unseen(reading)
            => \A x \in linked : x.at <= m.at
    BY <1>4, <1>5 DEF Belongs, Unseen
  <2>3. \A m \in linked : m \in moved \/ Belongs(results, links, m, reading)
    BY DEF RepliesInv, AttributionInv
  <2>. QED  BY <1>1, <2>1, <2>2, <2>3, DeliverKeeps
<1>6. CASE ManualTables \subseteq profile
  <2>1. PICK t \in Times :
          /\ IsCursor(t, reading)
          /\ \E M, B \in SUBSET msgs :
               /\ Oldest(M, Limit, {m \in msgs : Manual(results, links, m, reading) /\ m.at >= t})
               /\ Merged(B, linked, M)
               /\ Deliver(B)
    BY <1>6 DEF QueryManual
  <2>2. PICK M \in SUBSET msgs, B \in SUBSET msgs :
          /\ Oldest(M, Limit, {m \in msgs : Manual(results, links, m, reading) /\ m.at >= t})
          /\ Oldest(B, Limit, linked \cup M)
          /\ Deliver(B)
    BY <2>1 DEF Merged
  <2>3. \A m \in B : m \in moved \/ Belongs(results, links, m, reading)
    <3>1. \A m \in M : Belongs(results, links, m, reading)
      BY <2>2 DEF Oldest, Belongs
    <3>2. B \subseteq linked \cup M
      BY <2>2 DEF Oldest
    <3>. QED  BY <3>1, <3>2 DEF RepliesInv, AttributionInv
  <2>4. ASSUME NEW m \in msgs \ (Exempt \cup stored[reading] \cup B),
               Belongs(results, links, m, reading), m \notin Unseen(reading)
        PROVE  \A x \in B : x.at <= m.at
    <3>1. CASE m \in linked \cup M
      BY <2>2, <2>4, <3>1, LeftOut
    <3>2. CASE LinkedTo(results, links, m, reading) /\ m \notin linked
      <4>1. Cardinality(linked) = Limit /\ \A x \in linked : x.at <= m.at
        BY <1>4, <2>4, <3>2
      <4>2. linked \subseteq msgs /\ M \subseteq msgs /\ m \in msgs
        BY <1>1, <2>2, <2>4
      <4>3. Oldest(B, Limit, linked \cup M)
        BY <2>2
      <4>. QED  BY <1>1, <4>1, <4>2, <4>3, MergeBounds
    <3>3. CASE Manual(results, links, m, reading) /\ m \notin M
      <4>1. m.at >= t
        <5>1. \A x \in stored[reading] : ~(m.at < x.at)
          BY <1>3, <2>4
        <5>2. t \in Nat /\ m.at \in Nat
          BY <1>2, BoundsAssumption DEF Times
        <5>. QED  BY <2>1, <5>1, <5>2 DEF IsCursor
      <4>2. Cardinality(M) = Limit /\ \A x \in M : x.at <= m.at
        BY <2>2, <3>3, <4>1, LeftOut
      <4>3. linked \subseteq msgs /\ M \subseteq msgs /\ m \in msgs
        BY <1>1, <2>2, <2>4
      <4>4. Oldest(B, Limit, linked \cup M)
        BY <2>2
      <4>. QED  BY <1>1, <4>2, <4>3, <4>4, MergeBounds
    <3>. QED  BY <2>4, <3>1, <3>2, <3>3 DEF Belongs
  <2>. QED  BY <1>1, <2>2, <2>3, <2>4, DeliverKeeps
<1>. QED  BY <1>5, <1>6

LEMMA FailQueryKeeps ==
  ASSUME RepliesInv, FailQuery
  PROVE  RepliesInv'
<1> USE DEF FailQuery, lhVars
<1>. QED  BY DEF RepliesInv, TypeOK, StaysPut, TablesInv, AttributionInv,
                 LinkedQueryInv, NothingElseSkipped, Skipped

\* A new process has no collection under way and no profile.
LEMMA RestartKeeps ==
  ASSUME RepliesInv, Restart
  PROVE  RepliesInv'
<1> USE DEF Restart, lhVars
<1>1. TypeOK'
  <2>1. restarts' \in 0 .. MaxRestarts
    BY FaultsAssumption DEF RepliesInv, TypeOK
  <2>2. profile' \in (SUBSET Tables) \cup {NoProfile}
    OBVIOUS
  <2>. QED  BY <2>1, <2>2 DEF RepliesInv, TypeOK
<1>2. StaysPut' /\ TablesInv' /\ AttributionInv' /\ LinkedQueryInv' /\ NothingElseSkipped'
  BY DEF RepliesInv, StaysPut, TablesInv, AttributionInv, LinkedQueryInv,
         NothingElseSkipped, Skipped
<1>. QED  BY <1>1, <1>2 DEF RepliesInv

-----------------------------------------------------------------------------
(* The theorems *)

LEMMA InitReplies == Init => RepliesInv
<1> SUFFICES ASSUME Init PROVE RepliesInv
  OBVIOUS
<1> USE DEF Init
<1>1. TypeOK
  <2>1. IsFiniteSet(msgs) /\ 1 \in Times
    BY FS_EmptySet, BoundsAssumption DEF Times
  <2>2. misreads \in 0 .. MaxMisreads /\ restarts \in 0 .. MaxRestarts
    BY FaultsAssumption
  <2>3. schema \in SUBSET Tables
    BY SchemasAssumption DEF Tables
  <2>4. profile \in (SUBSET Tables) \cup {NoProfile}
    OBVIOUS
  <2>5. results \in Seq(Result) /\ Len(results) <= MaxResults
    BY BoundsAssumption
  <2>. QED  BY <2>1, <2>2, <2>3, <2>4, <2>5 DEF TypeOK
<1>2. TablesInv /\ StaysPut /\ AttributionInv /\ LinkedQueryInv /\ NothingElseSkipped
  BY DEF TablesInv, StaysPut, AttributionInv, LinkedQueryInv, NothingElseSkipped, Skipped
<1>. QED  BY <1>1, <1>2 DEF RepliesInv

LEMMA RepliesStep == RepliesInv /\ [Next]_vars => RepliesInv'
<1> SUFFICES ASSUME RepliesInv, [Next]_vars PROVE RepliesInv'
  OBVIOUS
<1>1. CASE LinkedHelper
  <2>1. TypeOK' /\ TablesInv' /\ StaysPut' /\ LHStep
    BY <1>1, TickKeeps, UpgradeKeeps, ActKeeps, MirrorKeeps, RelinkKeeps DEF LinkedHelper
  <2>. QED  BY <2>1, LHKeeps DEF RepliesInv
<1>2. CASE Collect
  BY <1>2, QueryLinkedKeeps, QueryManualKeeps, FailQueryKeeps DEF Collect
<1>3. CASE Restart
  BY <1>3, RestartKeeps
<1>4. CASE UNCHANGED vars
  BY <1>4 DEF vars, lhVars, agentVars, RepliesInv, TypeOK, StaysPut, TablesInv,
              AttributionInv, LinkedQueryInv, NothingElseSkipped, Skipped
<1>. QED  BY <1>1, <1>2, <1>3, <1>4 DEF Next

\* The invariant of the queries holds throughout.
THEOREM RepliesInvariant == Spec => []RepliesInv
<1>. QED  BY InitReplies, RepliesStep, PTL DEF Spec

\* A message stays with the campaign it had when LH mirrored it, however many
\* campaigns act on its author or are linked to it afterwards.
THEOREM AttributionSettled == Spec => []StaysPut
<1>1. RepliesInv => StaysPut
  BY DEF RepliesInv
<1>. QED  BY <1>1, RepliesInvariant, PTL

\* No reply that stays put is stored under two campaigns.
THEOREM OneAttribution == Spec => []OneCampaign
<1>1. RepliesInv => OneCampaign
  BY OneClaim DEF RepliesInv, TypeOK, AttributionInv, OneCampaign
<1>. QED  BY <1>1, RepliesInvariant, PTL

\* Two queries, two limits and a merge skip no reply but those that change
\* between the queries, and those the profile kept a collection from seeing.
THEOREM MergedQueriesSkipNothing == Spec => []NothingElseSkipped
<1>1. RepliesInv => NothingElseSkipped
  BY DEF RepliesInv
<1>. QED  BY <1>1, RepliesInvariant, PTL

=============================================================================

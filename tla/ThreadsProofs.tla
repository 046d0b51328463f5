---------------------------- MODULE ThreadsProofs ----------------------------
(***************************************************************************)
(* A thread contains the reply it goes with, for any campaigns, people,    *)
(* messages, limit, tables and bounds, if the profile has what the thread  *)
(* is read from.  The two queries of a collection and the two of a thread  *)
(* run at different moments, but under one profile and over tables that    *)
(* only grow: the link or the chat that let the former find a reply is     *)
(* there for the latter.  The profile alone may not be enough for them:    *)
(* the linked query of a thread asks for a table no linked reply needs.    *)
(***************************************************************************)
EXTENDS Threads, RepliesProofs

-----------------------------------------------------------------------------
(* Links *)

LEMMA LinkedHasLink ==
  ASSUME LinkingInv, NEW m \in msgs, NEW c, LinkedTo(results, links, m, c)
  PROVE  HasLink(m, c)
<1>1. PICK r \in LinksOf(links, m) : results[r].campaign = c
  BY DEF LinkedTo
<1>2. PICK k \in links : k.message = m.id /\ k.result = r
  BY <1>1 DEF LinksOf
<1>. QED  BY <1>1, <1>2 DEF LinkingInv, HasLink

\* readLinkedThread returns a message that the campaign has a link for.
LEMMA LinkedThreadHolds ==
  ASSUME NEW m, NEW c, HasLink(m, c)
  PROVE  m.id \in Held(LinkedThread(m.person, c))
BY DEF HasLink, Held, LinkedThread

\* mergeThread keeps what it is given, adds what the chat has besides, and
\* leaves the entries of a linked message as they are.
LEMMA MergeThreadKeeps ==
  ASSUME NEW E, NEW raw
  PROVE  /\ Held(E) \cup raw \subseteq Held(MergeThread(E, raw))
         /\ \A e \in MergeThread(E, raw) : e.message \in Held(E) => e \in E
<1> DEFINE Besides == {[message |-> i, result |-> NoResult] : i \in raw \ Held(E)}
<1>1. \A i \in raw \ Held(E) : i \in Held(Besides)
  <2> SUFFICES ASSUME NEW i \in raw \ Held(E) PROVE i \in Held(Besides)
    OBVIOUS
  <2>1. [message |-> i, result |-> NoResult] \in Besides
    OBVIOUS
  <2>2. [message |-> i, result |-> NoResult].message = i
    OBVIOUS
  <2> HIDE DEF Besides
  <2>. QED  BY <2>1, <2>2 DEF Held
<1>2. \A e \in Besides : e.message \notin Held(E)
  OBVIOUS
<1>3. MergeThread(E, raw) = E \cup Besides
  BY DEF MergeThread
<1> HIDE DEF Besides
<1>4. Held(E \cup Besides) = Held(E) \cup Held(Besides)
  <2>1. \A S : \A i : i \in Held(S) <=> \E e \in S : i = e.message
    BY DEF Held
  <2>. QED  BY <2>1
<1>. QED  BY <1>1, <1>2, <1>3, <1>4

\* So a message of the chat is in the thread of its author, linked or not.
LEMMA ChatThreadHolds ==
  ASSUME NEW m \in chat
  PROVE  m.id \in ChatThread(m.person)
BY DEF ChatThread

-----------------------------------------------------------------------------
(* Linked Helper's steps *)

\* LH's tables only grow, and what is mirrored enters the chat then or never.
Grows ==
  /\ chat \subseteq chat' /\ links \subseteq links' /\ msgs \subseteq msgs'
  /\ chat' \cap msgs \subseteq chat
  /\ \A i \in DOMAIN results : i \in DOMAIN results' /\ results'[i] = results[i]

LEMMA GrowthKeepsLinks ==
  ASSUME RepliesInv, Grows, NEW m, NEW c, HasLink(m, c)
  PROVE  HasLink(m, c)'
<1>1. PICK k \in links : /\ k.message = m.id
                         /\ results[k.result].person = m.person
                         /\ results[k.result].campaign = c
  BY DEF HasLink
<1>2. k.result \in DOMAIN results
  BY DEF RepliesInv, TablesInv
<1>. QED  BY <1>1, <1>2 DEF Grows, HasLink

LEMMA LHGrows ==
  ASSUME RepliesInv, Mirroring
  PROVE  Grows /\ UNCHANGED <<agentVars, threadVars>>
<1>0. chat \subseteq chat' /\ chat' \cap msgs \subseteq chat /\ UNCHANGED threadVars
  BY DEF Mirroring
<1>1. CASE Tick \/ Upgrade
  BY <1>0, <1>1 DEF Tick, Upgrade, Grows
<1>2. ASSUME NEW p \in People, NEW c \in Campaigns, Act(p, c)
      PROVE  Grows /\ UNCHANGED agentVars
  <2>1. PICK x : results' = Append(results, x)
    BY <1>2 DEF Act
  <2>2. results \in Seq(Result)
    BY DEF RepliesInv, TypeOK
  <2>3. \A i \in DOMAIN results : i \in DOMAIN results' /\ results'[i] = results[i]
    BY <2>1, <2>2
  <2>. QED  BY <1>0, <1>2, <2>3 DEF Act, Grows
<1>3. ASSUME NEW m \in Message, NEW S \in SUBSET (1 .. MaxResults), Mirror(m, S)
      PROVE  Grows /\ UNCHANGED agentVars
  BY <1>0, <1>3 DEF Mirror, Grows
<1>4. ASSUME NEW m \in msgs, NEW r \in 1 .. MaxResults, Relink(m, r)
      PROVE  Grows /\ UNCHANGED agentVars
  BY <1>0, <1>4 DEF Relink, Grows
<1>. QED  BY <1>0, <1>1, <1>2, <1>3, <1>4 DEF Mirroring, LinkedHelper

\* A step that brings no message and whose new links, if any, are of one message
\* and results of its author.
LEMMA LinkingKept ==
  ASSUME RepliesInv, LinkingInv, Grows, msgs' = msgs, chat' \subseteq msgs,
         NEW m \in msgs,
         \A k \in links' \ links :
           k.message = m.id /\ results'[k.result].person = m.person
  PROVE  LinkingInv'
<1>1. \A x \in msgs : LinksOf(links', x) = {} => LinksOf(links, x) = {}
  BY DEF Grows, LinksOf
<1>2. ASSUME NEW k \in links', NEW x \in msgs, k.message = x.id
      PROVE  results'[k.result].person = x.person
  <2>1. CASE k \in links
    <3>1. k.result \in DOMAIN results
      BY <2>1 DEF RepliesInv, TablesInv
    <3>. QED  BY <1>2, <2>1, <3>1 DEF LinkingInv, Grows
  <2>2. CASE k \notin links
    <3>1. x = m
      BY <1>2, <2>2 DEF RepliesInv, TablesInv
    <3>. QED  BY <2>2, <3>1
  <2>. QED  BY <2>1, <2>2
<1>. QED  BY <1>1, <1>2 DEF LinkingInv, Grows

LEMMA SameLinkingKept ==
  ASSUME RepliesInv, LinkingInv, Grows, UNCHANGED <<msgs, chat, links>>
  PROVE  LinkingInv'
<1>1. ASSUME NEW k \in links, NEW x \in msgs, k.message = x.id
      PROVE  results'[k.result].person = x.person
  <2>1. k.result \in DOMAIN results
    BY DEF RepliesInv, TablesInv
  <2>. QED  BY <1>1, <2>1 DEF LinkingInv, Grows
<1>. QED  BY <1>1 DEF LinkingInv

LEMMA MirroringKeepsLinking ==
  ASSUME RepliesInv, LinkingInv, Mirroring
  PROVE  LinkingInv'
<1>0. Grows
  BY LHGrows
<1>c. msgs' = msgs => chat' = chat
  BY DEF Mirroring
<1>1. CASE Tick \/ Upgrade
  BY <1>0, <1>1, <1>c, SameLinkingKept DEF Tick, Upgrade
<1>2. ASSUME NEW p \in People, NEW c \in Campaigns, Act(p, c) PROVE LinkingInv'
  BY <1>0, <1>2, <1>c, SameLinkingKept DEF Act
<1>3. ASSUME NEW m \in msgs, NEW r \in 1 .. MaxResults, Relink(m, r) PROVE LinkingInv'
  <2>1. /\ msgs' = msgs /\ results' = results /\ results[r].person = m.person
        /\ links' = links \cup {[message |-> m.id, result |-> r]}
    BY <1>3 DEF Relink, ResultsOf
  <2>2. \A k \in links' \ links :
          k.message = m.id /\ results'[k.result].person = m.person
    BY <2>1
  <2>3. chat' \subseteq msgs
    BY <1>c, <2>1 DEF LinkingInv
  <2>. QED  BY <1>0, <2>1, <2>2, <2>3, LinkingKept
<1>4. ASSUME NEW m \in Message, NEW S \in SUBSET (1 .. MaxResults), Mirror(m, S)
      PROVE  LinkingInv'
  <2>1. /\ \A x \in msgs : x.id # m.id
        /\ msgs' = msgs \cup {m} /\ results' = results
        /\ \A r \in S : results[r].person = m.person
        /\ links' = links \cup {[message |-> m.id, result |-> r] : r \in S}
        /\ "chat" \in schema \/ S # {}
    BY <1>4 DEF Mirror, ResultsOf
  <2>2. chat' = IF "chat" \in schema THEN chat \cup {m} ELSE chat
    BY <2>1 DEF Mirroring
  <2>3. ASSUME NEW k \in links', k \notin links
        PROVE  k.message = m.id /\ results[k.result].person = m.person
    <3>1. PICK r \in S : k = [message |-> m.id, result |-> r]
      BY <2>1, <2>3
    <3>2. k.message = m.id /\ k.result = r
      BY <3>1
    <3>. QED  BY <2>1, <3>2
  <2>4. ASSUME NEW x \in msgs', LinksOf(links', x) = {} PROVE x \in chat'
    <3>1. CASE x \in msgs
      <4>1. LinksOf(links, x) = {}
        BY <2>1, <2>4 DEF LinksOf
      <4>. QED  BY <2>2, <3>1, <4>1 DEF LinkingInv
    <3>2. CASE x = m
      <4>1. CASE "chat" \in schema
        BY <2>2, <3>2, <4>1
      <4>2. CASE "chat" \notin schema
        <5>1. PICK r \in S : TRUE
          BY <2>1, <4>2
        <5>2. [message |-> m.id, result |-> r] \in links'
          BY <2>1
        <5>3. r \in LinksOf(links', m)
          <6>1. [message |-> m.id, result |-> r].message = m.id
                /\ [message |-> m.id, result |-> r].result = r
            OBVIOUS
          <6>. QED  BY <5>2, <6>1 DEF LinksOf
        <5>. QED  BY <2>4, <3>2, <5>3
      <4>. QED  BY <4>1, <4>2
    <3>. QED  BY <2>1, <3>1, <3>2
  <2>5. ASSUME NEW k \in links', NEW x \in msgs', k.message = x.id
        PROVE  results'[k.result].person = x.person
    <3>1. CASE k \in links
      <4>1. x \in msgs
        BY <2>1, <2>5, <3>1 DEF RepliesInv, TablesInv
      <4>. QED  BY <2>1, <2>5, <3>1, <4>1 DEF LinkingInv
    <3>2. CASE k \notin links
      <4>1. k.message = m.id /\ results[k.result].person = m.person
        BY <2>3, <3>2
      <4>2. x = m
        BY <2>1, <2>5, <4>1
      <4>. QED  BY <2>1, <4>1, <4>2
    <3>. QED  BY <3>1, <3>2
  <2>6. chat' \subseteq msgs'
    BY <2>1, <2>2 DEF LinkingInv
  <2>. QED  BY <2>4, <2>5, <2>6 DEF LinkingInv
<1>. QED  BY <1>1, <1>2, <1>3, <1>4 DEF Mirroring, LinkedHelper

\* What the agent is about to find stays findable while the tables grow.
LEMMA GrowthKeepsFindable ==
  ASSUME RepliesInv, FindableInv, ThreadHoldsReply, Grows,
         UNCHANGED <<agentVars, threadVars>>
  PROVE  FindableInv' /\ ThreadHoldsReply'
<1>1. \A m, c : HasLink(m, c) => HasLink(m, c)'
  BY GrowthKeepsLinks
<1>2. chat \subseteq chat' /\ msgs \subseteq msgs' /\ begun \subseteq msgs
  BY DEF Grows, FindableInv
<1>3. \A m \in begun : Traceable(m)' => Traceable(m)
  BY <1>2 DEF Grows, Traceable, agentVars
<1>4. FindableInv'
  BY <1>1, <1>2, <1>3 DEF FindableInv, agentVars, threadVars
<1>. QED  BY <1>3, <1>4 DEF ThreadHoldsReply, threadVars

-----------------------------------------------------------------------------
(* The agent's steps *)

LEMMA CollectingKeeps ==
  ASSUME ThreadsInv, NEW c \in Campaigns, CollectLinked(c)
  PROVE  FindableInv'
<1>1. /\ due = {} /\ begun = {} /\ due' = {} /\ begun' = {} /\ thread' = thread
      /\ QueryLinked(c)
  BY DEF CollectLinked, Collecting, threadVars
<1>2. PICK t \in Times :
        \E K \in SUBSET msgs : Oldest(K, Limit, LinkedDue(c, t)) /\ linked' = K
  BY <1>1 DEF QueryLinked
<1>3. linked' \subseteq LinkedDue(c, t)
  BY <1>2 DEF Oldest
<1>4. reading' = c /\ links' = links /\ results' = results
  BY <1>1 DEF QueryLinked, lhVars
<1>5. ASSUME NEW m \in linked' PROVE "links" \in profile' /\ HasLink(m, reading)'
  <2>1. m \in msgs /\ "links" \in profile' /\ LinkedTo(results, links, m, c)
    BY <1>3 DEF LinkedDue, LinkedTables
  <2>2. HasLink(m, c)
    BY <2>1, LinkedHasLink DEF ThreadsInv
  <2>. QED  BY <1>4, <2>1, <2>2 DEF HasLink
<1>. QED  BY <1>1, <1>5 DEF FindableInv, ThreadsInv

\* The batch a collection ends with.
LEMMA CollectRepliesKeeps ==
  ASSUME ThreadsInv, CollectReplies
  PROVE  FindableInv'
<1>1. /\ due = {} /\ begun = {} /\ begun' = {} /\ thread' = thread
      /\ campaign' = reading /\ due' \subseteq stored'[reading] \ stored[reading]
      /\ QueryManual /\ chat' = chat
  BY DEF CollectReplies
<1>2. /\ reading \in Campaigns /\ stored \in [Campaigns -> SUBSET msgs]
      /\ linked \subseteq msgs
  BY <1>1 DEF QueryManual, ThreadsInv, RepliesInv, TypeOK
<1>3. /\ reading' = NoCampaign /\ links' = links /\ results' = results /\ profile' = profile
  BY <1>1 DEF QueryManual, Deliver, lhVars
<1>4. ASSUME NEW B, Deliver(B) PROVE due' \subseteq B
  <2>1. stored'[reading] = stored[reading] \cup B
    BY <1>2, <1>4 DEF Deliver
  <2>. QED  BY <1>1, <2>1
<1>b. msgs' = msgs /\ due' \subseteq msgs
  <2>1. stored' \in [Campaigns -> SUBSET msgs]
    <3>1. RepliesInv'
      BY <1>1, QueryManualKeeps DEF ThreadsInv
    <3>2. msgs' = msgs
      BY <1>1 DEF QueryManual, Deliver, lhVars
    <3>. QED  BY <3>1, <3>2 DEF RepliesInv, TypeOK
  <2>2. msgs' = msgs
    BY <1>1 DEF QueryManual, Deliver, lhVars
  <2>. QED  BY <1>1, <1>2, <2>1, <2>2
<1>5. ASSUME NEW m \in due'
      PROVE  \/ m \in linked
             \/ "chat" \in profile /\ m \in msgs /\ LinksOf(links, m) = {}
  <2>1. CASE ~(ManualTables \subseteq profile)
    BY <1>1, <1>4, <1>5, <2>1 DEF QueryManual
  <2>2. CASE ManualTables \subseteq profile
    <3>1. PICK t \in Times :
            \E M, B \in SUBSET msgs :
              /\ Oldest(M, Limit, {x \in msgs : Manual(results, links, x, reading)
                                                  /\ x.at >= t})
              /\ Merged(B, linked, M)
              /\ Deliver(B)
      BY <1>1, <2>2 DEF QueryManual
    <3>2. PICK M \in SUBSET msgs, B \in SUBSET msgs :
            /\ Oldest(M, Limit, {x \in msgs : Manual(results, links, x, reading)
                                                /\ x.at >= t})
            /\ Merged(B, linked, M)
            /\ Deliver(B)
      BY <3>1
    <3>3. m \in linked \cup M
      BY <1>4, <1>5, <3>2 DEF Merged, Oldest
    <3>4. \A x \in M : x \in msgs /\ Manual(results, links, x, reading)
      BY <3>2 DEF Oldest
    <3>. QED  BY <2>2, <3>3, <3>4 DEF Manual, ManualTables
  <2>. QED  BY <2>1, <2>2
<1>6. ASSUME NEW m \in due'
      PROVE  ("links" \in profile /\ HasLink(m, reading)) \/ ("chat" \in profile /\ m \in chat)
  <2>1. CASE m \in linked
    BY <1>1, <2>1 DEF QueryManual, ThreadsInv, FindableInv
  <2>2. CASE "chat" \in profile /\ m \in msgs /\ LinksOf(links, m) = {}
    BY <2>2 DEF ThreadsInv, LinkingInv
  <2>. QED  BY <1>5, <2>1, <2>2
<1>7. \A m, c : HasLink(m, c) => HasLink(m, c)'
  BY <1>3 DEF HasLink
<1>8. \A m \in due' \cup begun' :
        \/ "links" \in profile' /\ HasLink(m, campaign)'
        \/ "chat" \in profile' /\ m \in chat'
  <2> SUFFICES ASSUME NEW m \in due'
               PROVE  \/ "links" \in profile' /\ HasLink(m, campaign)'
                      \/ "chat" \in profile' /\ m \in chat'
    BY <1>1
  <2>1. HasLink(m, reading) => HasLink(m, campaign)'
    BY <1>1, <1>3 DEF HasLink
  <2>. QED  BY <1>1, <1>3, <1>6, <2>1
<1>. QED  BY <1>1, <1>3, <1>8, <1>b DEF FindableInv, ThreadsInv

\* The queries of a thread.
LEMMA ReadThreadsKeeps ==
  ASSUME ThreadsInv, ReadThreads
  PROVE  FindableInv' /\ ThreadHoldsReply'
<1>0. UNCHANGED <<vars, chat, campaign>>
  BY DEF ReadThreads, QueryLinkedThread, QueryChatThread, LeaveThread
<1>a. \A m, c : HasLink(m, c) => HasLink(m, c)'
  BY <1>0 DEF HasLink, vars, lhVars
<1>b. /\ linked' = linked /\ reading' = reading /\ profile' = profile /\ campaign' = campaign
      /\ chat' = chat
  BY <1>0 DEF vars, agentVars
<1>c. reading' # NoCampaign =>
        \A m \in linked' : "links" \in profile' /\ HasLink(m, reading)'
  BY <1>0, <1>b DEF ThreadsInv, FindableInv, HasLink, vars, lhVars
<1>d. \A m \in due \cup begun :
        \/ "links" \in profile' /\ HasLink(m, campaign)'
        \/ "chat" \in profile' /\ m \in chat'
  BY <1>0, <1>b DEF ThreadsInv, FindableInv, HasLink, vars, lhVars
<1>e. /\ \A m : Traceable(m)' <=> Traceable(m)
      /\ msgs' = msgs /\ due \cup begun \subseteq msgs
  BY <1>0, <1>b DEF Traceable, ThreadsInv, FindableInv, vars, lhVars
<1>1. ASSUME NEW m \in due, QueryLinkedThread(m) PROVE FindableInv' /\ ThreadHoldsReply'
  <2>1. /\ due' \cup begun' \subseteq due \cup begun /\ begun' = {m} /\ begun = {}
        /\ thread' = thread
        /\ walked' = IF ThreadTables \subseteq profile THEN LinkedThread(m.person, campaign) ELSE {}
    BY <1>1 DEF QueryLinkedThread
  <2>2. thread' = NoThread
    BY <2>1 DEF ThreadsInv, FindableInv
  <2>3. ASSUME Traceable(m)
        PROVE  m.id \in Held(walked') \/ ("chat" \in profile /\ m \in chat)
    <3>1. CASE "links" \in profile /\ "history" \in profile /\ HasLink(m, campaign)
      <4>1. walked' = LinkedThread(m.person, campaign)
        BY <2>1, <3>1 DEF ThreadTables
      <4>. QED  BY <3>1, <4>1, LinkedThreadHolds
    <3>. QED  BY <2>3, <3>1 DEF ThreadsInv, FindableInv, Traceable
  <2>. QED  BY <1>b, <1>c, <1>d, <1>e, <2>1, <2>2, <2>3 DEF FindableInv, ThreadHoldsReply
<1>2. ASSUME NEW m \in begun, QueryChatThread(m) PROVE FindableInv' /\ ThreadHoldsReply'
  <2>1. /\ due' = due /\ begun' = begun /\ walked' = walked
        /\ thread' = IF "chat" \in profile THEN MergeThread(walked, ChatThread(m.person))
                                           ELSE walked
    BY <1>2 DEF QueryChatThread
  <2>2. FindableInv'
    BY <1>b, <1>c, <1>d, <1>e, <1>2, <2>1 DEF FindableInv, ThreadsInv
  <2>3. \A e \in thread' : e.message \in Held(walked) => e \in walked
    BY <2>1, MergeThreadKeeps
  <2>4. ASSUME Traceable(m) PROVE m.id \in Held(thread')
    <3>1. m.id \in Held(walked) \/ ("chat" \in profile /\ m.id \in ChatThread(m.person))
      BY <1>2, <2>4, ChatThreadHolds DEF ThreadsInv, FindableInv
    <3>. QED  BY <2>1, <3>1, MergeThreadKeeps
  <2>5. \A n \in begun : n = m
    BY <1>2 DEF ThreadsInv, FindableInv
  <2>. QED  BY <1>e, <2>1, <2>2, <2>3, <2>4, <2>5 DEF ThreadHoldsReply
<1>3. CASE LeaveThread
  <2>1. due' = due /\ begun' = {} /\ thread' = NoThread
    BY <1>3 DEF LeaveThread
  <2>. QED  BY <1>c, <1>d, <1>e, <2>1 DEF FindableInv, ThreadHoldsReply
<1>. QED  BY <1>1, <1>2, <1>3 DEF ReadThreads

-----------------------------------------------------------------------------
(* The theorems *)

LEMMA ThreadsStepIsStep == ThreadsNext => [Next]_vars
BY DEF ThreadsNext, Mirroring, CollectLinked, Collecting, CollectReplies, ReadThreads,
       QueryLinkedThread, QueryChatThread, LeaveThread, Next, Collect

LEMMA InitThreads == ThreadsInit => ThreadsInv
<1> SUFFICES ASSUME ThreadsInit PROVE ThreadsInv
  OBVIOUS
<1>1. RepliesInv
  BY InitReplies DEF ThreadsInit
<1>2. LinkingInv /\ FindableInv /\ ThreadHoldsReply
  BY DEF ThreadsInit, Init, LinkingInv, FindableInv, ThreadHoldsReply
<1>. QED  BY <1>1, <1>2 DEF ThreadsInv

LEMMA ThreadsStep == ThreadsInv /\ [ThreadsNext]_allVars => ThreadsInv'
<1> SUFFICES ASSUME ThreadsInv, [ThreadsNext]_allVars PROVE ThreadsInv'
  OBVIOUS
<1>0. RepliesInv'
  <2>1. [Next]_vars
    BY ThreadsStepIsStep DEF allVars
  <2>. QED  BY <2>1, RepliesStep DEF ThreadsInv
<1>a. ASSUME UNCHANGED <<lhVars, chat>> PROVE LinkingInv'
  BY <1>a DEF ThreadsInv, LinkingInv, lhVars
<1>b. ASSUME begun' = {} PROVE ThreadHoldsReply'
  BY <1>b DEF ThreadHoldsReply
<1>1. CASE Mirroring
  BY <1>0, <1>1, LHGrows, MirroringKeepsLinking, GrowthKeepsFindable DEF ThreadsInv
<1>2. ASSUME NEW c \in Campaigns, CollectLinked(c) PROVE ThreadsInv'
  <2>1. UNCHANGED <<lhVars, chat>> /\ begun' = {}
    BY <1>2 DEF CollectLinked, Collecting, QueryLinked, threadVars
  <2>. QED  BY <1>0, <1>2, <1>a, <1>b, <2>1, CollectingKeeps DEF ThreadsInv
<1>3. CASE Collecting(FailQuery) \/ Collecting(Restart)
  <2>1. /\ UNCHANGED <<lhVars, chat, threadVars>> /\ due = {} /\ begun = {}
        /\ reading' = NoCampaign /\ begun' = {}
    BY <1>3 DEF Collecting, FailQuery, Restart, threadVars
  <2>2. FindableInv'
    BY <2>1 DEF ThreadsInv, FindableInv, threadVars
  <2>. QED  BY <1>0, <1>a, <1>b, <2>1, <2>2 DEF ThreadsInv
<1>4. CASE CollectReplies
  <2>1. UNCHANGED <<lhVars, chat>> /\ begun' = {}
    BY <1>4 DEF CollectReplies, QueryManual, Deliver
  <2>. QED  BY <1>0, <1>4, <1>a, <1>b, <2>1, CollectRepliesKeeps DEF ThreadsInv
<1>5. CASE ReadThreads
  <2>1. UNCHANGED <<lhVars, chat>>
    BY <1>5 DEF ReadThreads, QueryLinkedThread, QueryChatThread, LeaveThread, vars
  <2>. QED  BY <1>0, <1>5, <1>a, <2>1, ReadThreadsKeeps DEF ThreadsInv
<1>6. CASE UNCHANGED allVars
  <2>1. UNCHANGED <<lhVars, agentVars, chat, threadVars>>
    BY <1>6 DEF allVars, vars
  <2>2. Grows
    BY <2>1 DEF Grows, lhVars
  <2>. QED  BY <1>0, <1>a, <2>1, <2>2, GrowthKeepsFindable DEF ThreadsInv
<1>. QED  BY <1>1, <1>2, <1>3, <1>4, <1>5, <1>6 DEF ThreadsNext

\* Where the profile has the history, or the chat store that the reply is in, a
\* reply's thread contains the reply, whatever LH wrote between the query that
\* returned it and those of its thread, and mergeThread keeps the actions of what
\* LH had linked.
THEOREM ThreadsHoldTheirReplies == ThreadsSpec => []ThreadHoldsReply
<1>1. ThreadsInv => ThreadHoldsReply
  BY DEF ThreadsInv
<1>. QED  BY <1>1, InitThreads, ThreadsStep, PTL DEF ThreadsSpec

\* Reading the threads adds no step to the collection of replies: what holds of
\* the steps of Replies holds with the threads, too.
THEOREM ThreadsLeaveReplies == ThreadsSpec => Spec
<1>1. ThreadsInit => Init
  BY DEF ThreadsInit
<1>2. [ThreadsNext]_allVars => [Next]_vars
  BY ThreadsStepIsStep DEF allVars
<1>. QED  BY <1>1, <1>2, PTL DEF ThreadsSpec, Spec

=============================================================================

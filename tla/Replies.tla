------------------------------ MODULE Replies ------------------------------
(***************************************************************************)
(* Where the rows of the reply feed come from.  LH mirrors the messages of *)
(* the people its campaigns target, and links those it recognises as       *)
(* answers to the action results they answer.  ReadCampaignReplies asks    *)
(* for a campaign's linked replies, then, in a second query, for the       *)
(* manual ones: messages without a link, written after the campaign was    *)
(* the last to act on their author.  mergeReplies cuts the two lists to    *)
(* one batch.  LH writes its tables all the while.                         *)
(*                                                                         *)
(* Either query is left out if lh.db has not the tables for it, and that   *)
(* is looked up once per process: the Reader caches what its probes saw.   *)
(* A probe that fails counts as a missing table, whichever it is, and an   *)
(* upgrade of LH may bring tables the cached profile does not know of.     *)
(*                                                                         *)
(* FeedSync takes such a read for one step and its rows for ones that stay *)
(* with their campaign and appear in order.  This module says when they do *)
(* and what is lost when they do not; a report is delivered at once here.  *)
(***************************************************************************)
EXTENDS Integers, Sequences, FiniteSets

CONSTANTS
  Campaigns,    \* campaign ids of one account
  People,       \* persons they target
  Messages,     \* identities of the messages these may write
  Tardy,        \* those LH may link late, or LinkedIn stamps by a clock ahead
  MaxNow,       \* last millisecond of the model's clock
  MaxResults,   \* most action results
  MaxCluster,   \* most messages mirrored in one millisecond
  Limit,        \* replyBatchLimit
  Schemas,      \* what the agent may find lh.db capable of
  Probed,       \* the sets of tables whose probes may be the ones that succeed
  MaxMisreads,  \* most capability profiles built from failing probes
  MaxRestarts   \* most restarts of the agent

ASSUME CampaignsAssumption == Campaigns \subseteq Nat
ASSUME TardyAssumption == Tardy \subseteq Messages
ASSUME BoundsAssumption == MaxNow \in Nat \ {0} /\ MaxResults \in Nat
ASSUME ClusterAssumption == MaxCluster \in Nat \ {0}
ASSUME LimitAssumption == Limit \in Nat \ {0}
ASSUME FaultsAssumption == MaxMisreads \in Nat /\ MaxRestarts \in Nat

VARIABLES
  now,       \* LH's clock
  results,   \* action results, in the order of their ids
  msgs,      \* messages mirrored from LinkedIn
  links,     \* action_result_messages: which message answers which result
  schema,    \* the tables lh.db has
  stored,    \* the platform's replies of each campaign
  reading,   \* the campaign whose manual query is next, or none
  linked,    \* what its linked query returned
  profile,   \* the tables the Reader has seen, or none looked up yet
  misreads,  \* profiles built from failing probes
  restarts,
  moved,     \* history: messages whose campaign changed after their mirroring
  torn,      \* history: replies linked between the two queries of their campaign
  hidden     \* history: replies a collection had not the profile to see

lhVars == <<now, results, msgs, links, schema>>
agentVars == <<stored, reading, linked, profile, misreads, restarts>>
vars == <<lhVars, agentVars, moved, torn, hidden>>

-----------------------------------------------------------------------------
(* The tables and what the queries make of them *)

\* No campaign has the id 0.
NoCampaign == 0
ASSUME NoCampaignAssumption == NoCampaign \notin Campaigns

\* What the queries ask the profile for, in groups no query tells apart: the links
\* of messages to results, those results with their actions, who was acted on by
\* which campaign, and the chat store.  messages and message_external_ids count
\* with each: without either no reply is found, as without any table.
Tables == {"links", "steps", "history", "chat"}

\* LH before it kept messages, before it had a chat store, and since.
ASSUME SchemasAssumption == Schemas \subseteq {{}, Tables \ {"chat"}, Tables}

\* The tables of the linked query, and those of the manual one.
LinkedTables == {"links", "steps"}
ManualTables == {"chat", "history"}

\* The profile of a Reader that has not looked.
NoProfile == {"none"}

Times == 0 .. MaxNow

\* result_created_at and messages.created_at are LH's clock, send_at is LinkedIn's.
Result == [person : People, campaign : Campaigns, at : Times]
Message == [id : Messages, person : People, sent : Times, at : Times]
Link == [message : Messages, result : 1 .. MaxResults]

\* The results message m is linked to in the table L.
LinksOf(L, m) == {k.result : k \in {l \in L : l.message = m.id}}

\* Slip: the newest link of a message counts.
LinkedToNewest(R, L, m, c) ==
  \E r \in LinksOf(L, m) :
    /\ \A q \in LinksOf(L, m) : q <= r
    /\ R[r].campaign = c

\* reply_links keeps the oldest link of a message, MIN(action_result_id).
LinkedTo(R, L, m, c) ==
  \E r \in LinksOf(L, m) :
    /\ \A q \in LinksOf(L, m) : r <= q
    /\ R[r].campaign = c

\* The results that touched the author of m before m was written.
Touching(R, m) == {i \in DOMAIN R : R[i].person = m.person /\ R[i].at <= m.sent}

\* The last of them is one of c; of several in a millisecond, the lowest
\* campaign id wins.
Claims(R, m, c) ==
  \E i \in Touching(R, m) :
    /\ R[i].campaign = c
    /\ \A j \in Touching(R, m) :
         \/ R[j].at < R[i].at
         \/ R[j].at = R[i].at /\ c <= R[j].campaign

\* Slip: linked messages are not left out of the manual ones.
ManualAnyway(R, L, m, c) == Claims(R, m, c)

Manual(R, L, m, c) == LinksOf(L, m) = {} /\ Claims(R, m, c)

\* m is a reply of campaign c.
Belongs(R, L, m, c) == LinkedTo(R, L, m, c) \/ Manual(R, L, m, c)

\* B is the n oldest of the messages due; those of one millisecond come in any
\* order.
Oldest(B, n, due) ==
  /\ B \subseteq due
  /\ \A x \in B, y \in due \ B : x.at <= y.at
  /\ IF Cardinality(due) <= n THEN B = due ELSE Cardinality(B) = n

\* Slip: the manual replies are appended to the linked ones, not sorted in.
MergedUnsorted(B, K, M) ==
  /\ B \subseteq K \cup M
  /\ \/ B = K \cup M /\ Cardinality(B) <= Limit
     \/ Cardinality(B) = Limit /\ (B \subseteq K \/ K \subseteq B)

\* mergeReplies: the oldest of linked replies K and manual replies M.
Merged(B, K, M) == Oldest(B, Limit, K \cup M)

\* The cursor of campaign c: its newest reply on the platform, 0 if none.
IsCursor(t, c) ==
  /\ \A m \in stored[c] : m.at <= t
  /\ t = 0 \/ \E m \in stored[c] : m.at = t

-----------------------------------------------------------------------------
Init ==
  /\ now = 1
  /\ results = <<>>
  /\ msgs = {}
  /\ links = {}
  /\ schema \in Schemas
  /\ stored = [c \in Campaigns |-> {}]
  /\ reading = NoCampaign
  /\ linked = {}
  /\ profile = NoProfile
  /\ misreads = 0 /\ restarts = 0
  /\ moved = {}
  /\ torn = {}
  /\ hidden = {}

-----------------------------------------------------------------------------
(* Linked Helper *)

\* Which messages go to another campaign, or to none, by this step.
Moves ==
  moved' = moved \cup
    {m \in msgs : \E c \in Campaigns :
       ~(Belongs(results, links, m, c) <=> Belongs(results', links', m, c))}

\* Message m becomes a linked reply of the campaign whose linked query is over.
Tears(m) ==
  torn' = IF ~LinkedTo(results, links, m, reading) /\ LinkedTo(results, links', m, reading)
            THEN torn \cup {m} ELSE torn

Tick ==
  /\ now < MaxNow
  /\ now' = now + 1
  /\ UNCHANGED <<results, msgs, links, schema, agentVars, moved, torn, hidden>>

\* An upgrade of LH brings the tables; what they hold is mirrored afterwards.
Upgrade ==
  /\ schema # Tables
  /\ schema' = Tables
  /\ UNCHANGED <<now, results, msgs, links, agentVars, moved, torn, hidden>>

\* A campaign acts on a person.
Act(p, c) ==
  /\ Len(results) < MaxResults
  /\ results' = Append(results, [person |-> p, campaign |-> c, at |-> now])
  /\ UNCHANGED <<now, msgs, links, schema, agentVars, torn, hidden>>
  /\ Moves

\* Results that a message of person p can be linked to.
ResultsOf(p) == {i \in DOMAIN results : results[i].person = p}

\* LH mirrors message m, with the links S it has for it; without a chat store it
\* has no place for other messages, and without links for none.
Mirror(m, S) ==
  /\ m.id \notin {x.id : x \in msgs}
  /\ Cardinality({x \in msgs : x.at = now}) < MaxCluster
  /\ m.at = now
  /\ m.id \in Tardy \/ m.sent < now
  /\ S \subseteq ResultsOf(m.person)
  /\ "links" \in schema
  /\ "chat" \in schema \/ S # {}
  /\ msgs' = msgs \cup {m}
  /\ links' = links \cup {[message |-> m.id, result |-> r] : r \in S}
  /\ Tears(m)
  /\ UNCHANGED <<now, results, schema, agentVars, moved, hidden>>

\* Another campaign's CheckForReplies finds a message that is linked already;
\* only a tardy message gets its first link, or an older one, like this.
Relink(m, r) ==
  /\ r \in ResultsOf(m.person) \ LinksOf(links, m)
  /\ m.id \in Tardy \/ \E q \in LinksOf(links, m) : q < r
  /\ links' = links \cup {[message |-> m.id, result |-> r]}
  /\ Tears(m)
  /\ UNCHANGED <<now, results, msgs, schema, agentVars, hidden>>
  /\ Moves

-----------------------------------------------------------------------------
(* The agent: appendReplies over the account's campaigns, cycle after cycle *)

\* profileFor: BuildDBProfile takes a table whose probe fails for one that is not
\* there, and what it returns stays for the Reader's lifetime.
ProfileFor ==
  IF profile # NoProfile THEN UNCHANGED <<profile, misreads>>
  ELSE \/ profile' = schema /\ UNCHANGED misreads
       \/ /\ misreads < MaxMisreads
          /\ misreads' = misreads + 1
          /\ profile' \in {schema \cap S : S \in Probed} \ {schema}

\* Slip: a database without the chat store is not asked at all.
LinkedDueAll(c, t) ==
  {m \in msgs : profile' = Tables /\ LinkedTo(results, links, m, c) /\ m.at >= t}

\* What the linked query asks for.
LinkedDue(c, t) ==
  {m \in msgs : LinkedTables \subseteq profile' /\ LinkedTo(results, links, m, c) /\ m.at >= t}

\* readLinkedReplies.
QueryLinked(c) ==
  /\ reading = NoCampaign
  /\ ProfileFor
  /\ \E t \in Times :
       /\ IsCursor(t, c)
       /\ \E K \in SUBSET msgs : Oldest(K, Limit, LinkedDue(c, t)) /\ linked' = K
  /\ reading' = c
  /\ UNCHANGED <<lhVars, stored, restarts, moved, torn, hidden>>

\* Replies of campaign c that are there and that the profile keeps from being
\* asked for.
Unseen(c) ==
  {m \in msgs \ stored[c] : \/ LinkedTo(results, links, m, c) /\ ~(LinkedTables \subseteq profile)
                            \/ Manual(results, links, m, c) /\ ~(ManualTables \subseteq profile)}

\* Batch B is reported, and the campaign is done.
Deliver(B) ==
  /\ stored' = [stored EXCEPT ![reading] = @ \cup B]
  /\ hidden' = hidden \cup Unseen(reading)
  /\ reading' = NoCampaign
  /\ linked' = {}
  /\ UNCHANGED <<lhVars, profile, misreads, restarts, moved, torn>>

\* readManualReplies, if the profile has its tables, and mergeReplies.  Any link
\* keeps a message out of the manual ones; those of what people write are replies.
QueryManual ==
  /\ reading # NoCampaign
  /\ IF ~(ManualTables \subseteq profile)
       THEN Deliver(linked)
       ELSE \E t \in Times :
              /\ IsCursor(t, reading)
              /\ \E M, B \in SUBSET msgs :
                   /\ Oldest(M, Limit, {m \in msgs : Manual(results, links, m, reading)
                                                     /\ m.at >= t})
                   /\ Merged(B, linked, M)
                   /\ Deliver(B)

\* Slip: what the linked query returned is reported all the same.
FailQueryShips == reading # NoCampaign /\ Deliver(linked)

\* Either query fails: the campaign's replies wait for the next cycle.
FailQuery ==
  /\ reading # NoCampaign
  /\ reading' = NoCampaign
  /\ linked' = {}
  /\ UNCHANGED <<lhVars, stored, profile, misreads, restarts, moved, torn, hidden>>

\* The process ends and starts again, with a new Reader.
Restart ==
  /\ restarts < MaxRestarts
  /\ restarts' = restarts + 1
  /\ profile' = NoProfile
  /\ reading' = NoCampaign
  /\ linked' = {}
  /\ UNCHANGED <<lhVars, stored, misreads, moved, torn, hidden>>

-----------------------------------------------------------------------------
LinkedHelper ==
  \/ Tick \/ Upgrade
  \/ \E p \in People, c \in Campaigns : Act(p, c)
  \/ \E m \in Message, S \in SUBSET (1 .. MaxResults) : Mirror(m, S)
  \/ \E m \in msgs, r \in 1 .. MaxResults : Relink(m, r)

Collect == (\E c \in Campaigns : QueryLinked(c)) \/ QueryManual \/ FailQuery

Next == LinkedHelper \/ Collect \/ Restart

Spec == Init /\ [][Next]_vars

-----------------------------------------------------------------------------
(* Properties *)

\* Every variable has its type.
TypeOK ==
  /\ now \in Times
  /\ results \in Seq(Result) /\ Len(results) <= MaxResults
  /\ msgs \in SUBSET Message /\ IsFiniteSet(msgs)
  /\ links \in SUBSET Link
  /\ schema \in SUBSET Tables
  /\ profile \in (SUBSET Tables) \cup {NoProfile}
  /\ misreads \in 0 .. MaxMisreads /\ restarts \in 0 .. MaxRestarts
  /\ stored \in [Campaigns -> SUBSET msgs]
  /\ reading \in Campaigns \cup {NoCampaign}
  /\ linked \in SUBSET msgs
  /\ moved \in SUBSET msgs /\ torn \in SUBSET msgs /\ hidden \in SUBSET msgs

\* The campaign of a message is settled when LH mirrors it: later actions on its
\* author, and further links, leave it where it is.  It takes a tardy message, one
\* linked late or stamped by a clock ahead of LH's, to move.
StaysPut == \A m \in moved : m.id \in Tardy

\* Every reply is emitted with one campaign attribution, whatever links it has
\* and whoever else targets its author, as long as it does not move.
OneCampaign ==
  \A m \in msgs \ moved : \A c, d \in Campaigns :
    m \in stored[c] /\ m \in stored[d] => c = d

\* The replies of campaign c that lie below its cursor but did not arrive: the
\* agent will never ask for them again.
Skipped(c) ==
  {m \in msgs : /\ Belongs(results, links, m, c)
                /\ m \notin stored[c]
                /\ \E x \in stored[c] : m.at < x.at}

\* Whatever the limit cuts off the two lists, whatever LH writes between their
\* queries and whichever tables the Reader believes there are, a reply is only
\* skipped if it moved to the campaign, was linked between its two queries, or
\* was there for a collection whose profile hid it.
NothingElseSkipped == \A c \in Campaigns : Skipped(c) \subseteq moved \cup torn \cup hidden

\* In the end every reply there is has arrived, or is one of those.
AllArrive ==
  <>[](\A m \in msgs, c \in Campaigns :
         Belongs(results, links, m, c) => m \in stored[c] \cup moved \cup torn \cup hidden)

\* The comments on ReadCampaignReplies and mergeReplies: a reply is never skipped
\* at a batch boundary, and what the cap drops is picked up next cycle.
NoneSkipped == \A c \in Campaigns : Skipped(c) \subseteq moved

-----------------------------------------------------------------------------
(* What the proofs need beyond the properties. *)

\* Messages have identities, links refer to rows there are, and nothing is
\* stamped by a time to come, save the send_at of tardy messages.
TablesInv ==
  /\ \A m, n \in msgs : m.id = n.id => m = n
  /\ \A k \in links : k.result \in DOMAIN results /\ \E m \in msgs : m.id = k.message
  /\ \A i \in DOMAIN results : results[i].at <= now
  /\ \A m \in msgs : m.at <= now /\ (m.id \in Tardy \/ m.sent < m.at)

\* What is stored, or about to be, is stored under its campaign.
AttributionInv ==
  /\ \A c \in Campaigns : \A m \in stored[c] :
       m \in moved \/ Belongs(results, links, m, c)
  /\ \A m \in linked : m \in moved \/ Belongs(results, links, m, reading)
  /\ reading = NoCampaign => linked = {}

\* A linked reply that the linked query left out lies below the cursor, or behind
\* a list that is full.
LinkedQueryInv ==
  reading # NoCampaign /\ LinkedTables \subseteq profile =>
    \A m \in msgs \ (moved \cup torn \cup hidden \cup linked) :
      LinkedTo(results, links, m, reading) =>
        \/ \E x \in stored[reading] : m.at < x.at
        \/ Cardinality(linked) = Limit /\ \A x \in linked : x.at <= m.at

\* The inductive invariant.
RepliesInv ==
  /\ TypeOK /\ StaysPut
  /\ TablesInv /\ AttributionInv /\ LinkedQueryInv
  /\ NothingElseSkipped

=============================================================================

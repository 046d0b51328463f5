------------------------------ MODULE Threads ------------------------------
(***************************************************************************)
(* The conversations that go with new replies.  When a batch of replies    *)
(* has been collected (Replies), attachThreads reads, for each that is     *)
(* newer than the cursor, the messages LH has linked to the campaign's     *)
(* results, then, in a second query, the person's chat, and mergeThread    *)
(* folds the second into the first.  LH goes on writing in between.        *)
(*                                                                         *)
(* Replies delivers a batch at once; here its threads are read after that, *)
(* before anything else is collected.  Messages that we wrote differ from  *)
(* the person's in direction only and are left out.                        *)
(***************************************************************************)
EXTENDS Replies

VARIABLES
  chat,      \* participant_messages: messages in LH's chat store
  campaign,  \* the campaign whose replies were collected last
  due,       \* its replies whose threads are still to be read
  begun,     \* the reply whose thread is being read, if any
  walked,    \* what the linked query returned for it
  thread     \* the merged thread, if both queries are over

threadVars == <<campaign, due, begun, walked, thread>>
allVars == <<vars, chat, threadVars>>

-----------------------------------------------------------------------------
(* Entries are links; one with the result NoResult is of the chat alone. *)

NoResult == 0
NoThread == {[message |-> "none", result |-> NoResult]}

Held(entries) == {e.message : e \in entries}

\* threadTables; the linked replies are read without the history.
ThreadTables == {"history", "links"}

\* readLinkedThread: every link of the campaign's results with the person.
LinkedThread(p, c) ==
  {k \in links : results[k.result].person = p /\ results[k.result].campaign = c}

\* Slip: like the manual query, only what no campaign has a link for.
ChatThreadUnlinked(p) ==
  {m.id : m \in {x \in chat : x.person = p /\ LinksOf(links, x) = {}}}

\* readChatThread: the messages of the person's conversations.
ChatThread(p) == {m.id : m \in {x \in chat : x.person = p}}

\* mergeThread: what the chat has besides.
MergeThread(linkedEntries, raw) ==
  linkedEntries \cup
    {[message |-> i, result |-> NoResult] : i \in raw \ Held(linkedEntries)}

-----------------------------------------------------------------------------
ThreadsInit ==
  /\ Init
  /\ chat = {}
  /\ campaign = NoCampaign
  /\ due = {} /\ begun = {}
  /\ walked = {} /\ thread = NoThread

\* What LH mirrors it also puts into its chat store, if it has one.
Mirroring ==
  /\ LinkedHelper
  /\ chat' = IF "chat" \in schema THEN chat \cup (msgs' \ msgs) ELSE chat
  /\ UNCHANGED threadVars

\* No thread is to be read.  A process that ends while there is has not reported
\* the batch either, and might as well have ended before it.
Collecting(A) == due = {} /\ begun = {} /\ A /\ UNCHANGED <<chat, threadVars>>

\* The batch, and of its replies those newer than the cursor it was read from.
CollectReplies ==
  /\ due = {} /\ begun = {}
  /\ QueryManual
  /\ \E t \in Times :
       /\ IsCursor(t, reading)
       /\ due' = {m \in stored'[reading] \ stored[reading] : t = 0 \/ m.at > t}
  /\ campaign' = reading
  /\ UNCHANGED <<chat, begun, walked, thread>>

\* ReadCampaignThread's linked query; a profile without its tables makes it empty,
\* which is no error.
QueryLinkedThread(m) ==
  /\ m \in due /\ begun = {}
  /\ due' = due \ {m}
  /\ begun' = {m}
  /\ walked' = IF ThreadTables \subseteq profile THEN LinkedThread(m.person, campaign) ELSE {}
  /\ UNCHANGED <<vars, chat, campaign, thread>>

\* Its chat query, if the profile has the chat store, and mergeThread.
QueryChatThread(m) ==
  /\ m \in begun /\ thread = NoThread
  /\ thread' = IF "chat" \in profile THEN MergeThread(walked, ChatThread(m.person))
                                     ELSE walked
  /\ UNCHANGED <<vars, chat, campaign, due, begun, walked>>

\* Either query fails, and the reply goes without its thread, or the thread has
\* been attached to it.
LeaveThread ==
  /\ begun # {}
  /\ begun' = {} /\ walked' = {} /\ thread' = NoThread
  /\ UNCHANGED <<vars, chat, campaign, due>>

ReadThreads ==
  \/ \E m \in due : QueryLinkedThread(m)
  \/ \E m \in begun : QueryChatThread(m)
  \/ LeaveThread

CollectLinked(c) == Collecting(QueryLinked(c))

ThreadsNext ==
  \/ Mirroring
  \/ \E c \in Campaigns : CollectLinked(c)
  \/ Collecting(FailQuery) \/ Collecting(Restart)
  \/ CollectReplies
  \/ ReadThreads

\* Every cycle asks for every campaign the platform knows, and not every query
\* fails; the threads of a batch are read, or reading them fails.
ThreadsSpec ==
  /\ ThreadsInit /\ [][ThreadsNext]_allVars
  /\ SF_allVars(CollectReplies)
  /\ \A c \in Campaigns : SF_allVars(CollectLinked(c))
  /\ WF_allVars(ReadThreads)

-----------------------------------------------------------------------------
(* Properties *)

\* The profile lets a thread query find reply m.  One that has not the history can
\* yet have the tables the linked replies are read from; then only the chat is left.
Traceable(m) == "history" \in profile \/ ("chat" \in profile /\ m \in chat)

\* A thread contains the reply it is attached to, although LH may link the reply,
\* or find an older link for it, at any moment between the query that returned it
\* and those of its thread, unless the profile lacks the history and the reply is
\* not in a chat the profile has.  What LH had linked to the campaign by then
\* keeps its action.
ThreadHoldsReply ==
  \A m \in begun : thread # NoThread =>
    /\ Traceable(m) => m.id \in Held(thread)
    /\ \A e \in thread : e.message \in Held(walked) => e \in walked

-----------------------------------------------------------------------------
(* What the proofs need beyond the properties. *)

\* LH has linked message m to a result of campaign c.
HasLink(m, c) ==
  \E k \in links : /\ k.message = m.id
                   /\ results[k.result].person = m.person
                   /\ results[k.result].campaign = c

\* Of LH's tables: a message without a link is in the chat store, and the results
\* a message is linked to are those of its author.
LinkingInv ==
  /\ chat \subseteq msgs
  /\ \A m \in msgs : LinksOf(links, m) = {} => m \in chat
  /\ \A k \in links, m \in msgs :
       k.message = m.id => results[k.result].person = m.person

\* What a collection found, the queries of the thread find again: a linked reply
\* in its campaign's links if the profile has the history, any other in the chat.
FindableInv ==
  /\ reading # NoCampaign =>
       \A m \in linked : "links" \in profile /\ HasLink(m, reading)
  /\ \A m \in due \cup begun :
       \/ "links" \in profile /\ HasLink(m, campaign)
       \/ "chat" \in profile /\ m \in chat
  /\ \A m \in begun :
       Traceable(m) => m.id \in Held(walked) \/ ("chat" \in profile /\ m \in chat)
  /\ due \cup begun \subseteq msgs
  /\ \A m, n \in begun : m = n
  /\ begun = {} => thread = NoThread

\* The inductive invariant.
ThreadsInv == RepliesInv /\ LinkingInv /\ FindableInv /\ ThreadHoldsReply

=============================================================================

------------------------------ MODULE FeedSync ------------------------------
(***************************************************************************)
(* The incremental feeds between one agent and the platform: the replies   *)
(* (appendReplies, ReadCampaignReplies) and the per-person sends           *)
(* (appendSends, ReadCampaignSends) of the campaigns of the agent's Linked *)
(* Helper accounts.                                                        *)
(*                                                                         *)
(* LH adds rows to lh.db.  Every cycle the agent refreshes its mirror      *)
(* `known' of the platform's state, and one worker per account reads the   *)
(* rows at or after the cursor that mirror holds, at most Limit of them,   *)
(* reports them, and replaces the whole mirror by the answer.  The         *)
(* platform stores what it is sent and moves the campaign's cursor to the  *)
(* newest row it holds.  An account has one campaign here, and one of its  *)
(* two feeds: the campaigns and feeds of an account are read one after the *)
(* other, each with a cursor of its own.                                   *)
(***************************************************************************)
EXTENDS Integers, FiniteSets

CONSTANTS
  Accounts,         \* accounts lh.Scan finds, each with one campaign
  Ids,              \* identities of the rows LH may ever add, as numbers
  MaxAt,            \* last millisecond of the model's clock
  Limit,            \* replyBatchLimit or sendBatchLimit
  MaxCluster,       \* most rows of an account LH detects in one millisecond
  SendFeeds,        \* those whose feed is the sends
  ThreadReadFails,  \* TRUE if ReadCampaignThread may fail for a reply
  BootstrapFails,   \* TRUE if a bootstrap request may fail
  MaxResets,        \* cursor resets and deletions made in the platform's UI
  MaxFaults,        \* failed reads, lost answers, timeouts and crashes
  MaxLate           \* requests that may be in the network on their own

ASSUME IdsAssumption == Ids \subseteq Nat
ASSUME MaxAtAssumption == MaxAt \in Nat \ {0}
ASSUME LimitAssumption == Limit \in Nat \ {0}
ASSUME ClusterAssumption == MaxCluster \in Nat \ {0}
ASSUME SendFeedsAssumption == SendFeeds \subseteq Accounts
ASSUME SwitchAssumption == {ThreadReadFails, BootstrapFails} \subseteq BOOLEAN
ASSUME BudgetAssumption ==
  MaxResets \in Nat /\ MaxFaults \in Nat /\ MaxLate \in Nat

VARIABLES
  rows,       \* lh.db: the rows of each account's campaign
  plat,       \* the platform's record of each campaign
  known,      \* Agent.known: the agent's mirror of the platform's state
  boot,       \* the known-state carried by the bootstrap answer
  phase,      \* where Agent.cycle is
  pc,         \* where each account's syncAccount is
  kc,         \* the known-state entry each worker looked up for its rows
  req,        \* the report each worker has built so far
  resp,       \* the known-state carried by each worker's report answer
  net,        \* reports whose sender stopped waiting, still to be served
  faults,     \* faults left
  floor,      \* history: the platform's cursors when the cycle began
  refreshed   \* history: known was replaced in this cycle

vars == <<rows, plat, known, boot, phase, pc, kc, req, resp, net, faults,
          floor, refreshed>>

-----------------------------------------------------------------------------
(* Data *)

\* A cursor is a millisecond; the empty string is older than all of them.
EmptyCursor == 0
Cursors == 0 .. MaxAt
Gens == 0 .. MaxResets

\* wire: buildSends keeps the row (every reply is kept).
Row == [id : Ids, at : 1 .. MaxAt, wire : BOOLEAN]

\* A known-state entry.  gen counts the resets the platform had seen when it
\* wrote the entry: no guard of the agent reads it.
Entry == [registered : BOOLEAN, cursor : Cursors, gen : Gens]
Snapshots == [Accounts -> Entry]

\* stored and threads hold what arrived since the campaign's last reset.
\* overtaken: a report built from a cursor older than that reset was applied.
Campaign == [registered : BOOLEAN, cursor : Cursors, gen : Gens,
             stored : SUBSET Row, threads : SUBSET Row, overtaken : BOOLEAN]

\* gen is that of the entry whose cursor the rows were read from.
Request == [register : BOOLEAN, gen : Gens,
            batch : SUBSET Row, threads : SUBSET Row]

Unregistered == [registered |-> FALSE, cursor |-> EmptyCursor, gen |-> 0]
NothingKnown == [a \in Accounts |-> Unregistered]
NewCampaign == [registered |-> FALSE, cursor |-> EmptyCursor, gen |-> 0,
                stored |-> {}, threads |-> {}, overtaken |-> FALSE]
NoReport == [register |-> FALSE, gen |-> 0, batch |-> {}, threads |-> {}]

\* The known-state entry of a campaign p of the platform, and all of them.
EntryOf(p) == [registered |-> p.registered, cursor |-> p.cursor, gen |-> p.gen]
Snapshot == [a \in Accounts |-> EntryOf(plat[a])]

\* B is the n oldest of the rows due; those of one millisecond come in any order.
Oldest(B, n, due) ==
  /\ B \subseteq due
  /\ \A x \in B, y \in due \ B : x.at <= y.at
  /\ IF Cardinality(due) <= n THEN B = due ELSE Cardinality(B) = n

\* Slips, each defined before the definition it stands in for, are the mistakes
\* the properties are tried against; the model uses none of them.
\* Here: no ORDER BY, and a batch one row short.
IsBatchUnordered(B, R, c) ==
  LET due == {r \in R : r.at >= c}
  IN B \subseteq due /\ (B = due \/ Cardinality(B) = Limit)
IsBatchShort(B, R, c) == Oldest(B, Limit - 1, {r \in R : r.at >= c})

\* The rows of the query: those at or after the cursor, at most Limit of them.
IsBatch(B, R, c) == Oldest(B, Limit, {r \in R : r.at >= c})

\* Slip: every entry of the report is the batch's last row.
KeptLast(B) == {r \in B : r.wire /\ \A x \in B : x.at <= r.at}

\* buildSends keeps the rows of messaging steps, after the limit has cut the
\* batch; buildReplies keeps all.
Kept(B) == {r \in B : r.wire}

\* Slip: the first sync ships no threads.
ThreadDueNotFirst(r, c) == c # EmptyCursor /\ r.at > c

\* attachThreads: only a reply newer than the cursor gets its thread.
ThreadDue(r, c) == c = EmptyCursor \/ r.at > c

\* c is the newest of the rows S, or the empty cursor if there are none.
IsHighWater(c, S) ==
  /\ \A r \in S : r.at <= c
  /\ c = EmptyCursor \/ \E r \in S : r.at = c

\* The campaign p of the platform after a reset, and after report q, which
\* moves its cursor to c.
Cleared(p, stillRegistered) ==
  [registered |-> stillRegistered, cursor |-> EmptyCursor, gen |-> p.gen + 1,
   stored |-> {}, threads |-> {}, overtaken |-> FALSE]

Merged(p, q, c) ==
  [registered |-> TRUE,
   cursor |-> c,
   gen |-> p.gen,
   stored |-> p.stored \cup q.batch,
   threads |-> p.threads \cup q.threads,
   overtaken |-> p.overtaken \/ (q.batch # {} /\ q.gen # p.gen)]

-----------------------------------------------------------------------------
Init ==
  /\ rows = [a \in Accounts |-> {}]
  /\ plat = [a \in Accounts |-> NewCampaign]
  /\ known = NothingKnown
  /\ boot = NothingKnown
  /\ phase = "waiting"
  /\ pc = [a \in Accounts |-> "idle"]
  /\ kc = [a \in Accounts |-> Unregistered]
  /\ req = [a \in Accounts |-> NoReport]
  /\ resp = [a \in Accounts |-> NothingKnown]
  /\ net = {}
  /\ faults = MaxFaults
  /\ floor = NothingKnown
  /\ refreshed = FALSE

-----------------------------------------------------------------------------
(* Linked Helper and the platform's user *)

\* Identities of rows still to come.  Any serves for the next: no guard of the agent
\* or of the platform compares them, so the rows are numbered as they come.
Unused == Ids \ {x.id : x \in UNION {rows[b] : b \in Accounts}}

\* LH adds a row; DetectedAt never runs behind the rows already there.
LHInsert(a, r) ==
  /\ r.id \in Unused /\ \A i \in Unused : r.id <= i
  /\ \A x \in rows[a] : x.at <= r.at
  /\ Cardinality({x \in rows[a] : x.at = r.at}) < MaxCluster
  /\ a \in SendFeeds \/ r.wire
  /\ rows' = [rows EXCEPT ![a] = @ \cup {r}]
  /\ UNCHANGED <<plat, known, boot, phase, pc, kc, req, resp, net, faults,
                 floor, refreshed>>

\* The user clears the campaign's cursor, so that all of it is sent again, or
\* deletes the campaign.
Reset(a, stillRegistered) ==
  /\ plat[a].registered
  /\ plat[a].gen < MaxResets
  /\ plat' = [plat EXCEPT ![a] = Cleared(@, stillRegistered)]
  /\ UNCHANGED <<rows, known, boot, phase, pc, kc, req, resp, net, faults,
                 floor, refreshed>>

-----------------------------------------------------------------------------
(* One cycle: bootstrap, then a worker per account, then the barrier *)

\* The platform answers the bootstrap request.
ServeBootstrap ==
  /\ phase = "waiting"
  /\ phase' = "booting"
  /\ boot' = Snapshot
  /\ floor' = Snapshot
  /\ refreshed' = FALSE
  /\ UNCHANGED <<rows, plat, known, pc, kc, req, resp, net, faults>>

\* bootstrap applies the answer and the workers start.
ReceiveBootstrap ==
  /\ phase = "booting"
  /\ phase' = "syncing"
  /\ known' = boot
  /\ boot' = NothingKnown
  /\ refreshed' = TRUE
  /\ UNCHANGED <<rows, plat, pc, kc, req, resp, net, faults, floor>>

\* bootstrap failed, which is not fatal: the cycle goes on with the old mirror.
FailBootstrap ==
  /\ BootstrapFails
  /\ phase \in {"waiting", "booting"}
  /\ phase' = "syncing"
  /\ floor' = IF phase = "waiting" THEN Snapshot ELSE floor
  /\ refreshed' = FALSE
  /\ boot' = NothingKnown
  /\ UNCHANGED <<rows, plat, known, pc, kc, req, resp, net, faults>>

\* Slip: the cycle does not wait for its workers.
EndCycleEarly ==
  /\ phase = "syncing"
  /\ \E a \in Accounts : pc[a] = "done"
  /\ phase' = "waiting"
  /\ pc' = [a \in Accounts |-> IF pc[a] = "done" THEN "idle" ELSE pc[a]]
  /\ floor' = NothingKnown
  /\ refreshed' = FALSE
  /\ UNCHANGED <<rows, plat, known, boot, kc, req, resp, net, faults>>

\* wg.Wait(): the cycle ends when every worker is done.
EndCycle ==
  /\ phase = "syncing"
  /\ \A a \in Accounts : pc[a] = "done"
  /\ phase' = "waiting"
  /\ pc' = [a \in Accounts |-> "idle"]
  /\ floor' = NothingKnown
  /\ refreshed' = FALSE
  /\ UNCHANGED <<rows, plat, known, boot, kc, req, resp, net, faults>>

-----------------------------------------------------------------------------
(* syncAccount of account a *)

\* ReadCampaigns or ReadFunnels failed, or the worker panicked.
FailRead(a) ==
  /\ phase = "syncing" /\ pc[a] = "idle" /\ faults > 0
  /\ pc' = [pc EXCEPT ![a] = "done"]
  /\ faults' = faults - 1
  /\ UNCHANGED <<rows, plat, known, boot, phase, kc, req, resp, net,
                 floor, refreshed>>

\* buildReport: registers a campaign the mirror lacks, or whose version drifted.
Build(a, drifted) ==
  /\ phase = "syncing" /\ pc[a] = "idle"
  /\ req' = [req EXCEPT ![a] = [NoReport EXCEPT
                                  !.register = drifted \/ ~known[a].registered]]
  /\ pc' = [pc EXCEPT ![a] = "lookup"]
  /\ UNCHANGED <<rows, plat, known, boot, phase, kc, resp, net, faults,
                 floor, refreshed>>

\* Slip: rows are shipped for a campaign the platform has not shown yet.
LookupUngated(a) ==
  /\ pc[a] = "lookup"
  /\ kc' = [kc EXCEPT ![a] = known[a]]
  /\ pc' = [pc EXCEPT ![a] = "read"]
  /\ UNCHANGED <<rows, plat, known, boot, phase, req, resp, net, faults,
                 floor, refreshed>>

\* appendReplies looks the campaign up again; an unknown one ships no rows.
Lookup(a) ==
  /\ pc[a] = "lookup"
  /\ IF known[a].registered
       THEN /\ kc' = [kc EXCEPT ![a] = known[a]]
            /\ pc' = [pc EXCEPT ![a] = "read"]
       ELSE /\ pc' = [pc EXCEPT ![a] = "report"]
            /\ UNCHANGED kc
  /\ UNCHANGED <<rows, plat, known, boot, phase, req, resp, net, faults,
                 floor, refreshed>>

\* The rows from the cursor on, filtered after the limit, with their threads.
Read(a) ==
  /\ pc[a] = "read"
  /\ \E B \in SUBSET rows[a] :
       /\ IsBatch(B, rows[a], kc[a].cursor)
       /\ LET due == {r \in Kept(B) : ThreadDue(r, kc[a].cursor)
                                       /\ a \notin SendFeeds}
          IN \E T \in SUBSET due :
               /\ ThreadReadFails \/ T = due
               /\ req' = [req EXCEPT ![a].gen = kc[a].gen,
                                      ![a].batch = Kept(B), ![a].threads = T]
  /\ kc' = [kc EXCEPT ![a] = Unregistered]
  /\ pc' = [pc EXCEPT ![a] = "report"]
  /\ UNCHANGED <<rows, plat, known, boot, phase, resp, net, faults,
                 floor, refreshed>>

\* The read of the rows failed: the report goes out without them.
FailRows(a) ==
  /\ pc[a] = "read" /\ faults > 0
  /\ kc' = [kc EXCEPT ![a] = Unregistered]
  /\ pc' = [pc EXCEPT ![a] = "report"]
  /\ faults' = faults - 1
  /\ UNCHANGED <<rows, plat, known, boot, phase, req, resp, net,
                 floor, refreshed>>

\* What the platform does with report q of account a.
Apply(a, q) ==
  IF ~plat[a].registered /\ ~q.register
    THEN UNCHANGED plat
    ELSE \E c \in Cursors :
           /\ IsHighWater(c, plat[a].stored \cup q.batch)
           /\ plat' = [plat EXCEPT ![a] = Merged(@, q, c)]

\* The platform applies the report and writes its answer.
Serve(a) ==
  /\ pc[a] = "report"
  /\ Apply(a, req[a])
  /\ resp' = [resp EXCEPT ![a] = Snapshot']
  /\ pc' = [pc EXCEPT ![a] = "answered"]
  /\ UNCHANGED <<rows, known, boot, phase, kc, req, net, faults,
                 floor, refreshed>>

\* Slip: the known-state of a report's answer is not used.
ReceiveIgnored(a) ==
  /\ pc[a] = "answered"
  /\ pc' = [pc EXCEPT ![a] = "done"]
  /\ req' = [req EXCEPT ![a] = NoReport]
  /\ resp' = [resp EXCEPT ![a] = NothingKnown]
  /\ UNCHANGED <<rows, plat, known, boot, phase, kc, net, faults,
                 floor, refreshed>>

\* known.replace: the answer replaces the mirror of every account.
Receive(a) ==
  /\ pc[a] = "answered"
  /\ known' = resp[a]
  /\ refreshed' = TRUE
  /\ pc' = [pc EXCEPT ![a] = "done"]
  /\ req' = [req EXCEPT ![a] = NoReport]
  /\ resp' = [resp EXCEPT ![a] = NothingKnown]
  /\ UNCHANGED <<rows, plat, boot, phase, kc, net, faults, floor>>

\* The answer is lost or unreadable: do() sends the same body again.
LoseAnswer(a) ==
  /\ pc[a] = "answered" /\ faults > 0
  /\ pc' = [pc EXCEPT ![a] = "report"]
  /\ resp' = [resp EXCEPT ![a] = NothingKnown]
  /\ faults' = faults - 1
  /\ UNCHANGED <<rows, plat, known, boot, phase, kc, req, net,
                 floor, refreshed>>

\* The attempt times out while the request is still under way.
TimeOut(a) ==
  /\ pc[a] = "report" /\ faults > 0
  /\ Cardinality(net) < MaxLate
  /\ net' = net \cup {[account |-> a, report |-> req[a]]}
  /\ faults' = faults - 1
  /\ UNCHANGED <<rows, plat, known, boot, phase, pc, kc, req, resp,
                 floor, refreshed>>

\* do() returns an error: retries used up, a client error, or accCtx expired.
GiveUp(a) ==
  /\ pc[a] = "report" /\ faults > 0
  /\ pc' = [pc EXCEPT ![a] = "done"]
  /\ req' = [req EXCEPT ![a] = NoReport]
  /\ faults' = faults - 1
  /\ UNCHANGED <<rows, plat, known, boot, phase, kc, resp, net,
                 floor, refreshed>>

-----------------------------------------------------------------------------
(* The network and the process *)

\* A report nobody waits for any more reaches the platform.
ServeLate(m) ==
  /\ m \in net
  /\ Apply(m.account, m.report)
  /\ net' = net \ {m}
  /\ UNCHANGED <<rows, known, boot, phase, pc, kc, req, resp, faults,
                 floor, refreshed>>

\* The process dies, its reports S already sent: New() starts with no mirror.
Crash(S) ==
  /\ faults > 0
  /\ S \subseteq {a \in Accounts : pc[a] = "report"}
  /\ Cardinality(net) + Cardinality(S) <= MaxLate
  /\ net' = net \cup {[account |-> a, report |-> req[a]] : a \in S}
  /\ known' = NothingKnown
  /\ phase' = "waiting"
  /\ boot' = NothingKnown
  /\ pc' = [a \in Accounts |-> "idle"]
  /\ kc' = [a \in Accounts |-> Unregistered]
  /\ req' = [a \in Accounts |-> NoReport]
  /\ resp' = [a \in Accounts |-> NothingKnown]
  /\ floor' = NothingKnown
  /\ refreshed' = FALSE
  /\ faults' = faults - 1
  /\ UNCHANGED <<rows, plat>>

-----------------------------------------------------------------------------
Environment ==
  \/ \E a \in Accounts, r \in Row : LHInsert(a, r)
  \/ \E a \in Accounts, stillRegistered \in BOOLEAN : Reset(a, stillRegistered)
  \/ \E m \in net : ServeLate(m)

Cycle == ServeBootstrap \/ ReceiveBootstrap \/ FailBootstrap \/ EndCycle

Worker(a) ==
  \/ FailRead(a)
  \/ \E drifted \in BOOLEAN : Build(a, drifted)
  \/ Lookup(a) \/ Read(a) \/ FailRows(a)
  \/ Serve(a) \/ Receive(a) \/ LoseAnswer(a) \/ TimeOut(a) \/ GiveUp(a)

Next ==
  \/ Environment
  \/ Cycle
  \/ \E a \in Accounts : Worker(a)
  \/ \E S \in SUBSET Accounts : Crash(S)

Spec == Init /\ [][Next]_vars

\* The scheduler runs the cycle and its goroutines, and the platform answers a
\* report in the end.  Bootstrap may fail for ever; faults are bounded.
Fairness ==
  /\ WF_vars(Cycle)
  /\ \A a \in Accounts :
       /\ WF_vars(\E drifted \in BOOLEAN : Build(a, drifted))
       /\ WF_vars(Lookup(a))
       /\ WF_vars(Read(a))
       /\ WF_vars(Serve(a))
       /\ WF_vars(Receive(a))

FairSpec == Spec /\ Fairness

-----------------------------------------------------------------------------
(* Properties *)

Phases == {"waiting", "booting", "syncing"}
Steps == {"idle", "lookup", "read", "report", "answered", "done"}
Late == [account : Accounts, report : Request]

\* Every variable has its type.
TypeOK ==
  /\ rows \in [Accounts -> SUBSET Row]
  /\ plat \in [Accounts -> Campaign]
  /\ known \in Snapshots
  /\ boot \in Snapshots
  /\ phase \in Phases
  /\ pc \in [Accounts -> Steps]
  /\ kc \in Snapshots
  /\ req \in [Accounts -> Request]
  /\ resp \in [Accounts -> Snapshots]
  /\ net \in SUBSET Late
  /\ faults \in 0 .. MaxFaults
  /\ floor \in Snapshots
  /\ refreshed \in BOOLEAN

\* Of the rows R, those the agent is to ship.
Shippable(R) == {r \in R : r.wire}

\* Those older than cursor c are all in S.
StoredBelow(R, S, c) == \A r \in Shippable(R) : r.at < c => r \in S

\* Nothing is skipped: whatever batches were cut, lost, sent twice or applied
\* late, every row older than the platform's cursor has been stored, for the
\* agent will never read below that cursor again.  The one exception is a
\* campaign whose reset was overtaken by a report built before it.
NoSkip ==
  \A a \in Accounts :
    plat[a].overtaken \/ StoredBelow(rows[a], plat[a].stored, plat[a].cursor)

NotOlder(x, y) == x.gen > y.gen \/ (x.gen = y.gen /\ x.cursor >= y.cursor)

\* Answers overtake each other between workers, but once the mirror has been
\* replaced in a cycle it never falls behind what the platform held when the
\* cycle began: no answer of an earlier cycle is left to arrive.
MirrorNotBehindCycle ==
  refreshed => \A a \in Accounts : NotOlder(known[a], floor[a])

\* The report that registers a campaign carries none of its rows: they wait
\* until the platform has shown the campaign in its known-state.  A report that was
\* built before the campaign was deleted may bring rows after it: those of an
\* overtaken campaign are excepted.
RegisterBeforeFeed ==
  [][\A a \in Accounts :
       ~plat[a].registered /\ plat'[a].registered /\ ~plat'[a].overtaken
         => plat'[a].stored = {}]_vars

\* r's thread is on the platform p, or another reply of r's millisecond is: one
\* that the limit, or LH's clock, let arrive before r.
HasThread(p, r) ==
  r \in p.threads \/ \E x \in p.stored : x # r /\ x.at = r.at

\* The comment on attachThreads, as far as it holds: a reply sent without its
\* thread has had it delivered when it was new, unless it shares its millisecond
\* with a reply the platform holds, or reading a thread failed.
ThreadAlreadyDelivered ==
  ThreadReadFails \/
    \A a \in Accounts \ SendFeeds :
      pc[a] = "report" /\ req[a].gen = plat[a].gen /\ ~plat[a].overtaken
        => \A r \in req[a].batch \ req[a].threads : HasThread(plat[a], r)

\* Once LH, the user and the faults are quiet, every row that is to be shipped
\* arrives and stays, through all the batches it takes, although the mirror is
\* replaced by answers in any order and bootstrap may never succeed.
CatchesUp ==
  <>[](\A a \in Accounts :
         plat[a].overtaken \/ Shippable(rows[a]) \subseteq plat[a].stored)

\* As long as nobody resets a cursor, the feed is the gapless one: whatever the
\* mirror, the batches and the network do, the platform's store and cursor move
\* as GaplessFeed promises.
Gapless == INSTANCE GaplessFeed
             WITH received <- [a \in Accounts |-> plat[a].stored],
                  mark <- [a \in Accounts |-> plat[a].cursor]
GaplessSpec == Gapless!Spec

-----------------------------------------------------------------------------
(* What the proofs need beyond the properties: every copy of a cursor, in    *)
(* the mirror or under way, is as safe to read from as the platform's own,   *)
(* and so is every report built from one.                                    *)

\* No cursor is ahead of the rows: a row still to come is not below it.
Reached(R, c) == c = EmptyCursor \/ \E r \in R : c <= r.at

\* e is a copy of the entry of campaign p, whose rows are R, perhaps an old one.
SafeEntry(R, p, e) ==
  /\ e.gen <= p.gen
  /\ Reached(R, e.cursor)
  /\ e.gen = p.gen =>
       /\ e.registered => p.registered
       /\ e.cursor = EmptyCursor \/ \E r \in p.stored : r.at = e.cursor
       /\ p.overtaken \/ StoredBelow(R, p.stored, e.cursor)

\* q is a report of p: it leaves no gap below any of its rows.
SafeReport(R, p, q) ==
  /\ q.gen <= p.gen
  /\ q.batch \subseteq Shippable(R)
  /\ q.gen = p.gen =>
       /\ q.batch # {} => p.registered
       /\ p.overtaken \/ \A s \in q.batch :
                           StoredBelow(R, p.stored \cup q.batch, s.at)

SafeCampaign(R, p) ==
  /\ p.stored \subseteq Shippable(R)
  /\ IsHighWater(p.cursor, p.stored)
  /\ p.registered \/ p.stored = {}
  /\ p.overtaken \/ StoredBelow(R, p.stored, p.cursor)

FeedInv ==
  /\ \A a \in Accounts :
       /\ SafeCampaign(rows[a], plat[a])
       /\ SafeEntry(rows[a], plat[a], known[a])
       /\ SafeEntry(rows[a], plat[a], boot[a])
       /\ SafeEntry(rows[a], plat[a], kc[a])
       /\ \A b \in Accounts : SafeEntry(rows[a], plat[a], resp[b][a])
       /\ SafeReport(rows[a], plat[a], req[a])
       /\ pc[a] = "read" => kc[a].registered
  /\ \A m \in net : SafeReport(rows[m.account], plat[m.account], m.report)

\* No reply of q comes without its thread if p still needs it.
ThreadsSafe(p, q) ==
  q.gen = p.gen => p.overtaken \/ \A r \in q.batch \ q.threads : HasThread(p, r)

ThreadInv ==
  ThreadReadFails \/
    \A a \in Accounts \ SendFeeds :
      /\ plat[a].overtaken \/ \A r \in plat[a].stored : HasThread(plat[a], r)
      /\ ThreadsSafe(plat[a], req[a])
      /\ \A m \in net : m.account = a => ThreadsSafe(plat[a], m.report)

\* No answer of an earlier cycle is left when a cycle begins.
CycleInv ==
  /\ phase # "syncing" => ~refreshed /\ \A a \in Accounts : pc[a] = "idle"
  /\ \A a \in Accounts :
       /\ NotOlder(plat[a], floor[a])
       /\ refreshed => NotOlder(known[a], floor[a])
       /\ phase = "booting" => NotOlder(boot[a], floor[a])
       /\ \A b \in Accounts : pc[b] = "answered" => NotOlder(resp[b][a], floor[a])

\* The inductive invariant.
Inductive == TypeOK /\ FeedInv /\ ThreadInv /\ CycleInv

=============================================================================

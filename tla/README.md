# Linked Helper agent: models, checks and proofs

The agent (`src/cmd/agent`, `src/internal`) runs next to Linked Helper (LH) on a
Windows machine. It reads LH's SQLite files, one `lh.db` per LH account, and
reports campaigns, funnel counters, replies and sends to a platform over HTTP.
What the platform answers decides what the agent reads next. This directory
models that exchange and the life of the process around it in TLA+, checks the
models with TLC on small instances, and proves the safety properties with TLAPS
for every value of the constants.

Line numbers below are of the sources at this commit.

## 1. Inventory

| Component | State it keeps | Operations | What makes it hard, and what correct means |
|---|---|---|---|
| Incremental feeds: `appendReplies`, `appendSends`, `attachThreads` (`agent.go:413-598`), `replies.go`, `sends.go` | none of its own: the cursor is the platform's, the agent holds a copy in `known` | read from the cursor on (inclusive), at most a limit; filter; attach threads; report | inclusive cursor, limit, answers that cross, lost and repeated reports, crashes, cursor resets. *No row below the cursor is missing; every row arrives in the end; a thread is shipped once.* |
| Known-state mirror (`known.go`) | `campaigns`, `accounts` under a mutex | `replace` (whole), `lookup`, `needsRegister`, `hasAccount` | replaced by every worker's answer while other workers read it. *Never older than the cycle it is used in.* |
| Registration: `classifyCampaigns`, `loadActionsForRegister`, `buildReport` (`agent.go:254-411`), `reader.go` | none | compare versions, read the steps, send a `RegisterCampaign` block | several reads without a transaction, two lookups of the mirror, failed reads. *The platform ends up with the current steps, and never takes old steps for those of a newer version.* |
| Agent loop: `Run`, `cycle`, `syncAccountSafe` (`agent.go:69-201`, `643-654`) | `reportInterval`, ticker, semaphore, WaitGroup | bootstrap, scan, one goroutine per account, release handles | workers that fail, panic, are cancelled; interval set concurrently. *Off LH's files between cycles, bounded work, no cycle and no stop hangs.* |
| `lh.db` handles and profiles (`reader.go:54-148`, `db_profile.go`) | `handles`, `profiles` under a mutex | `open`, `profileFor`, `ReleaseHandles`, `Close` | LH cannot start while a handle is open; a profile outlives the handle, failed probes and upgrades included. *No handle is left between cycles; what a profile does not hide arrives.* |
| Process and service (`main.go`, `service_windows.go`, `install.ps1`) | service status, `errCh`, exit code | start, stop request, crash, recovery | a stop or a crash in any step of a cycle. *Stopped is only reported when nothing is at work; a stop is answered.* |
| HTTP client (`client/api.go`) | per call: attempt, backoff, the struct all attempts decode into | `do` (retries), `doOnce` | an answer lost after the request was served; a request that outlives its sender; oversized, bodiless, misfitting answers; deadlines within deadlines. *One whole answer or none; given up for a reason; the retries fit into the account's two minutes.* |
| Partition scan (`scanner.go`) | none | `Scan` | partitions come and go, or cannot be listed |
| Reply collection (`replies.go`, `chat.go`) | none | two queries, `mergeReplies` | attribution is recomputed at every read from tables LH keeps writing; two queries, three cuts. *A reply has one campaign and keeps it; none is left out of a batch that moves the cursor past it.* |
| Step numbering, waits and funnel: `buildActions`, `waitToDelay`, `buildFunnelSteps`, `buildActionSeqMap`, `buildSends` (`agent.go:568-747`), step queries of `reader.go`, `sends.go` | none | walk the steps of a workflow | three walks over two queries issued at different moments, while the workflow is edited. *Message, counts, waits and sends meet at the same number; nothing is counted twice; no send is lost.* |
| Conversation threads: `attachThreads`, `thread.go` | none | two queries, `mergeThread` | LH links and mirrors between the queries. *A thread holds the reply it goes with if the profile lets it be read, and linked messages keep their action.* |
| Identity (`id.go`) | a file | read or create | a crash or an error while the file is written; a file that cannot be read. *One id per installation.* |
| Configuration (`config.go`) | the environment | `LoadConfig` | succeeds or fails |
| Other readers and pure functions: `funnel.go`, `message_examples.go`, `template.go`, `owner_sources.go` | none | queries, merging, rendering | not modelled |
| `genfixtures`, `dbschema`, `inspectdb`, scripts | none | developer tools, installation | not modelled |

How they interact. `Execute` (service) or `main` starts `runAgent`, which runs
`Agent.Run`. `Run` calls `cycle` at once and then on every tick. `cycle` calls
`bootstrap`, which replaces the mirror, then starts one goroutine per account.
Each goroutine reads its `lh.db` through the shared `Reader`, consults the shared
mirror several times, sends one report, and replaces the mirror by the answer. The
answer carries the state of *all* accounts, so the goroutines overwrite each
other's view. LH writes its databases all the while, and users of the platform
reset cursors and delete campaigns.

## 2. Modules

| Module | Models | |
|---|---|---|
| `FeedSync` | mirror, reading, reporting, platform, network, crash for one feed per account | 4 runs |
| `GaplessFeed` | what a feed promises: rows received in any portions, the mark never past a missing row and never back | implemented by `FeedSync` (`GaplessSpec`) |
| `FeedSyncProofs` | type, inductive invariant, four safety theorems, the refinement of `GaplessFeed` | |
| `Replies` | where the rows of the reply feed come from: LH's tables, the capability profile, the two queries, the merge | 2 runs |
| `RepliesProofs` | attribution, and what the merged queries may skip | |
| `Threads` | the conversation read for each new reply (extends `Replies`) | 1 run |
| `ThreadsProofs` | a thread holds its reply; `Threads` implements `Replies` | |
| `Steps` | workflow steps as messages, funnel rows, delays and numbered sends | 1 run |
| `StepsProofs` | no send of a lasting message is lost; what the three walks compute: numbers, waits, answers | |
| `Registration` | versions, steps, classification, the register block | 1 run |
| `RegistrationProofs` | the invariant and `MessagesOfVersion` | |
| `HttpCall` | one call of the client: attempts, waits, deadlines, answers | 1 run |
| `RetriedCall` | what a caller may count on | implemented by `HttpCall` (`Retried`) |
| `HttpCallProofs` | the invariant, three properties, the schedule of the retries, the safety part of the refinement | |
| `AgentLoop` | `Run`, `cycle`, goroutines, semaphore, WaitGroup, handles, ticker | checked within `AgentService` |
| `AgentLoopProofs` | the invariant and three safety theorems | |
| `AgentIdentity` | the identity file | checked within `AgentService` |
| `AgentService` | `AgentLoop` and `AgentIdentity` inside `Execute` and the service manager | 2 runs |
| `AgentServiceProofs` | the loop's invariant and the identity through starts, stops and crashes | |
| `MC*` | TLC instances | |

`Replies` and `Steps` explain what `FeedSync` takes as given about its rows, and
`Registration` what it takes as given about a campaign; `FeedSync` in turn has the
faults and crossing answers that the other three leave out. `HttpCall` is what both
`FeedSync` and `Registration` take for the steps serve, receive or lose, give up.

Each module has a few operators marked *Slip*: a plausible mistake in the
definition that follows it. The specification uses none of them; each property is
tried against one, and is violated by it.

### FeedSync

One campaign per account; the campaigns of an account are read one after the
other with cursors of their own. A row is `[id, at, wire]`: `at` is `DetectedAt`
(replies) or the moment of the action (sends), `wire` says whether `buildSends`
keeps it (every reply is kept). The accounts in `SendFeeds` feed sends, the others replies.

| Model | Code |
|---|---|
| `known`, `Receive`, `ReceiveBootstrap` | `Agent.known`, `known.replace` |
| `kc` | the `knownCampaign` that `appendReplies` looked up (`agent.go:427`); a second lookup after the one in `Build`, because another worker may replace the mirror between them |
| `IsBatch` | the two queries and `mergeReplies`: from the cursor on, oldest first, cut at the limit. Ties are broken either way, which covers `ExternalID` order and no order at all |
| `Kept` after `IsBatch` | `buildSends` filters after the query has cut the batch (`agent.go:576`) |
| `ThreadDue` | `attachThreads`: only rows newer than the cursor, all of them on the first sync; what is in a thread is in `Threads` |
| `LoseAnswer`, `TimeOut`, `GiveUp` | `Client.do`: same body sent again; attempt abandoned with the request still under way; error returned |
| `Crash` | the process dies, `New` starts with an empty mirror, requests already sent may still arrive |
| `Apply`, `Serve`, `Reset` | the platform, external: it stores rows deduplicated by id and moves the campaign's cursor to the newest row it holds (`models.go:42-53`); a report for an unknown campaign without a register block is ignored |
| `floor`, `refreshed`, `gen`, `overtaken` | history used by properties only |

`gen` counts the resets a copy of the platform's entry has seen. `overtaken` marks
a campaign to which a report was applied that had been built before its last
reset. That is where the code's promise ends: see the observation on resets in section 5.

### Registration

One campaign per account. LH gives a campaign a new version on every edit; the
steps matter as `scraping` (no messaging step), `bodiless` (messaging steps
without a body, such as invitations without a note) or `messages`. A stored
message remembers the version it was read from, so `MessagesOfVersion` can
compare it with the version it is filed under. `ReadCampaigns`, `Classify`, `Load`
are separate actions because the code issues separate queries without a
transaction; `Decide` and `Build` are the two lookups of the mirror. A version of
0 is a campaign without a `campaign_last_versions` row and has no steps.
`EmptyBootstrap` and `EmptyAnswer` are 2xx answers without a body: `doOnce` takes
them for success, the struct stays zero, and the mirror is replaced by an empty one.

### Replies

One account, its campaigns and LH's tables as records: `results` is
`person_in_campaigns_history` with `action_results` (what a campaign did to whom,
when), `msgs` the mirrored chat, `links` `action_result_messages`. `LinkedTo` and
`Manual` are the two `WHERE` clauses. A collection is `QueryLinked` and, later,
`QueryManual`, because the code has no transaction around them; LH may do anything
in between. `Merged` is `mergeReplies`, `Oldest` the `ORDER BY ... LIMIT` of each
query and the cut after the merge. A report is delivered at once: loss is
`FeedSync`'s. 

`schema` is which tables `lh.db` has, `profile` which of them the Reader believes it has:
`ProfileFor` looks once per process, each table on its own, may miss any, and an
`Upgrade` of LH adds tables it does not know of. `hidden` remembers the replies that
were there for a collection whose profile left out their query. Four readers gate
themselves on the profile, each on tables of its own; the groups of `Tables` are what they
tell apart:

| | `links` | `steps` | `history` | `chat` |
|---|---|---|---|---|
| stands for | `action_result_messages` | `action_results`, `action_versions`, `actions` | `person_in_campaigns_history` | `chats`, `chat_participants`, `participant_messages` |
| linked replies (`replies.go:43-50`) | needed | needed | | |
| manual replies (`replies.go:77`) | | | needed | needed |
| linked thread (`thread.go:43-47`) | needed | | needed | |
| chat thread (`thread.go:80`) | | | | needed |

All four need `messages`, and both kinds of replies need `message_external_ids`. A profile without
one of these two lets no reply be found, so no thread is read either: it does what a profile
without any table does, and is not told apart from it.

Two promises of LH are made visible instead of assumed: a message outside `Tardy`
is linked, if ever, when it is mirrored and not later, and LinkedIn's time stamp on it
is not ahead of LH's clock. `moved` and `torn` remember where a reply did change:
its campaign after mirroring, or its list between the two queries.

### Threads

`Threads` extends `Replies`: the replies a collection returns that are newer than its
cursor are `due`, and before the next collection each has its conversation read in two
steps, `QueryLinkedThread` and `QueryChatThread`, between which LH goes on writing.
A thread is a set of entries, a message with the action result it is linked to or with
none. Either query is left out, without an error, if the profile has not its tables, which are
not those the reply was found with: under a profile with `links` and `steps` but without
`history` a linked reply is found and its campaign's links are not read. The chat then has it if it was mirrored
into it, and otherwise the thread is empty. `Traceable` tells these cases apart, and
`ThreadHoldsReply` is about the others.
The run checks the properties of `Replies` again, with profiles and restarts.

### Steps

One campaign and one worker. `lh` is the campaign's version, its workflow (the order
of `campaign_version_actions.id`) and the steps whose template renders a text.
`Edit` replaces all three. `results` are executed steps, with the answers LH records
on the check that follows a message. `Classify`, `Load` and `Report` are three moments
at which the code queries: step statistics, step definitions, sends. The walks are
operators (`FunnelSteps`, `SeqMap`, `BuildActions`) written as recursive functions;
a funnel row keeps the action it stands for, which is not sent, so that positions
can be compared. `plat` is what the platform holds, `rowsOf` and `statsOf` the versions
that messages and counts were read from, `lasting` (history) the steps that
were messages in every version.

### AgentLoop and AgentService

`main` is where `Run` and `cycle` are. A worker goes through `open` (first read),
`read`, `report`, `returning` (deferred calls), `freed` (token returned),
`none` (`wg.Done`). `Return` is any way out of `syncAccountSafe`: error, empty
partition, recovered panic, deadline. `Free` and `Done` are separate because the
deferred calls run one after the other. Intervals are numbers; `Offered` includes 0 (an
answer without one) and values outside the bounds. `Tick` keeps one tick waiting,
as `time.Ticker` does, and `Adjust` drops it as `Reset` does.

`AgentIdentity` is `LoadOrCreateAgentID`: ids are numbers, `Cut(i)` is a file that holds
the beginning of id `i` only, which the code cannot tell from an id. `WriteFile` empties
the file before it fills it, so a write that fails, or a process that dies in it, may
leave `Remains`. `unread` counts the failed reads of a file that held an id.

`AgentService` adds the status last reported to the service control manager, the
stop request, `errCh` and the exit code. `Crash` may come in any step and empties
the process's memory. `Restart` is enabled after a crash only: `install.ps1:123-126`
configures failure actions without `failureflag`, and then the manager acts on a
process that ended without reporting `SERVICE_STOPPED`, not on one that reported
it with an error code.

### HttpCall

One call of `Client.do` with the constants of `api.go`, in quarter seconds so that the
jitter's ends are whole. `attempt` and `backoff` are `do`'s, `spent` is the time used
of the caller's context. `request` is this attempt's request or its answer, `late` counts requests
whose attempt is over and that may still arrive, `served` the copies the platform
acted on. Answers are told apart by what the code does with them: `malformed` (4xx but
429), `throttled` (429), `broken` (other failures), and 2xx bodies that are `whole`, `blank`,
`cut` at the megabyte, or a `misfit` for the struct. The struct `out` is one for all
attempts, as in `do`.

## 3. What the runs check

| Run | Instance | Shows |
|---|---|---|
| `feed_cross` | the sends of one account and the replies of another, 2 rows each, limit 1, a reset or deletion, failed thread reads | `Inductive`, `NoSkip`, `MirrorNotBehindCycle`, `RegisterBeforeFeed` while answers cross |
| `feed_faults` | replies, 2 accounts, 3 rows, limit 2, 1 fault or crash, bootstrap may always fail | `GaplessSpec` (the refinement), `MirrorNotBehindCycle`, `CatchesUp` although answers cross in every cycle |
| `feed_catchup` | 1 account, 4 replies of which two may share a millisecond, limit 3, a reset, 2 faults, a late report | `CatchesUp`, `ThreadAlreadyDelivered` |
| `feed_send_stall` | sends, 1 account | refutes `CatchesUp` (finding 1) |
| `replies` | 2 campaigns, 1 person, 3 messages, none tardy (so they are symmetric), 2 action results, limit 1; with 1 of the messages, an upgrade and a restart | `RepliesInv`, `StaysPut`, `OneCampaign`, `NothingElseSkipped` |
| `replies_profile` | `Threads`: 1 campaign, 2 messages of which one is tardy, no message tables, none of the chat, or all, an upgrade, a profile built from failing probes (`Probed`), a restart | `NothingElseSkipped`, `AllArrive`, `ThreadHoldsReply` |
| `replies_torn` | 1 campaign, 2 messages, none tardy | refutes `NoneSkipped` (finding 2) |
| `steps` | 2 messaging steps and 2 checks in 6 workflows, 3 results, limit 2, an edit, a fault | `LastingInv`, `LastingSendsKept`, `Aligned`, `WaitsKept`, `AnswersCounted`, `ComesToAgree` |
| `register` | 2 accounts, 2 edits, a deletion, a fault (an answer without a body among them), a late report | `AllFresh`, `MessagesOfVersion`, `Converges`, `Settles` |
| `http_call` | 4 attempts that fail at once or after 30 s, a context of two minutes of which 0, 21 or 50 s are spent, or without an end, cancelled at any point | `CallInv`, `TakesOneAnswer`, `GivesUpLast`, `RetriesFit`, and `Retried` (the refinement) |
| `service` | 2 accounts, 1 processor, service started, stopped, crashing, restarted, one failed read of the identity | `ServiceInv`, `StoppedIsClean`, `QuietOnlyWhenAsked`, `OneIdentity`, `OffFilesBetweenCycles`, `Bounded`, `PeriodInForce`, `CycleEnds`, `StopIsAnswered` |
| `service_recovery` | 1 account | refutes `ErrorExitRecovers` (finding 3) |

Why the bounds are enough. Two accounts are needed for one worker's answer to
replace the mirror under another; a third adds no new pair. A limit of 1 to 3 with
2 to 4 rows gives batches that are cut, cut within a millisecond, repeated at the
boundary and empty. One reset, one late report and one or two faults per run are what each
hazard takes. Two edits of one campaign are spent before and inside a report, and an
edit is the least for old steps to be filed under a newer version. In `replies`
two results give every order of two campaigns on a person, and three messages one that a
query cuts, one the other list keeps beside it, and one to move the cursor; upgrades and
restarts are looked at with one message there (the constraint `OneIfDisturbed`), with two in `replies_profile`,
and the theorems have no such bound. In `steps` the
workflows have a message without text, also between another and its checks, reordered steps, two checks
in a row and no message at all; three results
with limit 2 leave a row beyond the batch. Waits of a day and a half and of 90 seconds need
hours and rounding. Two accounts on one processor have a worker that
waits for a token. One failed read and any number of failed or interrupted writes make a second
identity and no third. In `replies_profile` one misread and one restart give a profile that hides
replies and a later one that shows them. `Probed` there is a choice of three from the profiles failing probes
can leave: linked replies without the links of their threads, with the chat or with nothing, and manual
replies alone. What the schemas add, unread or stale, allows no query, only the linked ones, or all; the
others behave like one of these, save manual replies with their chat but no `links`, whose
thread has no action to keep. `feed_cross` has no faults and no late report, and `feed_faults` no late report:
for `NoSkip`, `RegisterBeforeFeed` and `GaplessSpec` under those there are the proofs; `feed_catchup` has both, for one account.
`http_call` has the real constants; an attempt that
takes any time in between leaves less than the slowest and more than the fastest. The safety properties marked in section 4 are proved without
any of these bounds.

Deadlock is checked in every run but `http_call`, whose call returns: no other part of the
system may stop for good.

### Fairness

- `AgentService`: weak fairness of `Run`, of the cycle's steps, of each worker, of
  the ticker, of `Execute` and of the manager's recovery while the process is up.
  The Go scheduler runs every runnable goroutine, and every call a worker makes
  ends: requests have 30 s, an account has two minutes (`agent.go:24`), queries run
  under that context. `Stop` has strong fairness: when a tick and `ctx.Done()` are
  both ready, Go's `select` picks at random, so the cancellation is taken in the end
  although each time a cycle may come first. Nothing has to be started, stopped or
  to crash.
- `Steps`: weak fairness of the sync; LH need not do anything, and faults are
  bounded.
- `Threads`: strong fairness of each campaign's linked query and of the collection's end, for a
  cycle asks for every campaign and not every query fails; weak fairness of reading
  threads. LH need not do anything. Loss on the way is `FeedSync`'s.
- `HttpCall`: weak fairness of `do` and `doOnce`, whose attempts and waits each have a timer.
- `FeedSync`, `Registration`: weak fairness of the cycle and of the steps of a
  worker when nothing fails. Bootstrap may fail for ever. Other faults are
  bounded: a platform that never answers a report receives nothing. Edits, rows,
  resets and deletions are bounded, so "in the end" means after the last of them.

`CatchesUp` needs `MaxCluster < Limit`: if `Limit` rows share a millisecond, the
cursor cannot pass it. The code's limits are 500 and 1000 rows, and the comment
on the first (`agent.go:26-31`) names the assumption.

## 4. What is proved

All theorems hold for every set of accounts and rows and every bound.

**FeedSync** (`FeedSyncProofs`). `NoSkip` is not inductive: a report under way, an
answer under way and the mirror itself all hold cursors that will be used later.
`Inductive` therefore says of *every* copy of a cursor what `NoSkip` says of the
platform's own: a copy from the current generation has no missing row below it,
and a report built from one leaves, once applied, no gap below any of its rows
(`SafeEntry`, `SafeReport`). The step that matters is `Read`: a batch takes the
oldest rows from a safe cursor on, so below each of its rows everything is either
stored or in the batch. A report of an older generation marks the campaign
`overtaken`, which is all that can be said of it. `CycleInv` gives
`MirrorNotBehindCycle`: no worker, hence no answer, survives its cycle. `ThreadInv` does for threads what `FeedInv` does for rows: a cursor in use is
backed by a stored row, so a reply at or before it is that row, a stored one, or one that
shares its millisecond with a stored one.
Theorems: `TypeCorrect`, `InductiveInvariant`, `NothingSkipped`,
`MirrorIsOfThisCycle`, `ThreadsDelivered`, `RegistersFirst` (an action property).

`FeedIsGapless` is the refinement: while no cursor has been reset (`NoResetYet`), every step of
`FeedSync` is a step of `GaplessFeed` on one campaign or a stutter. Without a reset there is one
generation, so no report can be from an older one (`NotOvertaken`), and what `Inductive` says of a
report under way is what `GaplessFeed` asks of the portion it delivers. After a reset a stale report
may move the cursor past rows that are not stored, so the hypothesis cannot be dropped; the run
`feed_faults`, which checks `GaplessSpec` with TLC, has no resets either.

**Replies** (`RepliesProofs`). `OneClaim` and `LaterResult`: the last touch before a
message is of one campaign, and a later result does not change which. So a message keeps its
campaign unless it is tardy (`StaysPut`), and no reply that stays is stored under
two campaigns (`OneCampaign`). For the queries, the state between them is what has to be
carried: `LinkedQueryInv` says of the list already read that what it leaves out is
behind the cursor, torn, moved, hidden by the profile, or behind a *full* list (`FullListBounds`), and
`LeftOut` that a row cut from a full list is not older than a row kept in the merge. Hence
`NothingElseSkipped`: no reply is passed over but those that change in between or were hidden.
Theorems: `RepliesInvariant`, `AttributionSettled`, `OneAttribution`,
`MergedQueriesSkipNothing`, for every limit and any writing of LH.

**Threads** (`ThreadsProofs`). A reply is found by one query, under a profile, and its thread is
read by two others, later. `FindableInv` carries what let the first query find it: a link of
its campaign, or its place in the chat, each with the table still in the profile. Tables only grow and
one process keeps one profile, so what holds for the reply when it is found holds when either
query of the thread runs. The links are found again if the profile has the history besides; if it has not,
only the chat can hold the reply, and `Traceable` asks for it. What a message is to the chat is settled when it is mirrored (`Grows`); `LinkingInv` says of LH's tables that a result linked to a message is of its
author, without which the link of a reply need not appear under its person. `mergeThread` keeps every
entry it is given and adds the rest of the chat. `ThreadsInv` is their conjunction with `RepliesInv`.
Theorems: `ThreadsHoldTheirReplies`, and `ThreadsLeaveReplies` (`ThreadsSpec => Spec`: every
step of `Threads` is one of `Replies` or a stutter), so the theorems about `Replies` hold of `Threads`.

**Steps** (`StepsProofs`). `LastingSendsKept` is not inductive: it depends on the
numbers already read. `LastingInv` says that these cover every step that has
been a message in every version, or, after a failed read, no step at all, in which
case the report carries no sends and the cursor stays. A batch has every row between the
old cursor and its newest row, so of the rows the new cursor passes, those of lasting
messages are in it. Theorems: `LastingInvariant`, `SendsKept`.

What the walks compute is proved by induction over the workflow. The library's induction theorems take a
predicate as a parameter, which the provers cannot instantiate; a set can take its place. `LeastNatural`
(a set of naturals that is not empty has a least element) comes from the library's fact that strict
inclusion of finite sets is well-founded, `UpTo` is induction over `0 .. N` for a set, and `RecursionExists`
gives the function that a first value and a step per place define. With it each walk has its
equations: `FunnelWalk`, `PendingWalk`, `KeptWalk`, `ElapsedWalk`.

`Num(M, n)` counts the members of `M` among the first `n` steps, and `Lists` says of a sequence that its
row `Num(M, i)` is of step `i` for each member `i`. Two sequences that list the same steps agree row by
row (`ListsAgree`), because every number up to the last is some member's (`NumOnto`). The
funnel and the messages each list the steps that are messages, and `buildActionSeqMap` gives each
its `Num`. `Aligned` compares what was read in different queries, possibly in different reports, and so
is not inductive. `VersionsInv` is: there is a history `h`, a campaign for each version so far, such
that everything the platform holds or a report has read is what the walks make of `h[v]`, `v` being
the version it is labelled with. An edit extends `h`; no other step needs a new one.
`WaitsKept` follows from it too: what is pending before a message is the time elapsed since the last
messaging step (`PendingSince`), and `waitToDelay` covers it with less than a minute to spare (`DelayCovers`).
`AnswersCounted` needs `ResultsInv`: LH takes a person through a step once, so that counting people
is counting results, and no answer is recorded on a message. Then each row of the funnel counts, after each
step, the answers up to there (`RowsCountAnswers`).
Theorems: `VersionsInvariant`, `NumbersAgree`, `WaitsArePreserved`, `AnswersAreCounted`. TLC has
checked `VersionsInv` and `ResultsInv` on the instance of the run `steps`.

**Registration** (`RegistrationProofs`). `AllFresh` extends `MessagesOfVersion` to
reports under way and late, and to what is being read: steps are read after the
version, and LH's versions only grow, so what is filed under a version is at least
as new as it. Theorems: `FreshInvariant`, `EditsNotMasked`.

**AgentLoop** (`AgentLoopProofs`). `Bounded` and `OffFilesBetweenCycles` speak of
workers; the code only keeps two counters. `LoopInv` ties them: the semaphore holds as
many tokens as there are syncing workers, the WaitGroup counts those that are not
at their end. So `wg = 0` means that no worker is left to open a handle after the
release. Theorems: `LoopInvariant`, `TypeCorrect`, `FilesReleased`,
`WorkersBounded`, `PeriodCorrect`. The accounts are assumed to be finitely many.

**AgentService** (`AgentServiceProofs`). `ServiceInv` adds to `LoopInv` where
`Execute`, the goroutine and `Run` can be relative to each other. `IdentityInv` carries
`OneIdentity`: an id an agent runs with is the one in the file, and each further id has been
paid for by a failed read. Theorems: `ServiceInvariant`, `StoppedClean`, `QuietExit`,
`OneIdentityHolds`.

**HttpCall** (`HttpCallProofs`). `CopiesInv` counts the copies of a call: at most one for
each attempt made, on its way or acted on, and a 2xx body that is there to be taken
proves that one was. The other properties and every step of the refinement follow from it. Theorems:
`CallInvariant`, `OneAnswer`, `GivesUp`, `RetriesSafely` (`Spec => Call!Safe`), for any number
of retries, any times and any jitter.

`RetriesFit` is about time. A `Schedule` lists, for each retry, the wait before it and the most that can
be spent by then, every attempt timed out and every wait a quarter longer than it is due. `OnSchedule`
is inductive: `do` never is later. `RetriesFitSchedule` says, for any timeouts and waits, that no wait is cut
short if the schedule ends before the context does. `AccountLeavesRoom` puts in the numbers of `api.go`: four
attempts of 30 s, waits of 1, 2 and 4 s, and 21 s of two minutes spent on the account before the
call. The worst schedule then ends its last wait 0.25 s before the context ends (21 + 93.75 + 5 s of 120).

Assumptions are those the modules name (`...Assumption`): bounds are natural
numbers, limits and processors at least 1, the default interval lies within its
bounds.

Only model-checked: all liveness properties (`CatchesUp`, `AllArrive`, `ComesToAgree`, `Converges`,
`Settles`, `CycleEnds`, `StopIsAnswered`), since the prover has no fairness, and with them the liveness part of
`Retried`. Every invariant and action property of the passing runs is proved; `GaplessSpec` under the
hypothesis above.

## 5. Findings

1. *Sends can stall* (`feed_send_stall`, `agent.go:576`). The query cuts the batch
   at the limit, then `buildSends` drops the rows of non-messaging steps. If a
   whole batch is of such rows, the platform receives nothing, its cursor stays,
   and the same batch is read in every cycle.
2. *A reply can be skipped between two queries* (`replies_torn`, `replies.go:80`).
   LH mirrors and links a reply after the linked query and before the manual one. It
   is in neither list. If a newer manual reply is in the second, the cursor moves past
   the linked one, and it is never reported.
3. *An error exit is not recovered from* (`service_recovery`,
   `service_windows.go:82`), see the note on `Restart` above.

Smaller observations, which no run shows:

- A cursor reset can be overwritten (`agent.go:132`). The comment at `agent.go:104-109` and
  `cycle_test.go:18-23` rely on a bootstrap per cycle; a reset made between the bootstrap answer
  and the report is still undone by the boundary re-send. `overtaken` marks these states.
- A scraper campaign is registered if its step statistics cannot be read once
  (`agent.go:278`), and no later cycle withdraws it; `models.go:108` says that scrapers are never sent.
- A reply that appears in the cursor's millisecond after the cursor got there, or that the
  limit cut from its millisecond, never gets its thread (`agent.go:470`):
  `ThreadAlreadyDelivered` says that nothing else does this.
- A step that gets a text only later loses the sends the cursor has passed, though the
  funnel counts them; an edit between the reading of the numbers and of the sends
  drops sends of a new step. The comment at `agent.go:572-574` says that sends line up with the
  funnel's "sent". Sends reported before an edit keep the numbers of the version before.
- `reader.go:72-75` calls it safe to cache a profile for the Reader's lifetime, because an upgrade of LH
  restarts "this agent's handle with it". `ReleaseHandles` keeps the profile, and `BuildDBProfile`
  takes a failed probe for an absent table: after one locked or cancelled probe, or an upgrade, an account
  may have none of its replies or only some until the process ends, and those that lie below the
  cursor by then are lost (`hidden`).
- The attempts of a call decode into one struct (`api.go:164`). An answer with a field of another
  type sets the others before it is refused, and the answer that is accepted next need not
  overwrite them; `TakesOneAnswer` excepts this case.
- An answer of more than a megabyte is asked for again three times, though the platform will
  have acted on each of the requests (`api.go:152`).
- A write of the identity file that is cut leaves the beginning of a UUID, which the next start
  takes for the id (`id.go:27-31`). The comment at `id.go:19` says that `""` and `nil` are returned
  when no data dir is writable; an error is returned, which `New` logs.
- A cached profile may have the tables of the linked replies and not `person_in_campaigns_history`, whose
  probe is one of its own (`db_profile.go:90-95`). Then linked replies are reported and `readLinkedThread`
  returns nothing and no error (`thread.go:93-97`): without the chat store, or if the reply is not in it, the
  thread goes out without the reply it is for, though `thread.go:49` calls it complete, and being
  shipped once it stays so. `ThreadHoldsReply` excepts this case (`Traceable`).
- A thread's two queries have no transaction: a message LH links in between is in the thread as one
  of the chat only, without its step.
- A campaign without message bodies has its steps read in every cycle (`known.go:84`),
  though `agent.go:300-301` says that a steady state reads nothing more.
- `thread.go:193-196` does not deduplicate rows with a link: a message linked to two results of the campaign is in the thread twice.
- Comments that no longer fit: `agent.go:26` says that the reply limit is per account,
  it is per campaign; `models.go:149-151` that only linked messages are sent as replies,
  manual ones are too; `scanner.go:8-9` speaks of WAL mode, `reader.go:54-58` of a
  rollback journal.

## 6. What the models assume of the outside

- The platform stores every row it is sent, by id, replaces a campaign's record
  and messages by a register block, and moves a cursor to the newest row stored.
  If it kept old messages on a block without any, a failed read of the steps would
  never be healed. Its messages are the steps of a messaging type with a body, as
  `hasMessageActions` says it mirrors (`agent.go:662-673`).
- LH's detection times and ids do not run backwards. In `FeedSync` a row belongs to one
  campaign; `Replies` says when that holds.
- In `FeedSync` the answers to reports have a body; `Registration` and `HttpCall` have those without.
- In `FeedSync` it is fixed whether a send is kept; `Steps` has what follows when it is not.
- LH takes a person through a workflow forwards and records an answer on a check, never on a
  message.
- A message that a campaign's target wrote is linked with the type `Replied`: the linked query takes
  only those (`replies.go:100`), while any link keeps a message out of the manual ones (`replies.go:184-186`).
- A database of LH has no message tables, all but the chat store, or all; tables missing one by one are
  the work of failed probes. `person_in_campaigns_history` agrees with `action_results`.
- The service manager restarts a crashed process and no other.

## 7. Not modelled

- The account block of a report: owner chain (`owner_sources.go`), daily limits and their
  readers. It is recomputed in every cycle from one database and overwrites what the platform has;
  no decision of the agent depends on it. The chain itself is a merge without state that fills gaps
  in a fixed order.
- Message templates, message examples, `ReadFunnels`: read-only queries and rendering. Whether a
  template renders a text is an input of `Steps`.
- Step numbers of thread messages and the direction of a message: functions of the row.
- Parsing of the environment, the directory of the identity file, logging, pprof,
  the installer's commands, developer tools.
- Several campaigns of one account in `FeedSync`: they are read one after the other with
  cursors of their own, and meet only in the report that carries them, which is applied as one.
- SQL as text: the models take a query by the rows it returns.

Runs are few on purpose: each question is asked once, of the smallest instance that can
answer it. What could still be added: for each liveness property the safety argument behind it (which action is
enabled and what it brings nearer), which can be proved where fairness itself cannot.

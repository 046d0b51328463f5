---------------------------- MODULE Registration ----------------------------
(***************************************************************************)
(* How campaigns get registered on the platform and kept up to date: LH    *)
(* gives a campaign a new version on every edit of its steps; the agent    *)
(* compares the version it reads with the one in its mirror `known',       *)
(* reads the steps if it has to (needsRegister, loadActionsForRegister),   *)
(* decides once more when it builds the report (lookup, buildReport), and  *)
(* the platform's answer replaces the mirror.  The funnel counters that    *)
(* every report carries and the feeds (FeedSync) are left out.             *)
(***************************************************************************)
EXTENDS Integers, FiniteSets

CONSTANTS
  Accounts,        \* accounts lh.Scan finds, each with one campaign
  MaxEdits,        \* edits made to campaigns
  BootstrapFails,  \* TRUE if a bootstrap request may fail
  MaxDeletes,      \* campaigns deleted in the platform's UI
  MaxFaults,       \* failed reads, lost answers, timeouts
  MaxLate          \* requests that may be in the network on their own

ASSUME SwitchAssumption == BootstrapFails \in BOOLEAN
ASSUME BudgetAssumption ==
  MaxEdits \in Nat /\ MaxDeletes \in Nat /\ MaxFaults \in Nat /\ MaxLate \in Nat

VARIABLES
  lh,       \* the campaign in each account's lh.db
  plat,     \* what the platform holds of it
  known,    \* Agent.known
  boot,     \* the known-state carried by the bootstrap answer
  phase,    \* where Agent.cycle is
  pc,       \* where each account's syncAccount is
  read,     \* what it has read of lh.db
  req,      \* the report it has built
  resp,     \* the known-state carried by its answer
  net,      \* reports whose sender stopped waiting, still to be served
  edits,    \* edits left
  deletes,  \* deletions left
  faults    \* faults left

vars == <<lh, plat, known, boot, phase, pc, read, req, resp, net, edits, deletes, faults>>
agentVars == <<known, boot, phase, pc, read, req, resp>>

-----------------------------------------------------------------------------
(* Data *)

\* 0 is the version of a campaign that has none yet, which has no steps either.
Versions == Nat

\* What a campaign's steps amount to: none of a messaging type, some but none
\* with a body (an invitation without a note), or some with a body.
Steps == {"scraping", "bodiless", "messages"}

Campaign == [version : Versions, steps : Steps]

\* messages is the version the stored CampaignMessage rows are of, 0 for none.
Record == [known : BOOLEAN, version : Versions, messages : Versions]
Entry == [known : BOOLEAN, version : Versions, hasMessages : BOOLEAN]

\* loaded: ReadCampaignActions has returned the steps of version `of'.
Reading == [version : Versions, scraper : BOOLEAN, loaded : BOOLEAN,
            of : Versions, steps : Steps]

\* register: there is a RegisterCampaign block, with these messages.
Report == [register : BOOLEAN, version : Versions, messages : Versions]

Unregistered == [known |-> FALSE, version |-> 0, messages |-> 0]
NoEntry == [known |-> FALSE, version |-> 0, hasMessages |-> FALSE]
NothingKnown == [a \in Accounts |-> NoEntry]
NothingRead == [version |-> 0, scraper |-> FALSE, loaded |-> FALSE,
                of |-> 0, steps |-> "scraping"]
NoReport == [register |-> FALSE, version |-> 0, messages |-> 0]

EntryOf(p) == [known |-> p.known, version |-> p.version, hasMessages |-> p.messages # 0]
Snapshot == [a \in Accounts |-> EntryOf(plat[a])]

\* Slip: a campaign that does not change is never looked at again.
NeedsRegisterDrift(e, v) == ~e.known \/ e.version # v

\* needsRegister: unknown, drifted, or without messages on the platform.
NeedsRegister(e, v) == ~e.known \/ e.version # v \/ ~e.hasMessages

\* hasMessageActions, of what has been loaded.
HasMessages(r) == r.loaded /\ r.steps = "messages"

\* Slip: a campaign without messages is registered even if it has none to send.
RegistersBare(e, r) == ~r.scraper /\ NeedsRegister(e, r.version)

\* buildReport's decision: unknown or drifted, or messages to backfill.
Registers(e, r) ==
  /\ ~r.scraper
  /\ ~e.known \/ e.version # r.version \/ (~e.hasMessages /\ HasMessages(r))

Init ==
  /\ lh = [a \in Accounts |-> [version |-> 0, steps |-> "scraping"]]
  /\ plat = [a \in Accounts |-> Unregistered]
  /\ known = NothingKnown
  /\ boot = NothingKnown
  /\ phase = "waiting"
  /\ pc = [a \in Accounts |-> "idle"]
  /\ read = [a \in Accounts |-> NothingRead]
  /\ req = [a \in Accounts |-> NoReport]
  /\ resp = [a \in Accounts |-> NothingKnown]
  /\ net = {}
  /\ edits = MaxEdits
  /\ deletes = MaxDeletes
  /\ faults = MaxFaults

-----------------------------------------------------------------------------
(* Linked Helper and the platform *)

\* The user edits the campaign: a new version, with these steps.
Edit(a, steps) ==
  /\ edits > 0
  /\ lh' = [lh EXCEPT ![a] = [version |-> @.version + 1, steps |-> steps]]
  /\ edits' = edits - 1
  /\ UNCHANGED <<plat, agentVars, net, deletes, faults>>

\* The campaign is deleted in the platform's UI.
Delete(a) ==
  /\ plat[a].known /\ deletes > 0
  /\ plat' = [plat EXCEPT ![a] = Unregistered]
  /\ deletes' = deletes - 1
  /\ UNCHANGED <<lh, agentVars, net, edits, faults>>

\* A register block replaces the platform's record, its messages included.
Apply(a, q) ==
  plat' = IF q.register
            THEN [plat EXCEPT ![a] = [known |-> TRUE, version |-> q.version,
                                      messages |-> q.messages]]
            ELSE plat

-----------------------------------------------------------------------------
(* One cycle: bootstrap, then a worker per account, then the barrier *)

ServeBootstrap ==
  /\ phase = "waiting"
  /\ phase' = "booting"
  /\ boot' = Snapshot
  /\ UNCHANGED <<lh, plat, known, pc, read, req, resp, net, edits, deletes, faults>>

ReceiveBootstrap ==
  /\ phase = "booting"
  /\ phase' = "syncing"
  /\ known' = boot
  /\ boot' = NothingKnown
  /\ UNCHANGED <<lh, plat, pc, read, req, resp, net, edits, deletes, faults>>

\* A 2xx answer without a body is taken for one that knows nothing.
EmptyBootstrap ==
  /\ phase = "booting" /\ faults > 0
  /\ faults' = faults - 1
  /\ boot' = NothingKnown
  /\ UNCHANGED <<lh, plat, known, phase, pc, read, req, resp, net, edits, deletes>>

FailBootstrap ==
  /\ BootstrapFails
  /\ phase \in {"waiting", "booting"}
  /\ phase' = "syncing"
  /\ boot' = NothingKnown
  /\ UNCHANGED <<lh, plat, known, pc, read, req, resp, net, edits, deletes, faults>>

EndCycle ==
  /\ phase = "syncing"
  /\ \A a \in Accounts : pc[a] = "done"
  /\ phase' = "waiting"
  /\ pc' = [a \in Accounts |-> "idle"]
  /\ UNCHANGED <<lh, plat, known, boot, read, req, resp, net, edits, deletes, faults>>

-----------------------------------------------------------------------------
(* syncAccount of account a *)

\* ReadCampaigns: the version is the first thing read.
ReadCampaigns(a) ==
  /\ phase = "syncing" /\ pc[a] = "idle"
  /\ read' = [read EXCEPT ![a] = [NothingRead EXCEPT !.version = lh[a].version]]
  /\ pc' = [pc EXCEPT ![a] = "classify"]
  /\ UNCHANGED <<lh, plat, known, boot, phase, req, resp, net, edits, deletes, faults>>

\* ReadCampaigns or ReadFunnels failed, or the worker panicked.
FailRead(a) ==
  /\ phase = "syncing" /\ pc[a] = "idle" /\ faults > 0
  /\ faults' = faults - 1
  /\ pc' = [pc EXCEPT ![a] = "done"]
  /\ UNCHANGED <<lh, plat, known, boot, phase, read, req, resp, net, edits, deletes>>

\* classifyCampaigns: a campaign without messaging steps is a scraper.
Classify(a) ==
  /\ pc[a] = "classify"
  /\ read' = [read EXCEPT ![a].scraper = lh[a].steps = "scraping"]
  /\ pc' = [pc EXCEPT ![a] = "decide"]
  /\ UNCHANGED <<lh, plat, known, boot, phase, req, resp, net, edits, deletes, faults>>

\* ReadCampaignStepStats failed: the campaign is taken for a regular one.
FailClassify(a) ==
  /\ pc[a] = "classify" /\ faults > 0
  /\ faults' = faults - 1
  /\ pc' = [pc EXCEPT ![a] = "decide"]
  /\ UNCHANGED <<lh, plat, known, boot, phase, read, req, resp, net, edits, deletes>>

\* loadActionsForRegister asks the mirror whether the steps are needed ...
Decide(a) ==
  /\ pc[a] = "decide"
  /\ pc' = [pc EXCEPT ![a] =
              IF ~read[a].scraper /\ NeedsRegister(known[a], read[a].version)
                THEN "load" ELSE "build"]
  /\ UNCHANGED <<lh, plat, known, boot, phase, read, req, resp, net, edits, deletes, faults>>

\* ... and reads those of the version that is then current ...
Load(a) ==
  /\ pc[a] = "load"
  /\ read' = [read EXCEPT ![a].loaded = TRUE, ![a].of = lh[a].version,
                          ![a].steps = lh[a].steps]
  /\ pc' = [pc EXCEPT ![a] = "build"]
  /\ UNCHANGED <<lh, plat, known, boot, phase, req, resp, net, edits, deletes, faults>>

\* ... or fails to, and the campaign goes without messages.
FailLoad(a) ==
  /\ pc[a] = "load" /\ faults > 0
  /\ faults' = faults - 1
  /\ pc' = [pc EXCEPT ![a] = "build"]
  /\ UNCHANGED <<lh, plat, known, boot, phase, read, req, resp, net, edits, deletes>>

\* Slip: the report states the version there is when it is built.
BuildRereads(a) ==
  /\ pc[a] = "build"
  /\ req' = [req EXCEPT ![a] =
               IF Registers(known[a], read[a])
                 THEN [register |-> TRUE, version |-> lh[a].version,
                       messages |-> IF HasMessages(read[a]) THEN read[a].of ELSE 0]
                 ELSE NoReport]
  /\ pc' = [pc EXCEPT ![a] = "report"]
  /\ UNCHANGED <<lh, plat, known, boot, phase, read, resp, net, edits, deletes, faults>>

\* buildReport asks the mirror again, which another account's answer may have
\* replaced.
Build(a) ==
  /\ pc[a] = "build"
  /\ req' = [req EXCEPT ![a] =
               IF Registers(known[a], read[a])
                 THEN [register |-> TRUE, version |-> read[a].version,
                       messages |-> IF HasMessages(read[a]) THEN read[a].of ELSE 0]
                 ELSE NoReport]
  /\ pc' = [pc EXCEPT ![a] = "report"]
  /\ UNCHANGED <<lh, plat, known, boot, phase, read, resp, net, edits, deletes, faults>>

Serve(a) ==
  /\ pc[a] = "report"
  /\ Apply(a, req[a])
  /\ resp' = [resp EXCEPT ![a] = Snapshot']
  /\ pc' = [pc EXCEPT ![a] = "answered"]
  /\ UNCHANGED <<lh, known, boot, phase, read, req, net, edits, deletes, faults>>

\* syncAccount is over: nothing it has read or built is used again.
Finish(a) ==
  /\ pc' = [pc EXCEPT ![a] = "done"]
  /\ read' = [read EXCEPT ![a] = NothingRead]
  /\ req' = [req EXCEPT ![a] = NoReport]
  /\ resp' = [resp EXCEPT ![a] = NothingKnown]

Receive(a) ==
  /\ pc[a] = "answered"
  /\ known' = resp[a]
  /\ Finish(a)
  /\ UNCHANGED <<lh, plat, boot, phase, net, edits, deletes, faults>>

\* The answer is lost or unreadable: do() sends the same body again.
LoseAnswer(a) ==
  /\ pc[a] = "answered" /\ faults > 0
  /\ faults' = faults - 1
  /\ resp' = [resp EXCEPT ![a] = NothingKnown]
  /\ pc' = [pc EXCEPT ![a] = "report"]
  /\ UNCHANGED <<lh, plat, known, boot, phase, read, req, net, edits, deletes>>

\* The report is applied, but its 2xx answer comes without a body.
EmptyAnswer(a) ==
  /\ pc[a] = "answered" /\ faults > 0
  /\ faults' = faults - 1
  /\ resp' = [resp EXCEPT ![a] = NothingKnown]
  /\ UNCHANGED <<lh, plat, known, boot, phase, pc, read, req, net, edits, deletes>>

\* The attempt times out while the request is still under way.
TimeOut(a) ==
  /\ pc[a] = "report" /\ faults > 0
  /\ Cardinality(net) < MaxLate
  /\ faults' = faults - 1
  /\ net' = net \cup {[account |-> a, report |-> req[a]]}
  /\ UNCHANGED <<lh, plat, agentVars, edits, deletes>>

\* do() returns an error: retries used up, a client error, or accCtx expired.
GiveUp(a) ==
  /\ pc[a] = "report" /\ faults > 0
  /\ faults' = faults - 1
  /\ Finish(a)
  /\ UNCHANGED <<lh, plat, known, boot, phase, net, edits, deletes>>

\* A report nobody waits for any more reaches the platform.
ServeLate(m) ==
  /\ m \in net
  /\ Apply(m.account, m.report)
  /\ net' = net \ {m}
  /\ UNCHANGED <<lh, agentVars, edits, deletes, faults>>

-----------------------------------------------------------------------------
Environment ==
  \/ \E a \in Accounts : Delete(a) \/ \E steps \in Steps : Edit(a, steps)
  \/ \E m \in net : ServeLate(m)

Cycle == ServeBootstrap \/ ReceiveBootstrap \/ FailBootstrap \/ EndCycle

\* The steps of syncAccount when nothing fails ...
Proceed(a) ==
  \/ ReadCampaigns(a) \/ Classify(a) \/ Decide(a) \/ Load(a) \/ Build(a)
  \/ Serve(a) \/ Receive(a)

\* ... and those that are faults.
Fail(a) ==
  \/ FailRead(a) \/ FailClassify(a) \/ FailLoad(a)
  \/ LoseAnswer(a) \/ EmptyAnswer(a) \/ TimeOut(a) \/ GiveUp(a)

Next ==
  \/ Environment
  \/ Cycle \/ EmptyBootstrap
  \/ \E a \in Accounts : Proceed(a) \/ Fail(a)

Spec == Init /\ [][Next]_vars

\* The scheduler runs the cycle and its goroutines, and the platform answers.
Fairness == WF_vars(Cycle) /\ \A a \in Accounts : WF_vars(Proceed(a))

FairSpec == Spec /\ Fairness

-----------------------------------------------------------------------------
(* Properties *)

Snapshots == [Accounts -> Entry]
Late == [account : Accounts, report : Report]

\* Every variable has its type.
TypeOK ==
  /\ lh \in [Accounts -> Campaign]
  /\ plat \in [Accounts -> Record]
  /\ known \in Snapshots /\ boot \in Snapshots
  /\ phase \in {"waiting", "booting", "syncing"}
  /\ pc \in [Accounts -> {"idle", "classify", "decide", "load", "build",
                          "report", "answered", "done"}]
  /\ read \in [Accounts -> Reading]
  /\ req \in [Accounts -> Report]
  /\ resp \in [Accounts -> Snapshots]
  /\ net \in SUBSET Late
  /\ edits \in 0 .. MaxEdits
  /\ deletes \in 0 .. MaxDeletes
  /\ faults \in 0 .. MaxFaults

\* The messages the platform stores under a version are never older than that
\* version, although version and steps are read at different times: otherwise
\* the versions would agree from then on and the edit never be sent.
MessagesOfVersion ==
  \A a \in Accounts : plat[a].messages # 0 => plat[a].messages >= plat[a].version

\* Of a report q or a platform record: no message older than its version.
Fresh(q) == q.messages # 0 => q.messages >= q.version

\* MessagesOfVersion for every report, under way or late, and for what it is
\* built from: steps are read after the version, and LH's versions only grow.
AllFresh ==
  /\ TypeOK
  /\ \A a \in Accounts : Fresh(plat[a]) /\ Fresh(req[a])
  /\ \A m \in net : Fresh(m.report)
  /\ \A a \in Accounts :
       /\ read[a].version <= lh[a].version
       /\ read[a].loaded => read[a].of >= read[a].version

\* What the platform should hold of campaign c.
Holds(p, c) ==
  /\ p.known /\ p.version = c.version
  /\ p.messages = IF c.steps = "messages" THEN c.version ELSE 0

\* Once LH, the user and the faults are quiet, the platform comes to hold every
\* outreach campaign as it is, with its messages: also one whose steps could not
\* be read when it was registered, or that was deleted while it was reported.
Converges ==
  <>[](\A a \in Accounts : lh[a].steps # "scraping" => Holds(plat[a], lh[a]))

\* ... and the agent comes to register nothing any more, also with campaigns
\* that have no message to send.
Settles == <>[](\A a \in Accounts : ~req[a].register)

=============================================================================

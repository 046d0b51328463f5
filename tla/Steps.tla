------------------------------- MODULE Steps -------------------------------
(***************************************************************************)
(* How the steps of a campaign's workflow become numbered messages: the    *)
(* register block lists the messages and the waits between them            *)
(* (buildActions), the funnel counts them (buildFunnelSteps), every send   *)
(* carries the number of its message (buildActionSeqMap, buildSends).  The *)
(* three are computed from queries that return what lh.db holds when each  *)
(* is issued, while the user edits the workflow, and only agree because    *)
(* they walk the same steps in the same order.                             *)
(*                                                                         *)
(* One campaign and one worker: no other answer replaces the mirror, which *)
(* is the platform's own record whenever it is consulted.  Loss of reports *)
(* and crossing answers are FeedSync's and Registration's.                 *)
(***************************************************************************)
EXTENDS Integers, Sequences, FiniteSets

CONSTANTS
  Actions,      \* LH's actions, the steps of workflows
  Messaging,    \* those of a type in messageActionTypes
  WaitMs,       \* moveToSuccessfulAfterMs of each action, 0 for none
  Designs,      \* what the user may make of the campaign
  People,       \* persons the campaign reaches
  Limit,        \* sendBatchLimit
  MaxResults,   \* action results LH records
  MaxEdits,     \* edits of the workflow
  MaxFaults     \* failed reads and reports

\* The actions of a version in the order of campaign_version_actions.id, and
\* bodies: those for which RenderMessage finds a text.
IsDesign(d) ==
  /\ d.workflow \in Seq(Actions) /\ d.bodies \subseteq Actions
  /\ \A i, j \in DOMAIN d.workflow : d.workflow[i] = d.workflow[j] => i = j

ASSUME ActionsAssumption ==
  /\ IsFiniteSet(Actions) /\ Messaging \subseteq Actions
  /\ WaitMs \in [Actions -> Nat]
ASSUME DesignsAssumption == \A d \in Designs : IsDesign(d)
ASSUME BoundsAssumption ==
  /\ Limit \in Nat \ {0}
  /\ MaxResults \in Nat /\ MaxEdits \in Nat /\ MaxFaults \in Nat

VARIABLES
  lh,       \* the campaign in lh.db: version, workflow, steps with a body
  results,  \* person_in_campaigns_history, in the order of result_created_at
  plat,     \* what the platform holds of the campaign
  pc,       \* where syncAccount is
  read,     \* what it has read of lh.db
  faults,   \* faults left
  lasting   \* history: actions that were messages in every version

vars == <<lh, results, plat, pc, read, faults, lasting>>

-----------------------------------------------------------------------------
(* Data *)

Result == [person : People, action : Actions, replied : BOOLEAN]
Ids == 1 .. Len(results)

\* Step i of campaign c's workflow as ReadCampaignStepStats returns it.  People are counted
\* once per action.
StepStat(c, i) ==
  LET a == c.workflow[i]
  IN [action  |-> a,
      hasBody |-> a \in c.bodies,
      sent    |-> Cardinality({results[r].person : r \in {s \in Ids : results[s].action = a}}),
      replied |-> Cardinality({results[r].person :
                                 r \in {s \in Ids : results[s].action = a /\ results[s].replied}})]

Stats(c) == [i \in DOMAIN c.workflow |-> StepStat(c, i)]

\* Slip: a messaging step counts whether or not there is anything to send.
IsMessageAnyBody(s) == s.action \in Messaging

\* isMessageStep, and the predicate of hasMessageActions.
IsMessage(s) == s.action \in Messaging /\ s.hasBody

\* Slip: replies found on a later step are left there.
FunnelStepsUnfolded(stats) ==
  LET messages == SelectSeq(stats, IsMessage)
  IN [k \in DOMAIN messages |->
        [action |-> messages[k].action, sent |-> messages[k].sent,
         replied |-> messages[k].replied]]

\* buildFunnelSteps: a row per message; replies to it that LH recorded on the
\* steps that follow are added to its own.  action is not sent: it tells here
\* which message the row's position stands for.
FunnelSteps(stats) ==
  LET rows[n \in 0 .. Len(stats)] ==
        IF n = 0 THEN <<>>
        ELSE LET s == stats[n]
                 before == rows[n - 1]
                 last == Len(before)
             IN IF IsMessage(s)
                  THEN Append(before, [action |-> s.action, sent |-> s.sent,
                                       replied |-> s.replied])
                ELSE IF s.action \notin Messaging /\ last > 0
                  THEN [before EXCEPT ![last].replied = @ + s.replied]
                ELSE before
  IN rows[Len(stats)]

\* buildActionSeqMap: the number of each message.
SeqMap(stats) ==
  [a \in {stats[i].action : i \in {j \in DOMAIN stats : IsMessage(stats[j])}} |->
     LET at == CHOOSE i \in DOMAIN stats : stats[i].action = a
     IN Cardinality({j \in 1 .. at : IsMessage(stats[j])})]

Minute == 60 * 1000
Hour == 60 * Minute
Day == 24 * Hour

\* waitToDelay: whole days, else whole hours, else minutes rounded up.
Delay(ms) ==
  LET unit == IF ms >= Day /\ ms % Day = 0 THEN Day
              ELSE IF ms >= Hour /\ ms % Hour = 0 THEN Hour ELSE Minute
  IN [value |-> (ms + unit - 1) \div unit, unit |-> unit]

NoDelay == [value |-> 0, unit |-> Minute]

\* What ReadCampaignActions returns, waits apart.
Rows(c) == [i \in DOMAIN c.workflow |->
              [action |-> c.workflow[i], hasBody |-> c.workflow[i] \in c.bodies]]

\* Slip: a wait that has been used is used again.
BuildActionsCarry(rows) ==
  LET pending[n \in 0 .. Len(rows)] ==
        IF n = 0 THEN 0
        ELSE pending[n - 1] + (IF rows[n].action \in Messaging THEN 0 ELSE WaitMs[rows[n].action])
  IN [i \in DOMAIN rows |->
        [action |-> rows[i].action, hasBody |-> rows[i].hasBody,
         delay  |-> IF rows[i].action \in Messaging /\ pending[i - 1] > 0
                      THEN Delay(pending[i - 1]) ELSE NoDelay]]

\* buildActions: what is pending after n rows, the waits since the last messaging
\* step, with a body or not, becomes the delay of the next.
BuildActions(rows) ==
  LET pending[n \in 0 .. Len(rows)] ==
        IF n = 0 THEN 0
        ELSE IF rows[n].action \in Messaging THEN 0
        ELSE pending[n - 1] + WaitMs[rows[n].action]
  IN [i \in DOMAIN rows |->
        [action |-> rows[i].action, hasBody |-> rows[i].hasBody,
         delay  |-> IF rows[i].action \in Messaging /\ pending[i - 1] > 0
                      THEN Delay(pending[i - 1]) ELSE NoDelay]]

\* The platform's messages: the actions of a messaging type that have a body.
MessagesOf(actions) ==
  LET kept[n \in 0 .. Len(actions)] ==
        IF n = 0 THEN <<>>
        ELSE IF actions[n].action \in Messaging /\ actions[n].hasBody
          THEN Append(kept[n - 1], actions[n])
        ELSE kept[n - 1]
  IN kept[Len(actions)]

MessageActions(c) == {a \in Messaging : a \in c.bodies /\ \E i \in DOMAIN c.workflow : c.workflow[i] = a}

\* ClassifyLinkedinKind: nothing of a messaging type.
IsScraper(c) == \A i \in DOMAIN c.workflow : c.workflow[i] \notin Messaging

NoSeqs == [a \in {} |-> 0]
NothingRead == [version |-> 0, funnel |-> <<>>, seqs |-> NoSeqs, statsOf |-> 0,
                rows |-> <<>>, rowsOf |-> 0]

Stored == {s.id : s \in plat.sends}

\* c is the newest of these sends, 0 if there is none.
IsHighWater(c, sends) ==
  /\ \A s \in sends : s.id <= c
  /\ c = 0 \/ \E s \in sends : s.id = c

-----------------------------------------------------------------------------
Init ==
  /\ \E d \in Designs : lh = [version |-> 1, workflow |-> d.workflow, bodies |-> d.bodies]
  /\ results = <<>>
  /\ plat = [known |-> FALSE, version |-> 0, messages |-> <<>>, rowsOf |-> 0,
             funnel |-> <<>>, statsOf |-> 0, sends |-> {}, cursor |-> 0]
  /\ pc = "idle"
  /\ read = NothingRead
  /\ faults = MaxFaults
  /\ lasting = MessageActions(lh)

\* The user of LH edits the workflow or the texts: a new version.
Edit(d) ==
  /\ lh.version <= MaxEdits
  /\ lh' = [version |-> lh.version + 1, workflow |-> d.workflow, bodies |-> d.bodies]
  /\ lasting' = lasting \cap MessageActions(lh')
  /\ UNCHANGED <<results, plat, pc, read, faults>>

\* LH has executed the i-th step for a person it has not taken past it.  An answer
\* is recorded on the check that follows a message, never on the message.
Act(p, i, replied) ==
  /\ Len(results) < MaxResults
  /\ \A r \in Ids, j \in DOMAIN lh.workflow :
       results[r].person = p /\ results[r].action = lh.workflow[j] => j < i
  /\ replied => lh.workflow[i] \notin Messaging
  /\ results' = Append(results, [person |-> p, action |-> lh.workflow[i], replied |-> replied])
  /\ UNCHANGED <<lh, plat, pc, read, faults, lasting>>

-----------------------------------------------------------------------------
(* syncAccount *)

ReadCampaigns ==
  /\ pc = "idle"
  /\ read' = [NothingRead EXCEPT !.version = lh.version]
  /\ pc' = "classify"
  /\ UNCHANGED <<lh, results, plat, faults, lasting>>

\* classifyCampaigns; nothing of a scraper is reported.
Classify ==
  /\ pc = "classify"
  /\ IF IsScraper(lh)
       THEN pc' = "idle" /\ read' = NothingRead
       ELSE /\ pc' = "load"
            /\ read' = [NothingRead EXCEPT !.version = read.version, !.statsOf = lh.version,
                                           !.funnel = FunnelSteps(Stats(lh)),
                                           !.seqs = SeqMap(Stats(lh))]
  /\ UNCHANGED <<lh, results, plat, faults, lasting>>

\* ReadCampaignStepStats failed: a regular campaign without steps and numbers.
FailClassify ==
  /\ pc = "classify" /\ faults > 0
  /\ faults' = faults - 1
  /\ pc' = "load"
  /\ UNCHANGED <<lh, results, plat, read, lasting>>

NeedsRegister == ~plat.known \/ plat.version # read.version \/ plat.messages = <<>>

\* loadActionsForRegister
Load ==
  /\ pc = "load"
  /\ read' = IF NeedsRegister
               THEN [read EXCEPT !.rows = Rows(lh), !.rowsOf = lh.version]
               ELSE read
  /\ pc' = "report"
  /\ UNCHANGED <<lh, results, plat, faults, lasting>>

FailLoad ==
  /\ pc = "load" /\ NeedsRegister /\ faults > 0
  /\ faults' = faults - 1
  /\ pc' = "report"
  /\ UNCHANGED <<lh, results, plat, read, lasting>>

\* Slip: no backfill.
RegistersDrift == ~plat.known \/ plat.version # read.version

\* buildReport's decision
Registers ==
  \/ ~plat.known \/ plat.version # read.version
  \/ plat.messages = <<>> /\ \E i \in DOMAIN read.rows : IsMessage(read.rows[i])

\* Slip: the newest sends.
BatchNewest == {i \in Ids : i >= plat.cursor /\ Len(results) < i + Limit}

\* ReadCampaignSends: from the cursor on, oldest first, at most Limit.
Batch ==
  LET first == IF plat.cursor = 0 THEN 1 ELSE plat.cursor
  IN {i \in Ids : first <= i /\ i < first + Limit}

\* buildSends: the rows of numbered steps, with the number.
Sends == {[id |-> i, seq |-> read.seqs[results[i].action], of |-> read.statsOf] :
            i \in {j \in Batch : results[j].action \in DOMAIN read.seqs}}

\* The platform's record after a report: a register block replaces the messages,
\* the funnel is overwritten.
Record(sends, cursor) ==
  [known    |-> TRUE,
   version  |-> IF Registers THEN read.version ELSE plat.version,
   messages |-> IF Registers THEN MessagesOf(BuildActions(read.rows)) ELSE plat.messages,
   rowsOf   |-> IF Registers THEN read.rowsOf ELSE plat.rowsOf,
   funnel   |-> read.funnel,
   statsOf  |-> read.statsOf,
   sends    |-> sends,
   cursor   |-> cursor]

\* Sends are stored once.
StoredWith(sends) == plat.sends \cup {s \in sends : s.id \notin Stored}

\* The platform applies the report; its answer is the next mirror.
Apply(sends) ==
  /\ \E c \in 0 .. Len(results) :
       IsHighWater(c, StoredWith(sends)) /\ plat' = Record(StoredWith(sends), c)
  /\ pc' = "idle"
  /\ read' = NothingRead
  /\ UNCHANGED <<lh, results, lasting>>

\* appendSends and Report: sends only of a campaign the platform knows.
Report ==
  /\ pc = "report"
  /\ Apply(IF plat.known THEN Sends ELSE {})
  /\ UNCHANGED faults

\* ReadCampaignSends failed: the report goes without sends.
FailSends ==
  /\ pc = "report" /\ faults > 0
  /\ faults' = faults - 1
  /\ Apply({})

\* The report failed, or what was read before it.
FailReport ==
  /\ pc # "idle" /\ faults > 0
  /\ faults' = faults - 1
  /\ pc' = "idle"
  /\ read' = NothingRead
  /\ UNCHANGED <<lh, results, plat, lasting>>

-----------------------------------------------------------------------------
LinkedHelper ==
  \/ \E d \in Designs : Edit(d)
  \/ \E p \in People, i \in DOMAIN lh.workflow, replied \in BOOLEAN : Act(p, i, replied)

Proceed == ReadCampaigns \/ Classify \/ Load \/ Report

Fail == FailClassify \/ FailLoad \/ FailSends \/ FailReport

Next == LinkedHelper \/ Proceed \/ Fail

Spec == Init /\ [][Next]_vars

\* The agent syncs the account in every cycle.
FairSpec == Spec /\ WF_vars(Proceed)

-----------------------------------------------------------------------------
(* Properties *)

\* Every variable has its type.
TypeOK ==
  /\ lh.version \in Nat /\ IsDesign(lh)
  /\ results \in Seq(Result)
  /\ plat.known \in BOOLEAN /\ plat.version \in Nat
  /\ \A s \in plat.sends : s.id \in Ids
  /\ plat.cursor \in 0 .. Len(results)
  /\ pc \in {"idle", "classify", "load", "report"}
  /\ read.version \in Nat
  /\ faults \in 0 .. MaxFaults
  /\ lasting \subseteq Messaging

\* A step that has been a message in every version of the campaign loses no send:
\* what the cursor has passed the platform holds, although the rows of other
\* steps are dropped from every batch and the numbers are read before the rows.
\* It fails for a step that gets its text later: the cursor may have passed it.
LastingSendsKept ==
  \A i \in Ids : i <= plat.cursor /\ results[i].action \in lasting => i \in Stored

\* LastingSendsKept with what it rests on: numbers that have been read are of
\* every lasting message or, if they could not be read, of none.
LastingInv ==
  /\ TypeOK
  /\ lasting \subseteq MessageActions(lh)
  /\ pc # "idle" => DOMAIN read.seqs = {} \/ lasting \subseteq DOMAIN read.seqs
  /\ \A s \in plat.sends : s.id <= plat.cursor
  /\ LastingSendsKept

\* Funnel row k, message k and the sends numbered k are of the same step whenever
\* they were read from the same version, although three walks number them.
Aligned ==
  /\ plat.statsOf = plat.rowsOf /\ plat.rowsOf # 0 =>
       /\ Len(plat.funnel) = Len(plat.messages)
       /\ \A k \in DOMAIN plat.messages : plat.funnel[k].action = plat.messages[k].action
  /\ \A s \in plat.sends : s.of = plat.rowsOf =>
       /\ s.seq \in DOMAIN plat.messages
       /\ plat.messages[s.seq].action = results[s.id].action

\* What LH waits in the first n steps.
Elapsed ==
  LET ms[n \in 0 .. Len(lh.workflow)] ==
        IF n = 0 THEN 0 ELSE ms[n - 1] + WaitMs[lh.workflow[n]]
  IN ms

\* No messaging step lies between b, one itself or the start, and step i.
LastBefore(b, i) ==
  /\ b = 0 \/ lh.workflow[b] \in Messaging
  /\ \A j \in b + 1 .. i - 1 : lh.workflow[j] \notin Messaging

\* The platform's delay before a message covers the waits LH makes before it, no
\* other message's, and is less than a minute longer.
WaitsKept ==
  plat.rowsOf = lh.version =>
    \A k \in DOMAIN plat.messages, i \in DOMAIN lh.workflow :
      \A b \in 0 .. i - 1 :
        LET d == plat.messages[k].delay
            ms == Elapsed[i - 1] - Elapsed[b]
        IN lh.workflow[i] = plat.messages[k].action /\ LastBefore(b, i) =>
             ms <= d.value * d.unit /\ d.value * d.unit < ms + Minute

\* Every answer LH has recorded on a step after the k-th message and before the
\* next is counted for that message, and no other is.
AnswersCounted ==
  LET funnel == FunnelSteps(Stats(lh))
      Before(a, b) == \E i, j \in DOMAIN lh.workflow :
                        i < j /\ lh.workflow[i] = a /\ lh.workflow[j] = b
      To(k) == {r \in Ids : /\ results[r].replied
                            /\ Before(funnel[k].action, results[r].action)
                            /\ k < Len(funnel) => Before(results[r].action, funnel[k + 1].action)}
  IN \A k \in DOMAIN funnel : funnel[k].replied = Cardinality(To(k))

\* Once LH and the faults are quiet, the platform comes to hold the messages and
\* the counts of an outreach campaign as they are.
ComesToAgree ==
  <>[](~IsScraper(lh) =>
         /\ plat.messages = MessagesOf(BuildActions(Rows(lh)))
         /\ plat.funnel = FunnelSteps(Stats(lh)))

=============================================================================

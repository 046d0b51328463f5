--------------------------- MODULE HttpCallProofs ---------------------------
(***************************************************************************)
(* A call keeps CallInv and TakesOneAnswer, whatever the platform and the  *)
(* network do, and each of its steps is one of RetriedCall or changes      *)
(* nothing there.                                                          *)
(***************************************************************************)
EXTENDS HttpCall, TLAPS

\* What RetriedCall is shown of a state, and the answers to be taken.
Clean == ~misfit /\ result # "ok" => out = Zero

FullInv == CallInv /\ Clean /\ TakesOneAnswer /\ GivesUpLast

\* A wait is a number, and so is the next one.
LEMMA WaitsAreNumbers ==
  ASSUME backoff \in Nat
  PROVE  /\ Grown(backoff) \in Nat
         /\ \A w \in Jittered(backoff) : w \in Nat
BY TimesAssumption DEF Grown, Jittered

LEMMA BudgetIsNumber ==
  ASSUME CallInv
  PROVE  deadline \in Nat /\ began \in Nat /\ spent \in Nat
BY TimesAssumption DEF CallInv, TypeOK, CopiesInv

\* An answer is no request, and its two tags are none of its contents.
LEMMA TagsDiffer ==
  /\ NoRequest # Travelling /\ NoRequest \notin Answer /\ Travelling \notin Answer
  /\ NoRequest.says \notin Bodies /\ Travelling.says \notin Bodies
<1>1. NoRequest.says = "nothing" /\ Travelling.says = "travelling"
  BY DEF NoRequest, Travelling
<1>2. \A a \in Answer : a.says \in Failures \cup Bodies
  BY DEF Answer
<1>. QED  BY <1>1, <1>2 DEF Failures, Bodies

LEMMA OneMore ==
  ASSUME NEW n \in Nat, NEW s \in Nat, NEW t \in Nat, NEW k \in Nat,
         n + s <= k, t <= s + 1
  PROVE  n + t <= k + 1
OBVIOUS

LEMMA InitFullInv == Init => FullInv
<1> SUFFICES ASSUME Init PROVE FullInv
  OBVIOUS
<1>1. deadline \in Nat /\ began \in Nat /\ began <= deadline
  BY TimesAssumption, BeginsAssumption DEF Init
<1>2. out \in Out
  BY DEF Init, Zero, Out
<1>3. TypeOK
  <2>1. 0 \in Nat /\ 0 \in 0 .. MaxRetries
    BY RetriesAssumption
  <2>2. cancelled \in BOOLEAN /\ refused \in BOOLEAN /\ misfit \in BOOLEAN
    BY DEF Init
  <2>. QED  BY <1>2, <2>1, <2>2 DEF Init, TypeOK, Phases
<1>4. CopiesInv
  BY TagsDiffer DEF Init, CopiesInv
<1>5. CallInv
  BY <1>1, <1>3, <1>4 DEF Init, CallInv
<1>. QED  BY <1>5 DEF Init, FullInv, Clean, TakesOneAnswer, GivesUpLast

\* The platform, the network and the user who stops the agent.
LEMMA EnvironmentKeeps ==
  ASSUME FullInv, Environment
  PROVE  FullInv'
<1> USE DEF FullInv
<1>1. ASSUME NEW a \in Answer, Serve(a) PROVE FullInv'
  <2>1. served' \in Nat /\ served <= served' /\ served' <= served + 1
    BY <1>1 DEF Serve, CallInv, TypeOK, CopiesInv
  <2>2. a.says \in Bodies => served' = a.nth /\ served' > 0
    BY <1>1 DEF Serve, CallInv, TypeOK, CopiesInv
  <2>3. phase = "sending"
    BY <1>1, TagsDiffer DEF Serve, CallInv, TypeOK, CopiesInv, Phases
  <2>4. a # Travelling
    BY TagsDiffer
  <2>5. TypeOK'
    <3>1. (cancelled \in BOOLEAN /\ refused \in BOOLEAN /\ misfit \in BOOLEAN)'
      BY <1>1 DEF Serve, CallInv, TypeOK
    <3>. QED  BY <1>1, <2>1, <3>1 DEF Serve, CallInv, TypeOK, ctxVars
  <2>6. CopiesInv'
    <3>1. late' = late /\ phase' = phase /\ attempt' = attempt /\ request' = a
      BY <1>1 DEF Serve
    <3>2. late + served <= attempt
      BY <1>1 DEF Serve, CallInv, CopiesInv
    <3>3. a.nth \in Nat
      BY RetriesAssumption DEF Answer
    <3>6. late \in Nat /\ served \in Nat /\ attempt \in Nat
      BY RetriesAssumption DEF CallInv, TypeOK
    <3>4. late' + served' <= attempt' + 1
      <4>1. late + served' <= attempt + 1
        BY <2>1, <3>2, <3>6, OneMore
      <4>. QED  BY <3>1, <4>1
    <3>5. request'.says \in Bodies => served' > 0 /\ request'.nth <= served'
      BY <2>1, <2>2, <3>1, <3>3
    <3>. QED  BY <2>3, <2>4, <3>1, <3>4, <3>5 DEF CopiesInv
  <2>7. CallInv'
    BY <1>1, <2>5, <2>6 DEF Serve, CallInv, ctxVars
  <2>8. (Clean /\ TakesOneAnswer /\ GivesUpLast)'
    BY <1>1, <2>3 DEF Serve, CallInv, TypeOK, CopiesInv, Clean, TakesOneAnswer, GivesUpLast, ctxVars
  <2>. QED  BY <2>7, <2>8
<1>2. CASE ServeLate
  <2>3. TypeOK'
    BY <1>2 DEF ServeLate, CallInv, TypeOK, ctxVars
  <2>4. CopiesInv'
    <3>1. request.says \in Bodies => served' > 0 /\ request.nth <= served'
      BY <1>2, RetriesAssumption, TagsDiffer DEF ServeLate, CallInv, TypeOK, CopiesInv, Answer
    <3>. QED  BY <1>2, <3>1 DEF ServeLate, CallInv, TypeOK, CopiesInv
  <2>1. CallInv'
    BY <1>2, <2>3, <2>4 DEF ServeLate, CallInv, ctxVars
  <2>2. TakesOneAnswer'
    BY <1>2 DEF ServeLate, CallInv, TypeOK, CopiesInv, TakesOneAnswer, Whole
  <2>. QED  BY <1>2, <2>1, <2>2 DEF ServeLate, Clean, GivesUpLast, ctxVars
<1>3. CASE Cancel
  BY <1>3 DEF Cancel, CallInv, TypeOK, CopiesInv, Clean, TakesOneAnswer, GivesUpLast, ctxVars
<1>. QED  BY <1>1, <1>2, <1>3 DEF Environment

\* What both endings of an attempt that failed have in common.
LEMMA RetryKeeps ==
  ASSUME CallInv, phase = "sending", Retry
  PROVE  /\ attempt' \in 0 .. MaxRetries /\ backoff' \in Nat
         /\ phase' \in {"waiting", "returned"}
         /\ phase' = "waiting" => attempt' = attempt + 1 /\ result' = "none"
         /\ phase' = "returned" => attempt' = attempt /\ result' = "error"
                                  /\ attempt' = MaxRetries
BY WaitsAreNumbers, RetriesAssumption DEF CallInv, TypeOK, CopiesInv, Retry, Again, Return

LEMMA FailKeeps ==
  ASSUME FullInv, NEW d \in Durations, FailAttempt(d)
  PROVE  FullInv'
<1> USE DEF FullInv
<1>1. /\ attempt' \in 0 .. MaxRetries /\ backoff' \in Nat
      /\ phase' \in {"waiting", "returned"}
      /\ phase' = "waiting" => attempt' = attempt + 1 /\ result' = "none"
      /\ phase' = "returned" => attempt' = attempt /\ result' = "error"
                               /\ attempt' = MaxRetries
  BY RetryKeeps DEF FailAttempt
<1>2. spent' \in began' .. deadline' /\ deadline' = deadline /\ began' = began
  BY BudgetIsNumber, TimesAssumption DEF FailAttempt, CallInv, TypeOK, CopiesInv, ctxVars
<1>3. late' \in Nat /\ late' + served' <= attempt + 1 /\ request' = NoRequest
  BY DEF FailAttempt, CallInv, TypeOK, CopiesInv
<1>4. CallInv'
  BY <1>1, <1>2, <1>3, TagsDiffer DEF FailAttempt, CallInv, TypeOK, CopiesInv, Phases
<1>5. (Clean /\ TakesOneAnswer /\ GivesUpLast)'
  BY <1>1 DEF FailAttempt, CallInv, TypeOK, CopiesInv, Clean, TakesOneAnswer, GivesUpLast
<1>. QED  BY <1>4, <1>5

LEMMA TakeKeeps ==
  ASSUME FullInv, NEW d \in Durations, TakeAnswer(d)
  PROVE  FullInv'
<1> USE DEF FullInv
<1>1. spent' \in began' .. deadline' /\ deadline' = deadline /\ began' = began
  BY BudgetIsNumber, TimesAssumption DEF TakeAnswer, CallInv, TypeOK, CopiesInv, ctxVars
<1>2. /\ attempt' \in 0 .. MaxRetries /\ backoff' \in Nat
      /\ phase' \in {"waiting", "returned"}
      /\ phase' = "waiting" => attempt' = attempt + 1 /\ result' = "none"
      /\ phase' = "returned" => attempt' = attempt /\ result' \in {"ok", "error"}
      /\ result' = "ok" => Accepts(request)
      /\ result' = "error" => IsClientError(request) \/ attempt' = MaxRetries
  <2>1. CASE Accepts(request) \/ IsClientError(request)
    BY <2>1 DEF TakeAnswer, CallInv, TypeOK, CopiesInv, Return
  <2>2. CASE ~Accepts(request) /\ ~IsClientError(request)
    <3>1. Retry
      BY <2>2 DEF TakeAnswer
    <3>. QED  BY <3>1, RetryKeeps DEF TakeAnswer
  <2>. QED  BY <2>1, <2>2
<1>3. request.nth \in Nat /\ request # Travelling
  BY TagsDiffer, RetriesAssumption DEF TakeAnswer, Answer
<1>4. out' \in Out
  <2>1. CASE request.says = "whole"
    BY <1>3, <2>1 DEF TakeAnswer, Decoded, Whole, Out
  <2>2. CASE request.says = "misfit"
    BY <1>3, <2>2 DEF TakeAnswer, Decoded, CallInv, TypeOK, CopiesInv, Out
  <2>3. CASE request.says \notin {"whole", "misfit"}
    BY <2>3 DEF TakeAnswer, Decoded, CallInv, TypeOK, CopiesInv
  <2>. QED  BY <2>1, <2>2, <2>3
<1>5. misfit' \in BOOLEAN /\ refused' \in BOOLEAN
  BY DEF TakeAnswer
<1>9. TypeOK'
  BY <1>1, <1>2, <1>4, <1>5 DEF TakeAnswer, CallInv, TypeOK, Phases
<1>10. CopiesInv'
  <2>1. late' = late /\ served' = served /\ request' = NoRequest
    BY DEF TakeAnswer
  <2>2. late + served <= attempt + 1 /\ late \in Nat /\ served \in Nat /\ attempt \in Nat
    BY RetriesAssumption DEF CallInv, TypeOK, CopiesInv
  <2>3. request' # Travelling /\ request'.says \notin Bodies
    BY <2>1, TagsDiffer
  <2>4. phase' = "waiting" => attempt' > 0 /\ late' + served' <= attempt'
    BY <1>2, <2>1, <2>2
  <2>5. late' + served' <= attempt' + 1
    <3>1. attempt' = attempt \/ attempt' = attempt + 1
      BY <1>2
    <3>2. late + served <= attempt + 2
      BY <2>2
    <3>. QED  BY <2>1, <2>2, <3>1, <3>2
  <2>. QED  BY <2>1, <2>3, <2>4, <2>5 DEF CopiesInv
<1>6. CallInv'
  <2>1. (result = "none" <=> phase # "returned")'
    BY <1>2
  <2>. QED  BY <1>1, <1>9, <1>10, <2>1 DEF CallInv
<1>7. Clean' /\ TakesOneAnswer'
  <2>1. CASE request.says = "misfit"
    BY <2>1 DEF TakeAnswer, Clean, TakesOneAnswer
  <2>2. CASE request.says = "whole"
    <3>1. out' = Whole(request.nth) /\ request.nth \in 1 .. served'
      BY <2>2, RetriesAssumption DEF TakeAnswer, Decoded, CallInv, TypeOK, CopiesInv, Bodies, Answer
    <3>2. result' = "ok"
      BY <2>2 DEF TakeAnswer, Accepts, Return
    <3>. QED  BY <3>1, <3>2 DEF Clean, TakesOneAnswer
  <2>3. CASE request.says \notin {"whole", "misfit"}
    <3>1. out' = out /\ misfit' <=> misfit
      BY <2>3 DEF TakeAnswer, Decoded
    <3>2. result # "ok"
      BY DEF TakeAnswer, CallInv, TypeOK, CopiesInv
    <3>. QED  BY <3>1, <3>2, <2>3 DEF TakeAnswer, Decoded, Clean, TakesOneAnswer
  <2>. QED  BY <2>1, <2>2, <2>3
<1>8. GivesUpLast'
  BY <1>2 DEF TakeAnswer, IsClientError, GivesUpLast
<1>. QED  BY <1>6, <1>7, <1>8

LEMMA WaitKeeps ==
  ASSUME FullInv, WaitOut \/ CtxEnds
  PROVE  FullInv'
<1> USE DEF FullInv
<1>1. CASE WaitOut
  <2>1. spent' \in began' .. deadline' /\ deadline' = deadline /\ began' = began
    BY <1>1, BudgetIsNumber, WaitsAreNumbers DEF WaitOut, Send, CallInv, TypeOK, CopiesInv, ctxVars
  <2>2. request' \in {NoRequest, Travelling} /\ phase' = "sending" /\ phase = "waiting"
    BY <1>1 DEF WaitOut, Send
  <2>3. CallInv'
    BY <1>1, <2>1, <2>2, TagsDiffer DEF WaitOut, Send, CallInv, TypeOK, CopiesInv, Phases
  <2>. QED  BY <1>1, <2>2, <2>3
            DEF WaitOut, Send, CallInv, TypeOK, CopiesInv, Clean, TakesOneAnswer, GivesUpLast
<1>2. CASE CtxEnds
  <2>1. spent' \in began' .. deadline' /\ deadline' = deadline /\ began' = began
    BY <1>2, BudgetIsNumber DEF CtxEnds, CallInv, TypeOK, CopiesInv, ctxVars
  <2>2. CallInv'
    BY <1>2, <2>1 DEF CtxEnds, Return, CallInv, TypeOK, CopiesInv, Phases
  <2>3. GivesUpLast'
    BY <1>2, <2>1 DEF CtxEnds, GivesUpLast
  <2>. QED  BY <1>2, <2>2, <2>3
            DEF CtxEnds, Return, CallInv, TypeOK, CopiesInv, Clean, TakesOneAnswer
<1>. QED  BY <1>1, <1>2

LEMMA StutterKeeps ==
  ASSUME FullInv, UNCHANGED vars
  PROVE  FullInv'
BY DEF FullInv, CallInv, TypeOK, CopiesInv, Clean, TakesOneAnswer, GivesUpLast, vars, ctxVars

LEMMA AlwaysFull == Spec => []FullInv
<1>1. FullInv /\ [Next]_vars => FullInv'
  BY EnvironmentKeeps, FailKeeps, TakeKeeps, WaitKeeps, StutterKeeps DEF Next, Do
<1>. QED  BY <1>1, InitFullInv, PTL DEF Spec

\* Four attempts at most, inside the caller's context, and every copy of the call
\* accounted for: for any timeouts, waits and deadlines.
THEOREM CallInvariant == Spec => []CallInv
<1>1. FullInv => CallInv
  BY DEF FullInv
<1>. QED  BY <1>1, AlwaysFull, PTL

\* The struct a call fills holds one whole answer of the platform, or nothing, as
\* long as every answer fits the type.
THEOREM OneAnswer == Spec => []TakesOneAnswer
<1>1. FullInv => TakesOneAnswer
  BY DEF FullInv
<1>. QED  BY <1>1, AlwaysFull, PTL

\* A call fails for good only when refused, out of attempts, or out of time.
THEOREM GivesUp == Spec => []GivesUpLast
<1>1. FullInv => GivesUpLast
  BY DEF FullInv
<1>. QED  BY <1>1, AlwaysFull, PTL

\* Of what RetriedCall sees, a step changes nothing, or is one of its steps.
LEMMA StepImplements ==
  ASSUME FullInv, FullInv', [Next]_vars
  PROVE  [Call!Next]_<<served, result>>
<1> USE DEF FullInv
<1>1. ASSUME NEW a \in Answer, Serve(a) PROVE [Call!Next]_<<served, result>>
  <2>1. result' = result /\ served' \in {served, served + 1}
    BY <1>1 DEF Serve
  <2>2. served < MaxRetries + 1
    <3>1. late + served <= attempt
      BY <1>1 DEF Serve, CallInv, CopiesInv
    <3>2. late \in Nat /\ served \in Nat /\ attempt \in 0 .. MaxRetries
      BY DEF CallInv, TypeOK
    <3>. QED  BY <3>1, <3>2, RetriesAssumption
  <2>. QED  BY <2>1, <2>2 DEF Call!Next, Call!Serve
<1>2. ASSUME ServeLate PROVE [Call!Next]_<<served, result>>
  <2>1. result' = result /\ served' = served + 1 /\ late > 0
    BY <1>2 DEF ServeLate
  <2>2. served < MaxRetries + 1
    <3>1. late + served <= attempt + 1
      BY DEF CallInv, CopiesInv
    <3>2. late \in Nat /\ served \in Nat /\ attempt \in 0 .. MaxRetries
      BY DEF CallInv, TypeOK
    <3>. QED  BY <2>1, <3>1, <3>2, RetriesAssumption
  <2>. QED  BY <2>1, <2>2 DEF Call!Next, Call!Serve
<1>3. ASSUME Cancel \/ WaitOut \/ UNCHANGED vars PROVE [Call!Next]_<<served, result>>
  BY <1>3 DEF Cancel, WaitOut, Send, vars
<1>4. ASSUME NEW d \in Durations, TakeAnswer(d) PROVE [Call!Next]_<<served, result>>
  <2>1. served' = served /\ result = "none"
    BY <1>4 DEF TakeAnswer, CallInv
  <2>2. result' = "ok" => served > 0
    <3>1. ASSUME result' = "ok" PROVE Accepts(request)
      BY <1>4, <2>1, <3>1 DEF TakeAnswer, Return, Retry, Again
    <3>. QED  BY <3>1 DEF Accepts, Bodies, CallInv, CopiesInv
  <2>3. result' \in {"none", "ok", "error"}
    BY DEF CallInv, TypeOK
  <2>. QED  BY <2>1, <2>2, <2>3 DEF Call!Next, Call!Succeed, Call!Fail
<1>5. ASSUME NEW d \in Durations, FailAttempt(d) PROVE [Call!Next]_<<served, result>>
  <2>1. served' = served /\ result = "none" /\ result' \in {"none", "error"}
    BY <1>5 DEF FailAttempt, CallInv, Return, Retry, Again
  <2>. QED  BY <2>1 DEF Call!Next, Call!Fail
<1>6. ASSUME CtxEnds PROVE [Call!Next]_<<served, result>>
  BY <1>6 DEF CtxEnds, CallInv, Return, Call!Next, Call!Fail
<1>. QED  BY <1>1, <1>2, <1>3, <1>4, <1>5, <1>6 DEF Next, Environment, Do

\* The safety part of Retried: the call succeeds only if the platform acted on it,
\* and the platform gets at most MaxRetries + 1 copies.
THEOREM RetriesSafely == Spec => Call!Safe
<1>1. Init => Call!Init
  BY DEF Init, Call!Init
<1>2. FullInv /\ FullInv' /\ [Next]_vars => [Call!Next]_Call!callVars
  BY StepImplements DEF Call!callVars
<1>. QED  BY <1>1, <1>2, AlwaysFull, PTL DEF Spec, Call!Safe

-----------------------------------------------------------------------------
(* The budget: how late do can be between its attempts *)

\* wait is what do waits before its k-th retry, jitter apart; worst is the most
\* that can be spent by then, every attempt timed out and every wait long.
Schedule(wait, worst) ==
  /\ \A k \in 1 .. MaxRetries :
       /\ wait[k] \in Nat /\ worst[k] \in Nat
       /\ k = 1 => wait[k] = Grown(0) /\ worst[k] = RequestTimeout
       /\ k > 1 => /\ wait[k] = Grown(wait[k - 1])
                   /\ worst[k] = worst[k - 1] + (5 * wait[k - 1]) \div 4 + RequestTimeout

\* do is on schedule: before its first attempt it has spent nothing, before a
\* retry no more than the worst, and the wait of that retry is due or over.
OnSchedule(wait, worst) ==
  /\ phase # "returned" /\ attempt = 0 => backoff = 0 /\ spent = began
  /\ phase # "returned" /\ attempt > 0 => backoff = wait[attempt]
  /\ phase = "waiting" => spent <= began + worst[attempt]
  /\ phase = "sending" /\ attempt > 0 =>
       spent <= began + worst[attempt] + (5 * wait[attempt]) \div 4

LEMMA JitterBounds ==
  ASSUME NEW b \in Nat, NEW w \in Jittered(b)
  PROVE  w \in Nat /\ w <= (5 * b) \div 4
BY DEF Jittered

\* A failed attempt that is not the last is followed by the wait due then.
LEMMA RetryOnSchedule ==
  ASSUME NEW wait, NEW worst, Schedule(wait, worst), CallInv, phase = "sending",
         OnSchedule(wait, worst), NEW d \in Durations, began' = began,
         spent' \in Nat, spent' <= spent + d, Retry
  PROVE  OnSchedule(wait, worst)'
<1>1. CASE attempt = MaxRetries
  BY <1>1 DEF Retry, Return, OnSchedule
<1>2. CASE attempt # MaxRetries
  <2>1. phase' = "waiting" /\ attempt' = attempt + 1 /\ backoff' = Grown(backoff)
    BY <1>2 DEF Retry, Again
  <2>2. /\ attempt \in Nat /\ attempt + 1 \in 1 .. MaxRetries /\ began \in Nat
        /\ spent \in Nat /\ d \in Nat /\ d <= RequestTimeout /\ RequestTimeout \in Nat
    BY <1>2, BudgetIsNumber, TimesAssumption, RetriesAssumption DEF CallInv, TypeOK
  <2>3. backoff' = wait[attempt'] /\ spent' <= began + worst[attempt']
    <3>1. CASE attempt = 0
      <4>1. wait[1] = Grown(0) /\ worst[1] = RequestTimeout
        BY <2>2, <3>1 DEF Schedule
      <4>. QED  BY <2>1, <2>2, <3>1, <4>1 DEF OnSchedule
    <3>2. CASE attempt > 0
      <4>1. attempt \in 1 .. MaxRetries /\ attempt + 1 > 1 /\ (attempt + 1) - 1 = attempt
        BY <1>2, <2>2, <3>2, RetriesAssumption
      <4>2. /\ wait[attempt + 1] = Grown(wait[attempt])
            /\ worst[attempt + 1]
                 = worst[attempt] + (5 * wait[attempt]) \div 4 + RequestTimeout
        BY <2>2, <4>1 DEF Schedule
      <4>3. wait[attempt] \in Nat /\ worst[attempt] \in Nat
        BY <4>1 DEF Schedule
      <4>4. /\ backoff = wait[attempt]
            /\ spent <= began + worst[attempt] + (5 * wait[attempt]) \div 4
        BY <3>2 DEF OnSchedule
      <4>. QED  BY <2>1, <2>2, <4>2, <4>3, <4>4
    <3>. QED  BY <2>2, <3>1, <3>2
  <2>4. attempt' > 0
    BY <2>1, <2>2
  <2>. QED  BY <2>1, <2>3, <2>4 DEF OnSchedule
<1>. QED  BY <1>1, <1>2

LEMMA StepOnSchedule ==
  ASSUME NEW wait, NEW worst, Schedule(wait, worst), FullInv,
         OnSchedule(wait, worst), [Next]_vars
  PROVE  OnSchedule(wait, worst)'
<1>a. CallInv /\ spent \in Nat /\ began \in Nat
  BY BudgetIsNumber DEF FullInv
<1>1. ASSUME UNCHANGED <<phase, attempt, backoff, began, spent>>
      PROVE  OnSchedule(wait, worst)'
  BY <1>1 DEF OnSchedule
<1>2. CASE Environment \/ UNCHANGED vars
  BY <1>1, <1>2 DEF Environment, Serve, ServeLate, Cancel, vars, ctxVars
<1>3. ASSUME NEW d \in Durations, TakeAnswer(d) PROVE OnSchedule(wait, worst)'
  <2>1. phase = "sending" /\ spent' = spent + d /\ began' = began /\ d \in Nat
    BY <1>3, TimesAssumption DEF TakeAnswer, ctxVars
  <2>2. CASE Retry
    <3>1. spent' \in Nat /\ spent' <= spent + d
      BY <1>a, <2>1
    <3>. QED  BY <1>a, <2>1, <2>2, <3>1, RetryOnSchedule
  <2>3. CASE phase' = "returned"
    BY <2>3 DEF OnSchedule
  <2>. QED  BY <1>3, <2>2, <2>3 DEF TakeAnswer, Return
<1>4. ASSUME NEW d \in Durations, FailAttempt(d) PROVE OnSchedule(wait, worst)'
  <2>1. phase = "sending" /\ began' = began /\ Retry
    BY <1>4 DEF FailAttempt, ctxVars
  <2>2. spent' \in Nat /\ spent' <= spent + d
    <3>1. d \in Nat /\ deadline \in Nat
      BY <1>a, BudgetIsNumber, TimesAssumption
    <3>2. spent' = IF spent + d > deadline THEN deadline ELSE spent + d
      BY <1>4 DEF FailAttempt
    <3>. QED  BY <1>a, <3>1, <3>2
  <2>. QED  BY <1>a, <2>1, <2>2, RetryOnSchedule
<1>5. CASE WaitOut
  <2>1. PICK w \in Jittered(backoff) : spent' = spent + w
    BY <1>5 DEF WaitOut
  <2>2. /\ phase = "waiting" /\ phase' = "sending" /\ attempt' = attempt
        /\ backoff' = backoff /\ began' = began
    BY <1>5 DEF WaitOut, Send, ctxVars
  <2>3. attempt \in 1 .. MaxRetries
    BY <1>a, <2>2 DEF CallInv, TypeOK, CopiesInv
  <2>4. wait[attempt] \in Nat /\ worst[attempt] \in Nat
    BY <2>3 DEF Schedule
  <2>5. backoff = wait[attempt] /\ spent <= began + worst[attempt]
    BY <2>2, <2>3 DEF OnSchedule
  <2>6. w \in Nat /\ w <= (5 * wait[attempt]) \div 4
    BY <2>4, <2>5, JitterBounds
  <2>7. spent' <= began' + worst[attempt'] + (5 * wait[attempt']) \div 4
    BY <1>a, <2>1, <2>2, <2>4, <2>5, <2>6
  <2>. QED  BY <2>2, <2>3, <2>5, <2>7 DEF OnSchedule
<1>6. CASE CtxEnds
  BY <1>6 DEF CtxEnds, Return, OnSchedule
<1>. QED  BY <1>2, <1>3, <1>4, <1>5, <1>6 DEF Next, Do

\* For any timeouts and waits: if the worst schedule of do, begun Slack into the
\* context, ends every wait before the context does, no wait is ever cut short.
THEOREM RetriesFitSchedule ==
  ASSUME NEW wait, NEW worst, Schedule(wait, worst),
         \A d \in Deadlines, k \in 1 .. MaxRetries :
           Slack + worst[k] + (5 * wait[k]) \div 4 < d
  PROVE  Spec => []RetriesFit
<1>1. Init => OnSchedule(wait, worst)
  BY DEF Init, OnSchedule
<1>2. FullInv /\ OnSchedule(wait, worst) /\ [Next]_vars => OnSchedule(wait, worst)'
  BY StepOnSchedule
<1>3. FullInv /\ OnSchedule(wait, worst) => RetriesFit
  <2> SUFFICES ASSUME FullInv, OnSchedule(wait, worst), phase = "waiting", began <= Slack,
                      NEW w \in Jittered(backoff)
               PROVE  spent + w < deadline
    BY DEF RetriesFit
  <2>1. attempt \in 1 .. MaxRetries /\ deadline \in Deadlines
    BY DEF FullInv, CallInv, TypeOK, CopiesInv
  <2>2. /\ wait[attempt] \in Nat /\ worst[attempt] \in Nat
        /\ Slack + worst[attempt] + (5 * wait[attempt]) \div 4 < deadline
    BY <2>1 DEF Schedule
  <2>3. backoff = wait[attempt] /\ spent <= began + worst[attempt]
    BY <2>1 DEF OnSchedule
  <2>4. w \in Nat /\ w <= (5 * wait[attempt]) \div 4
    BY <2>2, <2>3, JitterBounds
  <2>5. spent \in Nat /\ began \in Nat /\ deadline \in Nat /\ Slack \in Nat
    BY BudgetIsNumber, TimesAssumption DEF FullInv
  <2>. QED  BY <2>2, <2>3, <2>4, <2>5
<1>. QED  BY <1>1, <1>2, <1>3, AlwaysFull, PTL DEF Spec

\* api.go's constants, in quarter seconds: four attempts of thirty seconds, waits
\* of one, two and four, and an account begun with 21 seconds of its two minutes
\* spent.  Every wait ends in time, however long the context is beyond those.
THEOREM AccountLeavesRoom ==
  ASSUME MaxRetries = 3, RequestTimeout = 120, BaseBackoff = 4, MaxBackoff = 120,
         Slack = 84, \A d \in Deadlines : d >= 480
  PROVE  Spec => []RetriesFit
<1> DEFINE wait == [k \in 1 .. 3 |-> IF k = 1 THEN 4 ELSE IF k = 2 THEN 8 ELSE 16]
           worst == [k \in 1 .. 3 |-> IF k = 1 THEN 120 ELSE IF k = 2 THEN 245 ELSE 375]
<1>1. /\ wait[1] = 4 /\ wait[2] = 8 /\ wait[3] = 16
      /\ worst[1] = 120 /\ worst[2] = 245 /\ worst[3] = 375
  OBVIOUS
<1>2. 1 .. MaxRetries = {1, 2, 3}
  OBVIOUS
<1> HIDE DEF wait, worst
<1>3. Grown(0) = 4 /\ Grown(4) = 8 /\ Grown(8) = 16
  BY DEF Grown
<1>4. (5 * 4) \div 4 = 5 /\ (5 * 8) \div 4 = 10 /\ (5 * 16) \div 4 = 20
  OBVIOUS
<1>5. Schedule(wait, worst)
  <2> SUFFICES ASSUME NEW k \in {1, 2, 3}
               PROVE  /\ wait[k] \in Nat /\ worst[k] \in Nat
                      /\ k = 1 => wait[k] = Grown(0) /\ worst[k] = RequestTimeout
                      /\ k > 1 => /\ wait[k] = Grown(wait[k - 1])
                                  /\ worst[k] = worst[k - 1] + (5 * wait[k - 1]) \div 4
                                                  + RequestTimeout
    BY <1>2 DEF Schedule
  <2>1. CASE k = 1
    BY <1>1, <1>3, <2>1
  <2>2. CASE k = 2
    BY <1>1, <1>3, <1>4, <2>2
  <2>3. CASE k = 3
    BY <1>1, <1>3, <1>4, <2>3
  <2>. QED  BY <2>1, <2>2, <2>3
<1>6. ASSUME NEW d \in Deadlines, NEW k \in 1 .. MaxRetries
      PROVE  Slack + worst[k] + (5 * wait[k]) \div 4 < d
  <2>1. d \in Nat /\ d >= 480
    BY TimesAssumption
  <2>. QED  BY <1>1, <1>2, <1>4, <2>1
<1>. QED  BY <1>5, <1>6, RetriesFitSchedule

=============================================================================

------------------------------ MODULE HttpCall ------------------------------
(***************************************************************************)
(* One call of Client.Bootstrap or Client.Report: do makes up to           *)
(* MaxRetries + 1 attempts, each of at most requestTimeout, with a         *)
(* jittered, doubling wait between them, inside the caller's context (the  *)
(* account's two minutes, or the process's).  The network may lose a       *)
(* request or its answer, or deliver the request after its attempt timed   *)
(* out; the platform answers as it likes, and one struct, out, receives    *)
(* what the attempts decode.                                               *)
(*                                                                         *)
(* FeedSync and Registration take this call for three steps (serve,        *)
(* receive or lose the answer, give up).  This module is what they rest    *)
(* on; it implements RetriedCall.                                          *)
(***************************************************************************)
EXTENDS Integers

CONSTANTS
  MaxRetries,      \* maxRetries
  RequestTimeout,  \* requestTimeout
  BaseBackoff,     \* baseBackoff
  MaxBackoff,      \* maxBackoff
  Deadlines,       \* when the caller's context may end, after it began
  Begins,          \* how much of it may be spent when the call is made
  Durations,       \* how long an attempt may take
  Slack            \* time reading an account may take and leave room for retries

ASSUME RetriesAssumption == MaxRetries \in Nat
ASSUME TimesAssumption ==
  /\ RequestTimeout \in Nat /\ BaseBackoff \in Nat /\ MaxBackoff \in Nat
  /\ Deadlines \subseteq Nat /\ Begins \subseteq Nat
  /\ Durations \subseteq 0 .. RequestTimeout
  /\ Slack \in Nat
ASSUME BeginsAssumption == \A b \in Begins, d \in Deadlines : b < d

VARIABLES
  phase,      \* "sending" in doOnce, "waiting" between attempts, "returned"
  attempt,    \* do's loop variable
  backoff,    \* the wait before this attempt, without its jitter
  deadline,   \* the context's end
  began,      \* time spent of the context when the call was made
  spent,      \* time spent of it by now
  cancelled,  \* the context was cancelled
  request,    \* this attempt's request on its way, its answer, or neither
  late,       \* requests on their way whose attempts are over
  served,     \* copies of the call the platform acted on
  out,        \* the struct the answers are decoded into
  refused,    \* history: the platform called the request malformed
  misfit,     \* history: some fields of an answer did not fit out
  result

ctxVars == <<deadline, began>>
vars == <<phase, attempt, backoff, ctxVars, spent, cancelled, request, late, served,
          out, refused, misfit, result>>

-----------------------------------------------------------------------------
Phases == {"sending", "waiting", "returned"}

\* What a status means to do, and what there is of a 2xx body: all of out's
\* fields, none (no bytes, or {}), more than maxResponseBytes, or some field of
\* another type.
Failures == {"malformed", "throttled", "broken"}
Bodies == {"whole", "blank", "cut", "misfit"}

\* The answer to the n-th copy the platform acted on.
Answer == [says : Failures \cup Bodies, nth : 1 .. MaxRetries + 1]
NoRequest == [says |-> "nothing", nth |-> 0]
Travelling == [says |-> "travelling", nth |-> 0]

\* The zero value of a field is 0; an answer's fields carry its number.
Zero == [interval |-> 0, known |-> 0]
Whole(n) == [interval |-> n, known |-> n]
Out == [interval : Nat, known : Nat]

\* Slip: an answer that was cut is decoded as far as it goes.
DecodedCut(a) ==
  CASE a.says = "whole" -> Whole(a.nth)
    [] a.says \in {"misfit", "cut"} -> [out EXCEPT !.known = a.nth]
    [] OTHER -> out

\* json.Unmarshal looks at the syntax first, then sets every field that fits.
Decoded(a) ==
  CASE a.says = "whole" -> Whole(a.nth)
    [] a.says = "misfit" -> [out EXCEPT !.known = a.nth]
    [] OTHER -> out

\* doOnce returns nil.
Accepts(a) == a.says \in {"whole", "blank"}

\* 4xx, but not 429.
IsClientError(a) == a.says = "malformed"

\* Slip: the wait grows tenfold.
GrownSteep(b) ==
  IF b = 0 THEN BaseBackoff ELSE IF 10 * b > MaxBackoff THEN MaxBackoff ELSE 10 * b

\* baseBackoff before the first retry, doubled before each further one.
Grown(b) ==
  IF b = 0 THEN BaseBackoff ELSE IF 2 * b > MaxBackoff THEN MaxBackoff ELSE 2 * b

\* The ends of the jitter's range, a quarter to either side.
Jittered(b) == {(3 * b) \div 4, (5 * b) \div 4}

-----------------------------------------------------------------------------
Init ==
  /\ phase = "sending"
  /\ attempt = 0 /\ backoff = 0
  /\ deadline \in Deadlines /\ began \in Begins
  /\ spent = began
  /\ cancelled = FALSE
  /\ request = Travelling
  /\ late = 0 /\ served = 0
  /\ out = Zero
  /\ refused = FALSE /\ misfit = FALSE
  /\ result = "none"

-----------------------------------------------------------------------------
(* The platform and the network *)

\* The platform answers a request.  Of a failure it may or may not have acted on it.
Serve(a) ==
  /\ request = Travelling
  /\ a.nth = served + 1
  /\ request' = a
  /\ served' \in IF a.says \in Bodies THEN {served + 1}
                 ELSE IF a.says = "broken" THEN {served, served + 1} ELSE {served}
  /\ UNCHANGED <<phase, attempt, backoff, ctxVars, spent, cancelled, late, out, refused,
                 misfit, result>>

\* It acts on one whose sender no longer waits.
ServeLate ==
  /\ late > 0
  /\ late' = late - 1
  /\ served' = served + 1
  /\ UNCHANGED <<phase, attempt, backoff, ctxVars, spent, cancelled, request, out, refused,
                 misfit, result>>

\* The agent is stopped.
Cancel ==
  /\ ~cancelled
  /\ cancelled' = TRUE
  /\ UNCHANGED <<phase, attempt, backoff, ctxVars, spent, request, late, served, out, refused,
                 misfit, result>>

-----------------------------------------------------------------------------
(* do and doOnce *)

Return(r) == phase' = "returned" /\ result' = r /\ UNCHANGED <<attempt, backoff>>

Again ==
  /\ phase' = "waiting"
  /\ attempt' = attempt + 1
  /\ backoff' = Grown(backoff)
  /\ UNCHANGED result

\* Slip: the loop ends an attempt early.
RetryFewer == IF attempt + 1 >= MaxRetries THEN Return("error") ELSE Again

\* Slip: what the last attempt failed with is forgotten.
RetryQuiet == IF attempt = MaxRetries THEN Return("ok") ELSE Again

\* An attempt failed, but not for good.
Retry == IF attempt = MaxRetries THEN Return("error") ELSE Again

\* doOnce has the answer, after time d.
TakeAnswer(d) ==
  /\ phase = "sending" /\ request \in Answer
  /\ spent + d <= deadline
  /\ spent' = spent + d
  /\ out' = Decoded(request)
  /\ misfit' = (misfit \/ request.says = "misfit")
  /\ refused' = (refused \/ request.says = "malformed")
  /\ IF Accepts(request) THEN Return("ok")
     ELSE IF IsClientError(request) THEN Return("error") ELSE Retry
  /\ request' = NoRequest
  /\ UNCHANGED <<ctxVars, cancelled, late, served>>

\* It has none: nothing was sent, the connection broke, requestTimeout passed or
\* the context ended.  The request may still get there.
FailAttempt(d) ==
  /\ phase = "sending"
  /\ spent' = IF spent + d > deadline THEN deadline ELSE spent + d
  /\ late' = IF request = Travelling THEN late + 1 ELSE late
  /\ request' = NoRequest
  /\ Retry
  /\ UNCHANGED <<ctxVars, cancelled, served, out, refused, misfit>>

\* The next request is sent, unless the context is over by then.
Send ==
  /\ phase' = "sending"
  /\ request' = IF cancelled \/ spent' >= deadline THEN NoRequest ELSE Travelling
  /\ UNCHANGED <<attempt, backoff, ctxVars, cancelled, late, served, out, refused,
                 misfit, result>>

\* Slip: the wait does not listen to the context.
WaitOutBlind ==
  /\ phase = "waiting"
  /\ \E w \in Jittered(backoff) : spent' = spent + w
  /\ Send

\* The select between attempts: the timer fires,
WaitOut ==
  /\ phase = "waiting"
  /\ \E w \in Jittered(backoff) : spent + w <= deadline /\ spent' = spent + w
  /\ Send

\* or the context ends first.
CtxEnds ==
  /\ phase = "waiting"
  /\ \E w \in Jittered(backoff) : cancelled \/ spent + w >= deadline
  /\ IF cancelled THEN UNCHANGED spent ELSE spent' = deadline
  /\ Return("error")
  /\ UNCHANGED <<ctxVars, cancelled, request, late, served, out, refused, misfit>>

-----------------------------------------------------------------------------
Environment == (\E a \in Answer : Serve(a)) \/ ServeLate \/ Cancel

Do ==
  \/ \E d \in Durations : TakeAnswer(d) \/ FailAttempt(d)
  \/ WaitOut \/ CtxEnds

Next == Environment \/ Do

Spec == Init /\ [][Next]_vars

\* Attempts and waits end: each has a timer.
FairSpec == Spec /\ WF_vars(Do)

-----------------------------------------------------------------------------
(* Properties *)

TypeOK ==
  /\ phase \in Phases /\ attempt \in 0 .. MaxRetries /\ backoff \in Nat
  /\ deadline \in Deadlines /\ began \in Begins
  /\ cancelled \in BOOLEAN /\ refused \in BOOLEAN /\ misfit \in BOOLEAN
  /\ request \in {NoRequest, Travelling} \cup Answer
  /\ late \in Nat /\ served \in Nat /\ out \in Out
  /\ result \in {"none", "ok", "error"}

\* Every copy of the call is accounted for: on its way, acted on or lost, at most
\* one for each attempt made; and an answer is the platform's.
CopiesInv ==
  /\ late + served <= attempt + 1
  /\ phase = "waiting" => attempt > 0 /\ late + served <= attempt
  /\ request = Travelling => late + served <= attempt
  /\ phase # "sending" => request = NoRequest
  /\ request.says \in Bodies => served > 0 /\ request.nth <= served

\* Every variable has its type, no copy of the call is unaccounted for, and
\* nothing takes the call past its context's end.
CallInv ==
  /\ TypeOK /\ CopiesInv
  /\ spent \in began .. deadline
  /\ result = "none" <=> phase # "returned"

\* What a call returns is one answer of the platform, whole, or nothing at all if
\* the last answer was bodiless; an oversized answer is never part of it.  Only
\* an answer that did not fit leaves fields behind for a later one.
TakesOneAnswer ==
  result = "ok" /\ ~misfit =>
    out = Zero \/ \E n \in 1 .. served : out = Whole(n)

\* A call is given up only if the platform called it malformed, after all its
\* attempts, or with its context.
GivesUpLast ==
  result = "error" => \/ refused
                      \/ attempt = MaxRetries
                      \/ cancelled \/ spent = deadline

\* The account's two minutes leave room for every attempt, however slow the
\* platform is and whatever the jitter, if reading the account took no more than
\* Slack of them: no wait is cut short.
RetriesFit ==
  phase = "waiting" /\ began <= Slack /\ ~cancelled =>
    \A w \in Jittered(backoff) : spent + w < deadline

Call == INSTANCE RetriedCall WITH MostServes <- MaxRetries + 1

\* What FeedSync takes a call for.
Retried == Call!Spec

=============================================================================

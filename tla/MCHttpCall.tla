----------------------------- MODULE MCHttpCall -----------------------------
(* The constants of api.go and the account's two minutes, in quarter seconds. *)
EXTENDS HttpCall, TLC

\* The account's accountCycleTimeout, and a context without an end.
MCDeadlines == {480, 10000}

\* Time that reading the account took.
MCBegins == {0, 84, 200}

\* An attempt fails at once, or is timed out.
MCDurations == {0, 120}

=============================================================================

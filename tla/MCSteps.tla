------------------------------ MODULE MCSteps ------------------------------
(* Small instances of Steps for TLC. *)
EXTENDS Steps, TLC

CONSTANTS invite, message, check, recheck

\* Waits of a day and a half, and of a minute and a half.
Waits == (check :> 36 * Hour) @@ (recheck :> 90 * 1000) @@ (invite :> 0) @@ (message :> 0)

\* An invitation and a message with and without text, a message without text before
\* the checks of the invitation, two checks first, and nothing but a check.
Workflow(w, b) == [workflow |-> w, bodies |-> b]
SomeDesigns ==
  {Workflow(<<invite, check, message, recheck>>, b) : b \in {{}, {message}, {invite, message}}}
  \cup {Workflow(<<invite, message, check, recheck>>, {invite}),
        Workflow(<<check, recheck, message, invite>>, {invite, message}),
        Workflow(<<check>>, {})}

=============================================================================

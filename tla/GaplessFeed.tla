---------------------------- MODULE GaplessFeed ----------------------------
(***************************************************************************)
(* What an incremental feed promises its reader, without cycles, mirrors,  *)
(* batches or messages: rows appear in order of detection, they are        *)
(* received in any portions, and the mark the receiver resumes from never  *)
(* moves past a row it has not received, nor back.                         *)
(***************************************************************************)
EXTENDS Integers

CONSTANTS
  Accounts,   \* one feed each
  Row         \* [id, at, wire]: detected at `at', to be received if wire

VARIABLES
  rows,       \* the rows there are
  received,   \* the rows the receiver has
  mark        \* where it resumes

vars == <<rows, received, mark>>

Init ==
  /\ rows = [a \in Accounts |-> {}]
  /\ received = [a \in Accounts |-> {}]
  /\ mark = [a \in Accounts |-> 0]

\* A row appears, not older than those there are.
Appear(a, r) ==
  /\ \A x \in rows[a] : x.at <= r.at
  /\ rows' = [rows EXCEPT ![a] = @ \cup {r}]
  /\ UNCHANGED <<received, mark>>

\* Rows S are received and the mark moves to the newest row received.
Advance(a, S) ==
  /\ S \subseteq {r \in rows[a] : r.wire}
  /\ received' = [received EXCEPT ![a] = @ \cup S]
  /\ \E r \in received'[a] : mark' = [mark EXCEPT ![a] = r.at]
  /\ mark'[a] >= mark[a]
  /\ \A r \in rows[a] : r.wire /\ r.at < mark'[a] => r \in received'[a]
  /\ UNCHANGED rows

Next ==
  \E a \in Accounts :
    \/ \E r \in Row : Appear(a, r)
    \/ \E S \in SUBSET rows[a] : Advance(a, S)

Spec == Init /\ [][Next]_vars

=============================================================================

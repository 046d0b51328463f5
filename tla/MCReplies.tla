------------------------------ MODULE MCReplies ------------------------------
(* Small instances of Replies for TLC. *)
EXTENDS Replies, TLC

\* Messages none of which is tardy differ in nothing.
MessageSymmetry == Permutations(Messages)

\* Upgrades and restarts are looked at with one message, here; a batch, and what is
\* cut from it, while LH and the agent are up.
OneIfDisturbed ==
  Cardinality(msgs) > 1 => schema = Tables /\ restarts = 0 /\ profile \in {NoProfile, Tables}

=============================================================================

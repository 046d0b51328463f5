----------------------------- MODULE MCFeedSync -----------------------------
(* Small instances of FeedSync for TLC. *)
EXTENDS FeedSync, TLC

=============================================================================

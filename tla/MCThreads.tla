------------------------------ MODULE MCThreads ------------------------------
(* A small instance of Threads, and of Replies within it, for TLC. *)
EXTENDS Threads, TLC

=============================================================================

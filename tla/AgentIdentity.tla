--------------------------- MODULE AgentIdentity ---------------------------
(***************************************************************************)
(* LoadOrCreateAgentID: the identity of an installation, a file outside    *)
(* the install dir that New reads back, or writes with a new UUID if it    *)
(* holds none.  The platform tells installations apart by it, and one that *)
(* comes without it by the host's name.                                    *)
(*                                                                         *)
(* ReadFile fails for a file that is there as it does for one that is not, *)
(* and WriteFile empties the file before it fills it: a write that fails,  *)
(* or a process that dies in it, may leave any beginning of the UUID.      *)
(* AgentService says when a process does what is defined here.             *)
(***************************************************************************)
EXTENDS Integers, FiniteSets

CONSTANT MaxUnread   \* most failed reads of a file that holds an identity

ASSUME UnreadAssumption == MaxUnread \in Nat

VARIABLES
  file,     \* what idFileName holds: an id, the beginning of one, or nothing
  minting,  \* the UUID that is about to be written, or none
  agentID,  \* Agent.agentID, or none
  taken,    \* history: the ids agents have run with
  unread    \* history: failed reads

identityVars == <<file, minting, agentID, taken, unread>>

\* The empty id; no file is the same as an empty one.
NoID == 0
Ids == 1 .. MaxUnread + 1

\* The beginning of id i, which TrimSpace leaves as it is.
Cut(i) == -i

IdentityInit ==
  /\ file = NoID /\ minting = NoID /\ agentID = NoID
  /\ taken = {}
  /\ unread = 0

-----------------------------------------------------------------------------
(* LoadOrCreateAgentID *)

\* What it returns is the id of the agent that New makes.
TakeID(i) ==
  /\ agentID' = i
  /\ taken' = taken \cup ({i} \ {NoID})

ReadBack ==
  /\ minting = NoID /\ file # NoID
  /\ TakeID(file)
  /\ UNCHANGED <<file, minting, unread>>

\* Ids nobody has seen.
Fresh == {i \in Ids : {i, Cut(i)} \cap (taken \cup {file}) = {}}

\* The file holds no id, or cannot be read: newUUIDv4.
Mint ==
  /\ minting = NoID
  /\ \/ file = NoID /\ UNCHANGED unread
     \/ file # NoID /\ unread < MaxUnread /\ unread' = unread + 1
  /\ minting' \in Fresh /\ \A i \in Fresh : minting' <= i
  /\ UNCHANGED <<file, agentID, taken>>

Write ==
  /\ minting # NoID
  /\ file' = minting
  /\ TakeID(minting)
  /\ minting' = NoID
  /\ UNCHANGED unread

\* What a write that does not succeed may leave behind.
Remains == {file, NoID, Cut(minting), minting}

\* Slip: the id is used although it could not be written.
FailWriteKept ==
  /\ minting # NoID
  /\ file' \in Remains
  /\ TakeID(minting)
  /\ minting' = NoID
  /\ UNCHANGED unread

\* No UUID, no directory or no file: New logs it, and the agent has no id.
FailWrite ==
  /\ minting # NoID
  /\ file' \in Remains
  /\ TakeID(NoID)
  /\ minting' = NoID
  /\ UNCHANGED unread

\* The process ends, perhaps in the middle of a write.
Die ==
  /\ IF minting = NoID THEN UNCHANGED file ELSE file' \in Remains
  /\ minting' = NoID /\ agentID' = NoID
  /\ UNCHANGED <<taken, unread>>

-----------------------------------------------------------------------------
(* Properties *)

\* "The persistent install UUID": whatever goes wrong while it is written, an
\* installation runs under one id, and under one more for each time the file
\* could not be read back.
OneIdentity == Cardinality(taken) <= 1 + unread

\* An id that is used is one the next start will find, and no write begins before
\* a failed read has paid for it.  Inductive, and with it the one above.
IdentityInv ==
  /\ minting \in Ids \cup {NoID}
  /\ unread \in 0 .. MaxUnread
  /\ {file, agentID} \subseteq Int /\ taken \subseteq Int
  /\ IsFiniteSet(taken) /\ NoID \notin taken
  /\ agentID # NoID => agentID = file /\ minting = NoID
  /\ Cardinality(taken \cup ({file} \ {NoID}))
       <= IF file = NoID \/ minting # NoID THEN unread ELSE 1 + unread

=============================================================================

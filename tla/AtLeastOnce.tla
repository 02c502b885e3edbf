---------------------------- MODULE AtLeastOnce ----------------------------
(***************************************************************************)
(* What the outbox promises about the results of a task, whatever writes   *)
(* and uploads them: what is owed to the server stays owed until the       *)
(* server has accepted it, once or more often, or the task is deleted.     *)
(***************************************************************************)
CONSTANT Items

VARIABLES
  owed,      \* the items that are still to be delivered
  accepted,  \* the items the server has accepted at some time
  deleted    \* whether the task is gone

vars == <<owed, accepted, deleted>>

TypeOK == owed \subseteq Items /\ accepted \subseteq Items /\ deleted \in BOOLEAN

Init == owed = {} /\ accepted = {} /\ deleted = FALSE

\* A result is written down.
Owe(i) ==
  /\ i \notin owed
  /\ owed' = owed \cup {i}
  /\ UNCHANGED <<accepted, deleted>>

\* The server accepts a report; whether it is owed, and whether anybody
\* hears of it, does not matter.
Accept(i) ==
  /\ accepted' = accepted \cup {i}
  /\ UNCHANGED <<owed, deleted>>

\* Only what the server has accepted is settled.
Settle(i) ==
  /\ i \in owed \cap accepted
  /\ owed' = owed \ {i}
  /\ UNCHANGED <<accepted, deleted>>

\* The task is deleted, once, with everything it owes.
Delete ==
  /\ ~deleted /\ deleted' = TRUE
  /\ owed' = {}
  /\ UNCHANGED accepted

Next == Delete \/ \E i \in Items : Owe(i) \/ Accept(i) \/ Settle(i)

Spec == Init /\ [][Next]_vars
=============================================================================

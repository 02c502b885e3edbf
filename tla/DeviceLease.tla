---------------------------- MODULE DeviceLease ----------------------------
(***************************************************************************)
(* What the task engine promises about devices, whatever its handlers,     *)
(* channel and database look like: a task holds a device, a device is held *)
(* by one task, and a phone is only driven for the task that holds it.     *)
(***************************************************************************)
CONSTANTS Tasks, Devices, None

VARIABLES
  lease,   \* task -> the device it holds, or None
  driven   \* the devices on which a worker is at work

vars == <<lease, driven>>

TypeOK ==
  /\ lease \in [Tasks -> Devices \cup {None}]
  /\ driven \subseteq Devices

Free(d) == \A t \in Tasks : lease[t] # d

Init ==
  /\ lease = [t \in Tasks |-> None]
  /\ driven = {}

\* A task takes a free device, giving back the one it held, and may have a
\* worker drive it at once.
Take(t, d) ==
  /\ Free(d)
  /\ lease' = [lease EXCEPT ![t] = d]
  /\ driven' \in {driven \ {lease[t]}, (driven \ {lease[t]}) \cup {d}}

\* Some tasks give their devices back; none of these is driven afterwards.
Release(S) ==
  /\ lease' = [t \in Tasks |-> IF t \in S THEN None ELSE lease[t]]
  /\ driven' = driven \ {lease[t] : t \in S}

\* A worker starts on a held device that no other worker drives.
Drive(d) ==
  /\ ~Free(d) /\ d \notin driven
  /\ driven' = driven \cup {d}
  /\ UNCHANGED lease

\* A worker ends; the device stays held.
Rest(d) ==
  /\ d \in driven
  /\ driven' = driven \ {d}
  /\ UNCHANGED lease

Next ==
  \/ \E t \in Tasks, d \in Devices : Take(t, d)
  \/ \E S \in SUBSET Tasks : Release(S)
  \/ \E d \in Devices : Drive(d) \/ Rest(d)

Spec == Init /\ [][Next]_vars
=============================================================================

---------------------------- MODULE MqttManager ----------------------------
(***************************************************************************)
(* The MQTT connection of the client (mqtt/manager.rs).  Each connect()    *)
(* spawns a loop that owns a generation and reconnects for as long as that *)
(* is the newest one; connect() and disconnect() run concurrently with the *)
(* loops and with each other, and meet at four locks.  A step is what      *)
(* happens between two awaits.                                             *)
(*                                                                         *)
(* External: the broker and the rumqttc event loop, as manager.rs uses     *)
(* them.  Durations are abstracted: a timeout may strike at any moment, a  *)
(* sleep ends at any moment.                                               *)
(***************************************************************************)
EXTENDS Naturals

CONSTANTS
  Ops,          \* the calls of this instance, a subset of {"connect", "disconnect"}
  MaxCalls,     \* bound: calls of connect() and disconnect()
  MaxFailures   \* bound: connections refused or broken

ASSUME ManagerAssumption ==
  Ops \subseteq {"connect", "disconnect"} /\ MaxCalls \in Nat /\ MaxFailures \in Nat

Calls == 1 .. MaxCalls
Generations == 1 .. MaxCalls
Incarnations == Nat \ {0}

VARIABLES
  generation,  \* the newest generation
  client,      \* the client that publish and subscribe use, <<>> for None
  status,      \* what the user interface is told
  handle,      \* loop_handle: the generation of a loop, 0 for None
  holder,      \* the call that holds the lock of loop_handle, 0 if none
  calls,       \* call -> its progress
  loops,       \* generation -> its loop
  asked,       \* clients that were asked to disconnect
  failures     \* number of refused or broken connections

vars == <<generation, client, status, handle, holder, calls, loops, asked, failures>>

\* A client is known by the generation and the incarnation of its event loop.
ClientOf(g) == <<g, loops[g].inc>>
None   == <<>>
NoCall == [op |-> "none", pc |-> "idle", gen |-> 0, wait |-> 0]
\* conn: the connection of the current incarnation; met: was_connected
NoLoop == [pc |-> "none", inc |-> 0, conn |-> "down", met |-> FALSE]

Alive(g) == loops[g].pc \notin {"none", "exited"}

CallType == [op: Ops \cup {"none"}, gen: Generations \cup {0}, wait: Generations \cup {0},
             pc: {"idle", "client", "handle", "wait", "status", "spawn", "keep", "done"}]
LoopType == [pc: {"none", "top", "store", "check", "poll", "sleep", "exited"},
             inc: Incarnations \cup {0}, conn: {"down", "up", "closing"}, met: BOOLEAN]

TypeOK ==
  /\ generation \in Generations \cup {0}
  /\ client \in (Generations \X Incarnations) \cup {None}
  /\ asked \subseteq Generations \X Incarnations
  /\ status \in {"disconnected", "connecting", "connected", "error"}
  /\ handle \in Generations \cup {0} /\ holder \in Calls \cup {0}
  /\ calls \in [Calls -> CallType]
  /\ loops \in [Generations -> LoopType]
  /\ failures \in 0 .. MaxFailures

-----------------------------------------------------------------------------
(* connect() and disconnect()                                              *)

\* Both take a generation first (disconnect() has published "offline" before).
Begin(c, op) ==
  /\ calls[c].pc = "idle" /\ \A b \in 1 .. c - 1 : calls[b].pc # "idle"
  /\ generation' = generation + 1
  /\ calls' = [calls EXCEPT ![c] = [op |-> op, pc |-> "client", gen |-> generation', wait |-> 0]]
  /\ UNCHANGED <<client, status, handle, holder, loops, asked, failures>>

\* The client goes and is asked to disconnect, which its event loop hears of
\* when it is polled.
TakeClient(c) ==
  /\ calls[c].pc = "client"
  /\ client' = None
  /\ asked' = IF client = None THEN asked ELSE asked \cup {client}
  /\ calls' = [calls EXCEPT ![c].pc = "handle"]
  /\ UNCHANGED <<generation, status, handle, holder, loops, failures>>

\* The old loop's handle is awaited with its lock held.
TakeHandle(c) ==
  /\ calls[c].pc = "handle" /\ holder = 0
  /\ handle' = 0
  /\ IF handle = 0
     THEN calls' = [calls EXCEPT ![c].pc = "status"] /\ UNCHANGED holder
     ELSE calls' = [calls EXCEPT ![c].pc = "wait", ![c].wait = handle] /\ holder' = c
  /\ UNCHANGED <<generation, client, status, loops, asked, failures>>

\* The loop has exited, or the timeout of two or three seconds has passed.
Waited(c) ==
  /\ calls[c].pc = "wait"
  /\ holder' = 0
  /\ calls' = [calls EXCEPT ![c].pc = "status", ![c].wait = 0]
  /\ UNCHANGED <<generation, client, status, handle, loops, asked, failures>>

SetStatus(c) ==
  /\ calls[c].pc = "status"
  /\ IF calls[c].op = "connect"
     THEN status' = "connecting" /\ calls' = [calls EXCEPT ![c].pc = "spawn"]
     ELSE status' = "disconnected" /\ calls' = [calls EXCEPT ![c].pc = "done"]
  /\ UNCHANGED <<generation, client, handle, holder, loops, asked, failures>>

Spawn(c) ==
  /\ calls[c].pc = "spawn"
  /\ loops' = [loops EXCEPT ![calls[c].gen] = [NoLoop EXCEPT !.pc = "top"]]
  /\ calls' = [calls EXCEPT ![c].pc = "keep"]
  /\ UNCHANGED <<generation, client, status, handle, holder, asked, failures>>

KeepHandle(c) ==
  /\ calls[c].pc = "keep" /\ holder = 0
  /\ handle' = calls[c].gen
  /\ calls' = [calls EXCEPT ![c].pc = "done"]
  /\ UNCHANGED <<generation, client, status, holder, loops, asked, failures>>

Call(c) ==
  TakeClient(c) \/ TakeHandle(c) \/ Waited(c) \/ SetStatus(c) \/ Spawn(c) \/ KeepHandle(c)

-----------------------------------------------------------------------------
(* The loop of a generation                                                *)

Goto(g, pc) == loops' = [loops EXCEPT ![g].pc = pc]

\* The guard of 'reconnect
Top(g) ==
  /\ loops[g].pc = "top"
  /\ Goto(g, IF generation = g THEN "store" ELSE "exited")
  /\ UNCHANGED <<generation, client, status, handle, holder, calls, asked, failures>>

\* A new client and event loop; the client replaces whatever client is there.
Store(g) ==
  /\ loops[g].pc = "store"
  /\ loops' = [loops EXCEPT ![g] = [pc |-> "check", inc |-> @.inc + 1, conn |-> "down", met |-> FALSE]]
  /\ client' = <<g, loops'[g].inc>>
  /\ UNCHANGED <<generation, status, handle, holder, calls, asked, failures>>

\* Wrong variant: 'poll does not look at the generation.
Unchecked(g) ==
  /\ loops[g].pc = "check"
  /\ Goto(g, "poll")
  /\ UNCHANGED <<generation, client, status, handle, holder, calls, asked, failures>>

\* The guard of 'poll.  An exiting loop drops its event loop and connection.
Check(g) ==
  /\ loops[g].pc = "check"
  /\ loops' = [loops EXCEPT ![g] = IF generation = g THEN [@ EXCEPT !.pc = "poll"]
                                   ELSE [@ EXCEPT !.pc = "exited", !.conn = "down"]]
  /\ UNCHANGED <<generation, client, status, handle, holder, calls, asked, failures>>

\* ConnAck
Connected(g) ==
  /\ loops[g].pc = "poll" /\ loops[g].conn = "down"
  /\ loops' = [loops EXCEPT ![g] = [@ EXCEPT !.pc = "check", !.conn = "up", !.met = TRUE]]
  /\ status' = "connected"
  /\ UNCHANGED <<generation, client, handle, holder, calls, asked, failures>>

\* Any other event; the request to disconnect is sent once connected.
Event(g) ==
  /\ loops[g].pc = "poll" /\ loops[g].conn = "up"
  /\ loops' = [loops EXCEPT ![g] =
       [@ EXCEPT !.pc = "check", !.conn = IF ClientOf(g) \in asked THEN "closing" ELSE "up"]]
  /\ UNCHANGED <<generation, client, status, handle, holder, calls, asked, failures>>

\* The connection is refused or breaks, or ends as it was asked to.
Breaks(g) ==
  \/ loops[g].conn = "closing" /\ UNCHANGED failures
  \/ failures < MaxFailures /\ failures' = failures + 1

\* Wrong variant: an error ends the loop.
BrokenForGood(g) ==
  /\ loops[g].pc = "poll"
  /\ Breaks(g)
  /\ loops' = [loops EXCEPT ![g] = [@ EXCEPT !.pc = "exited", !.conn = "down"]]
  /\ status' = IF loops[g].met THEN "connecting" ELSE "error"
  /\ UNCHANGED <<generation, client, handle, holder, calls, asked>>

\* An error of poll, or a Disconnect of the broker
Broken(g) ==
  /\ loops[g].pc = "poll"
  /\ Breaks(g)
  /\ loops' = [loops EXCEPT ![g] = [@ EXCEPT !.pc = "sleep", !.conn = "down"]]
  /\ status' = IF loops[g].met THEN "connecting" ELSE "error"
  /\ UNCHANGED <<generation, client, handle, holder, calls, asked>>

\* The pause before another attempt
Wake(g) ==
  /\ loops[g].pc = "sleep"
  /\ Goto(g, "top")
  /\ UNCHANGED <<generation, client, status, handle, holder, calls, asked, failures>>

Loop(g) == Top(g) \/ Store(g) \/ Check(g) \/ Connected(g) \/ Event(g) \/ Broken(g) \/ Wake(g)

-----------------------------------------------------------------------------
Init ==
  /\ generation = 0 /\ client = None /\ status = "disconnected" /\ handle = 0 /\ holder = 0
  /\ calls = [c \in Calls |-> NoCall] /\ loops = [g \in Generations |-> NoLoop]
  /\ asked = {} /\ failures = 0

Next ==
  \/ \E c \in Calls : (\E op \in Ops : Begin(c, op)) \/ Call(c)
  \/ \E g \in Generations : Loop(g)

Spec == Init /\ [][Next]_vars

\* Tasks are scheduled, sleeps end, the keep-alive makes poll return, and the
\* broker accepts a connection some day (failures are bounded).
Fairness == (\A c \in Calls : WF_vars(Call(c))) /\ (\A g \in Generations : WF_vars(Loop(g)))

FairSpec == Spec /\ Fairness

-----------------------------------------------------------------------------
\* The newest generation is that of a connect() which has spawned its loop.
Wanted(g) == g = generation /\ \E c \in Calls : calls[c].op = "connect" /\ calls[c].gen = g
                                                /\ calls[c].pc \in {"keep", "done"}

\* The loop of the newest connect() never ends by itself, whatever breaks and
\* whichever other calls take its client or its handle.
WantedLoopRuns == \A g \in Generations : Wanted(g) => Alive(g)

\* Each call has a generation of its own, and so has each loop: that of the
\* connect() that spawned it.
Numbered ==
  /\ \A c \in Calls : /\ calls[c].pc # "idle" <=> c <= generation
                      /\ calls[c].pc # "idle" => calls[c].gen = c
  /\ \A g \in Generations :
       /\ loops[g].pc # "none" => g <= generation
       /\ calls[g].op = "connect" /\ calls[g].pc \in {"keep", "done"} => loops[g].pc # "none"

\* A loop ends only when it is not the newest.
NewestRuns == \A g \in Generations : loops[g].pc = "exited" => g # generation

\* The lock of loop_handle is held by the call that awaits an old loop.
LockHeld == \A c \in Calls : calls[c].pc = "wait" <=> holder = c

\* The inductive invariant behind WantedLoopRuns.
ManagerInv == TypeOK /\ Numbered /\ NewestRuns /\ LockHeld

\* A loop that was replaced ends, though the client it can be reached by may
\* have been overwritten and nobody may be waiting for it.
SupersededExits == \A g \in Generations : (Alive(g) /\ generation # g) ~> ~Alive(g)

\* The newest connect() gets its connection unless another call replaces it.
WantedConnects == \A g \in Generations : Wanted(g) ~> (loops[g].conn = "up" \/ generation # g)
=============================================================================

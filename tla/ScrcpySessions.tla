--------------------------- MODULE ScrcpySessions ---------------------------
(***************************************************************************)
(* Screen mirroring (scrcpy/session.rs and scrcpy/server.rs): calls of    *)
(* start_mirror and stop_mirror, one frame pump per session, and the pool *)
(* of local ports that the sessions of all devices share.  A step is what *)
(* happens between two awaits.                                             *)
(*                                                                         *)
(* A session is known by the call that started it.  Frames, control       *)
(* messages and the events for the user interface are left out.  External: *)
(* adb, with its table of forwards, and the server on the device.         *)
(***************************************************************************)
EXTENDS Naturals, FiniteSets

CONSTANTS
  Serials,
  MaxStarts,     \* bound: calls of start_mirror
  PortRangeMax   \* PORT_RANGE_MAX, with 1 for the first port

ASSUME SessionsAssumption == MaxStarts \in Nat /\ PortRangeMax \in Nat \ {0} /\ 0 \notin Serials

Starts == 1 .. MaxStarts
Ports  == 1 .. PortRangeMax - 1

VARIABLES
  sessions,   \* serial -> the session in the map, 0 if none
  starting,   \* serials that a call is starting
  start,      \* call -> its progress
  pump,       \* session -> its frame pump
  cancelled,  \* sessions whose token is cancelled
  exit,       \* the program exits: the sessions that shutdown() has yet to cancel
  portPool,   \* PORT_POOL
  nextPort,   \* NEXT_PORT
  forwards    \* adb: local port -> serial, 0 if none

vars == <<sessions, starting, start, pump, cancelled, exit, portPool, nextPort, forwards>>

NoStart == [pc |-> "idle", serial |-> 0, port |-> 0]
\* A call that has failed, or whose session has ended
Over    == [pc |-> "done", serial |-> 0, port |-> 0]

\* A session whose server is not stopped
Serving(i) == start[i].pc \in {"insert", "pump"} \/ pump[i] \in {"run", "kill", "unforward"}
HoldsPort(i) == start[i].pc = "connect" \/ Serving(i)

TypeOK ==
  /\ sessions \in [Serials -> Starts \cup {0}] /\ starting \subseteq Serials
  /\ start \in [Starts -> [pc: {"idle", "mark", "connect", "insert", "pump", "fail", "done"},
                           serial: Serials \cup {0}, port: Ports \cup {0}]]
  /\ pump \in [Starts -> {"none", "run", "kill", "unforward", "remove", "ended"}]
  /\ cancelled \subseteq Starts
  /\ exit \in [begun: BOOLEAN, closing: SUBSET Starts]
  /\ portPool \subseteq Ports /\ nextPort \in 1 .. PortRangeMax
  /\ forwards \in [Ports -> Serials \cup {0}]

-----------------------------------------------------------------------------
(* start_mirror                                                            *)

At(i, pc)   == start[i].pc = pc
Goto(i, pc) == start' = [start EXCEPT ![i].pc = pc]
PumpAt(i, from, to) == pump[i] = from /\ pump' = [pump EXCEPT ![i] = to]

\* The first check: no session of the device is in the map.
StartMirror(i, s) ==
  /\ ~exit.begun /\ At(i, "idle") /\ \A j \in 1 .. i - 1 : ~At(j, "idle")
  /\ start' = [start EXCEPT ![i] =
                 IF sessions[s] = 0 THEN [pc |-> "mark", serial |-> s, port |-> 0] ELSE Over]
  /\ UNCHANGED <<sessions, starting, pump, cancelled, exit, portPool, nextPort, forwards>>

TakePort(i, p) == start' = [start EXCEPT ![i] = [pc |-> "connect", serial |-> @.serial, port |-> p]]

\* allocate_port: from the pool, else a new one, else none.  (The pool is a
\* queue: which port comes first matters to nothing here.)
AllocatePort(i) ==
  \/ \E p \in portPool :
       /\ portPool' = portPool \ {p} /\ UNCHANGED nextPort
       /\ TakePort(i, p)
  \/ /\ portPool = {} /\ nextPort < PortRangeMax
     /\ nextPort' = nextPort + 1 /\ UNCHANGED portPool
     /\ TakePort(i, nextPort)
  \/ /\ portPool = {} /\ nextPort = PortRangeMax
     /\ Goto(i, "fail") /\ UNCHANGED <<portPool, nextPort>>

\* The second check: no call is starting the device.
MarkStarting(i) ==
  /\ At(i, "mark")
  /\ \/ /\ start[i].serial \in starting
        /\ start' = [start EXCEPT ![i] = Over]
        /\ UNCHANGED <<starting, portPool, nextPort>>
     \/ /\ start[i].serial \notin starting
        /\ starting' = starting \cup {start[i].serial}
        /\ AllocatePort(i)
  /\ UNCHANGED <<sessions, pump, cancelled, exit, forwards>>

\* The rest of start_inner.  The server just spawned answers on the port, so
\* adb has forwarded it, whatever the port was forwarded to before.
Connect(i) ==
  /\ At(i, "connect")
  /\ forwards' = [forwards EXCEPT ![start[i].port] = start[i].serial]
  /\ Goto(i, "insert")
  /\ UNCHANGED <<sessions, starting, pump, cancelled, exit, portPool, nextPort>>

\* An error or the timeout of 30 seconds.  The port is not given back; adb may
\* have forwarded it, or not, or only removed what it was forwarded to.
StartFails(i) ==
  /\ At(i, "connect")
  /\ \E s \in {start[i].serial, forwards[start[i].port], 0} :
       forwards' = [forwards EXCEPT ![start[i].port] = s]
  /\ Goto(i, "fail")
  /\ UNCHANGED <<sessions, starting, pump, cancelled, exit, portPool, nextPort>>

\* Wrong variant: a failed start leaves its mark.
ReturnErrorMarked(i) ==
  /\ At(i, "fail")
  /\ start' = [start EXCEPT ![i] = Over]
  /\ UNCHANGED <<sessions, starting, pump, cancelled, exit, portPool, nextPort, forwards>>

ReturnError(i) ==
  /\ At(i, "fail")
  /\ starting' = starting \ {start[i].serial}
  /\ start' = [start EXCEPT ![i] = Over]
  /\ UNCHANGED <<sessions, pump, cancelled, exit, portPool, nextPort, forwards>>

\* Wrong variant: the pump is spawned before its session is in the map.
InsertLate(i) ==
  /\ At(i, "insert")
  /\ \/ /\ PumpAt(i, "none", "run")
        /\ UNCHANGED <<sessions, starting, start>>
     \/ /\ pump[i] # "none" /\ UNCHANGED pump
        /\ sessions' = [sessions EXCEPT ![start[i].serial] = i]
        /\ starting' = starting \ {start[i].serial} /\ Goto(i, "done")
  /\ UNCHANGED <<cancelled, exit, portPool, nextPort, forwards>>

\* The session is in the map before its pump exists; it replaces any other.
InsertSession(i) ==
  /\ At(i, "insert")
  /\ sessions' = [sessions EXCEPT ![start[i].serial] = i]
  /\ Goto(i, "pump")
  /\ UNCHANGED <<starting, pump, cancelled, exit, portPool, nextPort, forwards>>

SpawnPump(i) ==
  /\ At(i, "pump")
  /\ starting' = starting \ {start[i].serial}
  /\ pump' = [pump EXCEPT ![i] = "run"]
  /\ Goto(i, "done")
  /\ UNCHANGED <<sessions, cancelled, exit, portPool, nextPort, forwards>>

StartStep(i) ==
  MarkStarting(i) \/ Connect(i) \/ StartFails(i) \/ ReturnError(i) \/ InsertSession(i) \/ SpawnPump(i)

-----------------------------------------------------------------------------
(* stop_mirror, shutdown, and failures                                     *)

\* What follows is a wait with a timeout, which nothing depends on.
StopMirror(s) ==
  /\ ~exit.begun /\ sessions[s] # 0
  /\ sessions' = [sessions EXCEPT ![s] = 0]
  /\ cancelled' = cancelled \cup {sessions[s]}
  /\ UNCHANGED <<starting, start, pump, exit, portPool, nextPort, forwards>>

\* The program exits: the window is gone and with it its commands.  The map is
\* emptied at once, its sessions are cancelled one by one.
Shutdown ==
  /\ ~exit.begun
  /\ exit' = [begun |-> TRUE, closing |-> {i \in Starts : \E s \in Serials : sessions[s] = i}]
  /\ sessions' = [s \in Serials |-> 0]
  /\ UNCHANGED <<starting, start, pump, cancelled, portPool, nextPort, forwards>>

ShutdownCancel(i) ==
  /\ i \in exit.closing
  /\ exit' = [exit EXCEPT !.closing = @ \ {i}] /\ cancelled' = cancelled \cup {i}
  /\ UNCHANGED <<sessions, starting, start, pump, portPool, nextPort, forwards>>

\* An actor of the control stream fails to write or to read.  (Once the pump
\* has left its loop that changes nothing.)
ControlFails(i) ==
  /\ Serving(i) /\ pump[i] \in {"none", "run"} /\ i \notin cancelled
  /\ cancelled' = cancelled \cup {i}
  /\ UNCHANGED <<sessions, starting, start, pump, exit, portPool, nextPort, forwards>>

-----------------------------------------------------------------------------
(* frame_pump                                                              *)

\* Wrong variant: a pump whose session was replaced does not end.
PumpStopped(i) ==
  /\ i \in cancelled /\ PumpAt(i, "run", "kill") /\ sessions[start[i].serial] \in {0, i}
  /\ UNCHANGED <<sessions, starting, start, cancelled, exit, portPool, nextPort, forwards>>

PumpCancelled(i) ==
  /\ i \in cancelled /\ PumpAt(i, "run", "kill")
  /\ UNCHANGED <<sessions, starting, start, cancelled, exit, portPool, nextPort, forwards>>

\* The channel to the frontend is closed, or a frame is an error or too late.
PumpBreaks(i) ==
  /\ PumpAt(i, "run", "kill")
  /\ UNCHANGED <<sessions, starting, start, cancelled, exit, portPool, nextPort, forwards>>

\* Wrong variant: the port is given back first.
KillAndRelease(i) ==
  /\ PumpAt(i, "kill", "unforward")
  /\ portPool' = portPool \cup {start[i].port}
  /\ UNCHANGED <<sessions, starting, start, cancelled, exit, nextPort, forwards>>

\* ScrcpyServer::stop kills the server, ...
KillServer(i) ==
  /\ PumpAt(i, "kill", "unforward")
  /\ UNCHANGED <<sessions, starting, start, cancelled, exit, portPool, nextPort, forwards>>

\* ... removes the forward of its port, if adb will, and gives the port back
\* (release_port).
ReleasePort(i) ==
  /\ PumpAt(i, "unforward", "remove")
  /\ forwards' \in {forwards, [forwards EXCEPT ![start[i].port] = 0]}
  /\ portPool' = portPool \cup {start[i].port}
  /\ UNCHANGED <<sessions, starting, start, cancelled, exit, nextPort>>

\* Whatever session the map has for the device goes, and the token with the pump.
RemoveSession(i) ==
  /\ PumpAt(i, "remove", "ended")
  /\ sessions' = [sessions EXCEPT ![start[i].serial] = 0]
  /\ cancelled' = cancelled \ {i}
  /\ UNCHANGED <<starting, start, exit, portPool, nextPort, forwards>>

PumpStep(i) ==
  PumpCancelled(i) \/ KillServer(i) \/ ReleasePort(i) \/ RemoveSession(i)

-----------------------------------------------------------------------------
Init ==
  /\ sessions = [s \in Serials |-> 0] /\ starting = {} /\ start = [i \in Starts |-> NoStart]
  /\ pump = [i \in Starts |-> "none"] /\ cancelled = {} /\ exit = [begun |-> FALSE, closing |-> {}]
  /\ portPool = {} /\ nextPort = 1 /\ forwards = [p \in Ports |-> 0]

Next ==
  \/ \E i \in Starts : (\E s \in Serials : StartMirror(i, s)) \/ StartStep(i)
  \/ (\E s \in Serials : StopMirror(s)) \/ Shutdown
  \/ \E i \in Starts : ShutdownCancel(i) \/ ControlFails(i) \/ PumpBreaks(i) \/ PumpStep(i)

Spec == Init /\ [][Next]_vars

\* tokio polls its tasks; adb and the connection are bounded by timeouts.
FairSpec ==
  Spec /\ \A i \in Starts : WF_vars(StartStep(i) \/ PumpStep(i))
-----------------------------------------------------------------------------
\* A call is past its checks, a pump was spawned by a call that is over.
PumpFollowsStart ==
  \A i \in Starts :
    /\ start[i].serial \in Serials \/ (start[i] \in {NoStart, Over} /\ pump[i] \in {"none", "ended"})
    /\ pump[i] # "none" => At(i, "done")

\* A local port is held by one start or session, and by none while it is in
\* the pool: two devices never share a forward.
PortsHeldOnce ==
  /\ \A p \in portPool : p < nextPort
  /\ \A i \in Starts : HoldsPort(i) =>
       /\ start[i].port \in Ports \ portPool /\ start[i].port < nextPort
       /\ \A j \in Starts \ {i} : HoldsPort(j) => start[j].port # start[i].port

\* The forward of a session stands until its own pump removes it: however ports
\* are given back and taken again, no other start or stop touches it.
ForwardStands ==
  \A i \in Starts : Serving(i) => forwards[start[i].port] = start[i].serial

\* No session whose pump has ended is in the map: the device could not be
\* started again until somebody stops what does not run.
NoZombie ==
  \A s \in Serials : sessions[s] # 0 =>
    /\ start[sessions[s]].serial = s /\ pump[sessions[s]] # "ended"
    /\ At(sessions[s], "pump") \/ pump[sessions[s]] # "none"

\* The inductive invariant of the above.
SessionsInv == TypeOK /\ PumpFollowsStart /\ PortsHeldOnce /\ ForwardStands /\ NoZombie

\* A device does not stay marked as being started: it can be started again.
StartingCleared == \A s \in Serials : s \in starting ~> s \notin starting

\* A session that is told to end ends, and with it its server and its hold on a
\* port, though the map may hold another one by then; unless the program exits.
CancelledEnds == \A i \in Starts : i \in cancelled ~> (pump[i] = "ended" \/ exit.begun)
=============================================================================

------------------------ MODULE ScrcpySessionsProofs ------------------------
(* Proofs about ScrcpySessions: its invariant, for every value of the constants. *)
EXTENDS ScrcpySessions, TLAPS

\* No call has been made: every part of the invariant holds.
LEMMA InitSessions == Init => SessionsInv
  BY SessionsAssumption
  DEF Init, SessionsInv, TypeOK, PumpFollowsStart, PortsHeldOnce, ForwardStands, NoZombie, Starts, Ports,
      NoStart, Over, Serving, HoldsPort, At

\* SessionsInv is inductive.  Its parts need each other: the type of a port comes
\* from PortsHeldOnce, ForwardStands from ports being held once, and NoZombie
\* from the order of a call and its pump (PumpFollowsStart).
LEMMA StepSessions == SessionsInv /\ [Next]_vars => SessionsInv'
<1> SUFFICES ASSUME SessionsInv, [Next]_vars PROVE SessionsInv'
  OBVIOUS
<1> USE SessionsAssumption DEF SessionsInv, At, Goto, PumpAt
<1>1. ASSUME NEW i \in Starts, NEW s \in Serials, StartMirror(i, s) PROVE SessionsInv'
  <2>1. TypeOK'
    BY <1>1
      DEF StartMirror, TypeOK, PumpFollowsStart, PortsHeldOnce, HoldsPort, Serving, Starts,
          Ports, NoStart, Over
  <2>2. PumpFollowsStart'
    BY <1>1 DEF StartMirror, PumpFollowsStart, TypeOK, Starts, Ports, NoStart, Over
  <2>3. PortsHeldOnce'
    BY <1>1
      DEF StartMirror, TypeOK, PumpFollowsStart, PortsHeldOnce, HoldsPort, Serving, Starts,
          Ports, NoStart, Over
  <2>4. ForwardStands'
    BY <1>1
      DEF StartMirror, TypeOK, PumpFollowsStart, PortsHeldOnce, ForwardStands, HoldsPort,
          Serving, Starts, Ports, NoStart, Over
  <2>5. NoZombie'
    BY <1>1 DEF StartMirror, TypeOK, PumpFollowsStart, NoZombie, Starts, Ports, NoStart, Over
  <2> QED  BY <2>1, <2>2, <2>3, <2>4, <2>5
<1>2. ASSUME NEW i \in Starts, MarkStarting(i) PROVE SessionsInv'
  <2>1. CASE start[i].serial \in starting
    <3>1. /\ start' = [start EXCEPT ![i] = Over]
          /\ UNCHANGED <<sessions, pump, cancelled, exit, portPool, nextPort, forwards, starting>>
      BY <1>2, <2>1 DEF MarkStarting
    <3> QED
      BY <1>2, <2>1, <3>1
        DEF MarkStarting, TypeOK, PumpFollowsStart, PortsHeldOnce, ForwardStands, NoZombie,
            Serving, HoldsPort, Starts, Ports, NoStart, Over
  <2>2. CASE start[i].serial \notin starting
    <3> DEFINE Took(p) == /\ TakePort(i, p)
                          /\ p \in Ports /\ p \notin portPool' /\ p < nextPort'
                          /\ portPool' \subseteq portPool
                          /\ nextPort <= nextPort' /\ nextPort' \in 1 .. PortRangeMax
                          /\ \A j \in Starts : HoldsPort(j) => start[j].port # p
    <3>1. (\E p \in Ports : Took(p)) \/ (Goto(i, "fail") /\ UNCHANGED <<portPool, nextPort>>)
      <4>1. CASE \E p \in portPool : portPool' = portPool \ {p} /\ UNCHANGED nextPort
                                    /\ TakePort(i, p)
        BY <4>1 DEF TypeOK, PortsHeldOnce
      <4>2. CASE /\ portPool = {} /\ nextPort < PortRangeMax
                 /\ nextPort' = nextPort + 1 /\ UNCHANGED portPool
                 /\ TakePort(i, nextPort)
        <5>1. nextPort \in Ports /\ nextPort + 1 \in 1 .. PortRangeMax
          BY <4>2 DEF TypeOK, Ports
        <5>2. \A j \in Starts : HoldsPort(j) => start[j].port # nextPort
          BY <4>2, <5>1 DEF TypeOK, PortsHeldOnce, Ports
        <5> QED  BY <4>2, <5>1, <5>2 DEF TypeOK, Ports
      <4> QED  BY <1>2, <2>2, <4>1, <4>2 DEF MarkStarting, AllocatePort
    <3>2. /\ starting' = starting \cup {start[i].serial} /\ At(i, "mark")
          /\ UNCHANGED <<sessions, pump, cancelled, exit, forwards>>
      BY <1>2, <2>2 DEF MarkStarting
    <3>3. ASSUME NEW p \in Ports, Took(p) PROVE SessionsInv'
      <4>1. TypeOK'
        <5>1. start' \in [Starts -> [pc: {"idle", "mark", "connect", "insert", "pump", "fail", "done"},
                                     serial: Serials \cup {0}, port: Ports \cup {0}]]
          BY <3>3 DEF TakePort, TypeOK
        <5>2. start[i].serial \in Serials
          BY <3>2 DEF PumpFollowsStart, NoStart, Over
        <5> QED  BY <3>2, <3>3, <5>1, <5>2 DEF TypeOK
      <4>2. PumpFollowsStart' /\ NoZombie'
        BY <3>2, <3>3 DEF TakePort, TypeOK, PumpFollowsStart, NoZombie, Starts, Ports, NoStart, Over
      <4>3. PortsHeldOnce'
        BY <3>2, <3>3
          DEF TakePort, TypeOK, PumpFollowsStart, PortsHeldOnce, HoldsPort, Serving,
              Starts, Ports, NoStart, Over
      <4>4. ForwardStands'
        BY <3>2, <3>3
          DEF TakePort, TypeOK, PumpFollowsStart, ForwardStands, Serving, Starts, Ports,
              NoStart, Over
      <4> QED  BY <4>1, <4>2, <4>3, <4>4
    <3>4. CASE Goto(i, "fail") /\ UNCHANGED <<portPool, nextPort>>
      BY <3>2, <3>4
        DEF TypeOK, PumpFollowsStart, PortsHeldOnce, ForwardStands, NoZombie, Serving,
            HoldsPort, Starts, Ports, NoStart, Over
    <3> QED  BY <3>1, <3>3, <3>4
  <2> QED  BY <2>1, <2>2
<1>3. ASSUME NEW i \in Starts, Connect(i) PROVE SessionsInv'
  <2>1. TypeOK'
    <3>1. start[i].serial \in Serials /\ start[i].port \in Ports /\ pump[i] = "none"
      BY <1>3
        DEF Connect, TypeOK, PumpFollowsStart, PortsHeldOnce, HoldsPort, Serving, NoStart,
            Over
    <3>2. start' \in [Starts -> [pc: {"idle", "mark", "connect", "insert", "pump", "fail", "done"},
                                 serial: Serials \cup {0}, port: Ports \cup {0}]]
      BY <1>3 DEF Connect, TypeOK
    <3> QED  BY <1>3, <3>1, <3>2 DEF Connect, TypeOK
  <2>2. PumpFollowsStart'
    BY <1>3 DEF Connect, PumpFollowsStart, TypeOK, Starts, Ports, NoStart, Over
  <2>3. PortsHeldOnce'
    BY <1>3
      DEF Connect, TypeOK, PumpFollowsStart, PortsHeldOnce, HoldsPort, Serving, Starts,
          Ports, NoStart, Over
  <2>4. ForwardStands'
    BY <1>3
      DEF Connect, TypeOK, PumpFollowsStart, PortsHeldOnce, ForwardStands, HoldsPort,
          Serving, Starts, Ports, NoStart, Over
  <2>5. NoZombie'
    BY <1>3 DEF Connect, TypeOK, PumpFollowsStart, NoZombie, Starts, Ports, NoStart, Over
  <2> QED  BY <2>1, <2>2, <2>3, <2>4, <2>5
<1>4. ASSUME NEW i \in Starts, StartFails(i) PROVE SessionsInv'
  <2>1. TypeOK'
    BY <1>4
      DEF StartFails, TypeOK, PumpFollowsStart, PortsHeldOnce, HoldsPort, Serving, Starts,
          Ports, NoStart, Over
  <2>2. PumpFollowsStart'
    BY <1>4 DEF StartFails, PumpFollowsStart, TypeOK, Starts, Ports, NoStart, Over
  <2>3. PortsHeldOnce'
    BY <1>4
      DEF StartFails, TypeOK, PumpFollowsStart, PortsHeldOnce, HoldsPort, Serving, Starts,
          Ports, NoStart, Over
  <2>4. ForwardStands'
    BY <1>4
      DEF StartFails, TypeOK, PumpFollowsStart, PortsHeldOnce, ForwardStands, HoldsPort,
          Serving, Starts, Ports, NoStart, Over
  <2>5. NoZombie'
    BY <1>4 DEF StartFails, TypeOK, PumpFollowsStart, NoZombie, Starts, Ports, NoStart, Over
  <2> QED  BY <2>1, <2>2, <2>3, <2>4, <2>5
<1>5. ASSUME NEW i \in Starts, ReturnError(i) PROVE SessionsInv'
  <2>1. TypeOK'
    BY <1>5
      DEF ReturnError, TypeOK, PumpFollowsStart, PortsHeldOnce, HoldsPort, Serving, Starts,
          Ports, NoStart, Over
  <2>2. PumpFollowsStart'
    BY <1>5 DEF ReturnError, PumpFollowsStart, TypeOK, Starts, Ports, NoStart, Over
  <2>3. PortsHeldOnce'
    BY <1>5
      DEF ReturnError, TypeOK, PumpFollowsStart, PortsHeldOnce, HoldsPort, Serving, Starts,
          Ports, NoStart, Over
  <2>4. ForwardStands'
    BY <1>5
      DEF ReturnError, TypeOK, PumpFollowsStart, PortsHeldOnce, ForwardStands, HoldsPort,
          Serving, Starts, Ports, NoStart, Over
  <2>5. NoZombie'
    BY <1>5 DEF ReturnError, TypeOK, PumpFollowsStart, NoZombie, Starts, Ports, NoStart, Over
  <2> QED  BY <2>1, <2>2, <2>3, <2>4, <2>5
<1>6. ASSUME NEW i \in Starts, InsertSession(i) PROVE SessionsInv'
  <2>1. TypeOK'
    BY <1>6
      DEF InsertSession, TypeOK, PumpFollowsStart, PortsHeldOnce, HoldsPort, Serving, Starts,
          Ports, NoStart, Over
  <2>2. PumpFollowsStart'
    BY <1>6 DEF InsertSession, PumpFollowsStart, TypeOK, Starts, Ports, NoStart, Over
  <2>3. PortsHeldOnce'
    BY <1>6
      DEF InsertSession, TypeOK, PumpFollowsStart, PortsHeldOnce, HoldsPort, Serving, Starts,
          Ports, NoStart, Over
  <2>4. ForwardStands'
    BY <1>6
      DEF InsertSession, TypeOK, PumpFollowsStart, PortsHeldOnce, ForwardStands, HoldsPort,
          Serving, Starts, Ports, NoStart, Over
  <2>5. NoZombie'
    BY <1>6 DEF InsertSession, TypeOK, PumpFollowsStart, NoZombie, Starts, Ports, NoStart, Over
  <2> QED  BY <2>1, <2>2, <2>3, <2>4, <2>5
<1>7. ASSUME NEW i \in Starts, SpawnPump(i) PROVE SessionsInv'
  <2>1. TypeOK'
    <3>1. start[i].serial \in Serials /\ start[i].port \in Ports /\ pump[i] = "none"
      BY <1>7
        DEF SpawnPump, TypeOK, PumpFollowsStart, PortsHeldOnce, HoldsPort, Serving,
            NoStart, Over
    <3>2. start' \in [Starts -> [pc: {"idle", "mark", "connect", "insert", "pump", "fail", "done"},
                                 serial: Serials \cup {0}, port: Ports \cup {0}]]
      BY <1>7 DEF SpawnPump, TypeOK
    <3> QED  BY <1>7, <3>1, <3>2 DEF SpawnPump, TypeOK
  <2>2. PumpFollowsStart'
    BY <1>7 DEF SpawnPump, PumpFollowsStart, TypeOK, Starts, Ports, NoStart, Over
  <2>3. PortsHeldOnce'
    BY <1>7
      DEF SpawnPump, TypeOK, PumpFollowsStart, PortsHeldOnce, HoldsPort, Serving, Starts,
          Ports, NoStart, Over
  <2>4. ForwardStands'
    BY <1>7
      DEF SpawnPump, TypeOK, PumpFollowsStart, PortsHeldOnce, ForwardStands, HoldsPort,
          Serving, Starts, Ports, NoStart, Over
  <2>5. NoZombie'
    BY <1>7 DEF SpawnPump, TypeOK, PumpFollowsStart, NoZombie, Starts, Ports, NoStart, Over
  <2> QED  BY <2>1, <2>2, <2>3, <2>4, <2>5
<1>8. ASSUME NEW s \in Serials, StopMirror(s) PROVE SessionsInv'
  BY <1>8
    DEF StopMirror, TypeOK, PumpFollowsStart, PortsHeldOnce, ForwardStands, NoZombie,
        HoldsPort, Serving,
                NoStart, Over
<1>9. ASSUME Shutdown PROVE SessionsInv'
  BY <1>9
    DEF Shutdown, TypeOK, PumpFollowsStart, PortsHeldOnce, ForwardStands, NoZombie, HoldsPort,
        Serving,
                NoStart, Over
<1>10. ASSUME NEW i \in Starts, ShutdownCancel(i) PROVE SessionsInv'
  BY <1>10
    DEF ShutdownCancel, TypeOK, PumpFollowsStart, PortsHeldOnce, ForwardStands, NoZombie,
        HoldsPort, Serving,
                NoStart, Over
<1>11. ASSUME NEW i \in Starts, ControlFails(i) PROVE SessionsInv'
  BY <1>11
    DEF ControlFails, TypeOK, PumpFollowsStart, PortsHeldOnce, ForwardStands, NoZombie,
        HoldsPort, Serving,
                NoStart, Over
<1>12. ASSUME NEW i \in Starts, PumpBreaks(i) PROVE SessionsInv'
  BY <1>12
    DEF PumpBreaks, TypeOK, PumpFollowsStart, PortsHeldOnce, ForwardStands, NoZombie,
        HoldsPort, Serving,
                NoStart, Over
<1>13. ASSUME NEW i \in Starts, PumpCancelled(i) PROVE SessionsInv'
  BY <1>13
    DEF PumpCancelled, TypeOK, PumpFollowsStart, PortsHeldOnce, ForwardStands, NoZombie,
        HoldsPort, Serving,
                NoStart, Over
<1>14. ASSUME NEW i \in Starts, KillServer(i) PROVE SessionsInv'
  BY <1>14
    DEF KillServer, TypeOK, PumpFollowsStart, PortsHeldOnce, ForwardStands, NoZombie,
        HoldsPort, Serving,
                NoStart, Over
<1>15. ASSUME NEW i \in Starts, ReleasePort(i) PROVE SessionsInv'
  <2>1. TypeOK'
    BY <1>15
      DEF ReleasePort, TypeOK, PumpFollowsStart, PortsHeldOnce, HoldsPort, Serving, Starts,
          Ports, NoStart, Over
  <2>2. PumpFollowsStart'
    BY <1>15 DEF ReleasePort, PumpFollowsStart, TypeOK, Starts, Ports, NoStart, Over
  <2>3. PortsHeldOnce'
    BY <1>15
      DEF ReleasePort, TypeOK, PumpFollowsStart, PortsHeldOnce, HoldsPort, Serving, Starts,
          Ports, NoStart, Over
  <2>4. ForwardStands'
    BY <1>15
      DEF ReleasePort, TypeOK, PumpFollowsStart, PortsHeldOnce, ForwardStands, HoldsPort,
          Serving, Starts, Ports, NoStart, Over
  <2>5. NoZombie'
    BY <1>15 DEF ReleasePort, TypeOK, PumpFollowsStart, NoZombie, Starts, Ports, NoStart, Over
  <2> QED  BY <2>1, <2>2, <2>3, <2>4, <2>5
<1>16. ASSUME NEW i \in Starts, RemoveSession(i) PROVE SessionsInv'
  <2>1. TypeOK'
    BY <1>16
      DEF RemoveSession, TypeOK, PumpFollowsStart, PortsHeldOnce, HoldsPort, Serving, Starts,
          Ports, NoStart, Over
  <2>2. PumpFollowsStart'
    BY <1>16 DEF RemoveSession, PumpFollowsStart, TypeOK, Starts, Ports, NoStart, Over
  <2>3. PortsHeldOnce'
    BY <1>16
      DEF RemoveSession, TypeOK, PumpFollowsStart, PortsHeldOnce, HoldsPort, Serving, Starts,
          Ports, NoStart, Over
  <2>4. ForwardStands'
    BY <1>16
      DEF RemoveSession, TypeOK, PumpFollowsStart, PortsHeldOnce, ForwardStands, HoldsPort,
          Serving, Starts, Ports, NoStart, Over
  <2>5. NoZombie'
    BY <1>16 DEF RemoveSession, TypeOK, PumpFollowsStart, NoZombie, Starts, Ports, NoStart, Over
  <2> QED  BY <2>1, <2>2, <2>3, <2>4, <2>5
<1>17. CASE UNCHANGED vars
  BY <1>17
    DEF vars, TypeOK, PumpFollowsStart, PortsHeldOnce, ForwardStands, NoZombie, Serving,
        HoldsPort
<1> QED
  BY <1>1, <1>2, <1>3, <1>4, <1>5, <1>6, <1>7, <1>8, <1>9, <1>10,
     <1>11, <1>12, <1>13, <1>14, <1>15, <1>16, <1>17
    DEF Next, StartStep, PumpStep

\* In every reachable state the sessions, the calls that start them, the pool of
\* ports and the forwards of adb agree (allocate_port, release_port,
\* start_mirror, frame_pump).
THEOREM SessionsInvariant == Spec => []SessionsInv
  BY InitSessions, StepSessions, PTL DEF Spec

\* A local port never serves two sessions, nor is it in PORT_POOL while it serves
\* one.
THEOREM PortsNeverShared == Spec => []PortsHeldOnce
<1>1. SessionsInv => PortsHeldOnce
  BY DEF SessionsInv
<1> QED
  BY <1>1, SessionsInvariant, PTL

\* The map of sessions never holds one whose pump has ended: what the order of
\* insertion and spawn in start_mirror is for.
THEOREM NoZombieSession == Spec => []NoZombie
<1>1. SessionsInv => NoZombie
  BY DEF SessionsInv
<1> QED
  BY <1>1, SessionsInvariant, PTL
=============================================================================

------------------------- MODULE MqttManagerProofs -------------------------
(***************************************************************************)
(* The loop of the newest connect() never ends by itself, for any number   *)
(* of calls, loops and broken connections.  The inductive invariant is     *)
(* ManagerInv of MqttManager.                                              *)
(***************************************************************************)
EXTENDS MqttManager, TLAPS

\* Nothing was called: every part holds.
LEMMA InitManager == Init => ManagerInv
BY ManagerAssumption
   DEF Init, ManagerInv, TypeOK, CallType, LoopType, Numbered, NewestRuns, LockHeld, Calls, Generations, NoCall, NoLoop

\* Calls are begun in order: the next one is that of the next generation.
LEMMA BeginNumber ==
  ASSUME ManagerInv, NEW c \in Calls, NEW op \in Ops, Begin(c, op)
  PROVE  c = generation + 1 /\ generation' = c
<1>1. c > generation
  BY DEF Begin, ManagerInv, Numbered, TypeOK, Generations, Calls
<1>2. ~(generation + 1 < c)
  <2> SUFFICES ASSUME generation + 1 < c PROVE FALSE
    OBVIOUS
  <2>1. generation + 1 \in Calls /\ generation + 1 \in 1 .. c - 1
    BY ManagerAssumption DEF ManagerInv, TypeOK, Generations, Calls
  <2>2. calls[generation + 1].pc # "idle"
    BY <2>1 DEF Begin
  <2> QED BY <2>1, <2>2 DEF ManagerInv, Numbered, TypeOK, Generations
<1> QED BY <1>1, <1>2 DEF Begin, ManagerInv, TypeOK, Generations, Calls

\* A new call makes its generation the newest; no loop has it yet.
LEMMA BeginStep == ASSUME ManagerInv, NEW c \in Calls, NEW op \in Ops, Begin(c, op) PROVE ManagerInv'
<1>1. c = generation + 1 /\ generation' = c /\ generation \in Nat
  BY BeginNumber DEF ManagerInv, TypeOK, Generations
<1>2. /\ calls' = [calls EXCEPT ![c] = [op |-> op, pc |-> "client", gen |-> c, wait |-> 0]]
      /\ calls[c].pc = "idle"
      /\ UNCHANGED <<client, status, handle, holder, loops, asked, failures>>
  BY <1>1 DEF Begin
<1>3. TypeOK'
  BY <1>1, <1>2 DEF ManagerInv, TypeOK, CallType, Generations, Calls
<1>4. Numbered'
  <2>1. ASSUME NEW b \in Calls
        PROVE  (calls'[b].pc # "idle" <=> b <= generation') /\ (calls'[b].pc # "idle" => calls'[b].gen = b)
    BY <1>1, <1>2 DEF ManagerInv, TypeOK, CallType, Numbered, Calls
  <2>2. ASSUME NEW g \in Generations
        PROVE  /\ loops'[g].pc # "none" => g <= generation'
               /\ calls'[g].op = "connect" /\ calls'[g].pc \in {"keep", "done"} => loops'[g].pc # "none"
    BY <1>1, <1>2 DEF ManagerInv, TypeOK, CallType, Numbered, Calls, Generations
  <2> QED BY <2>1, <2>2 DEF Numbered
<1>5. NewestRuns'
  BY <1>1, <1>2 DEF ManagerInv, Numbered, NewestRuns, Generations
<1>6. LockHeld'
  BY <1>1, <1>2 DEF ManagerInv, TypeOK, CallType, LockHeld, Calls
<1> QED BY <1>3, <1>4, <1>5, <1>6 DEF ManagerInv

\* The steps of a call that was begun keep its number; a loop is spawned for it
\* with its generation.
LEMMA CallStep == ASSUME ManagerInv, NEW c \in Calls, Call(c) PROVE ManagerInv'
<1> USE DEF ManagerInv
<1>1. /\ calls[c].pc # "idle" /\ calls[c].gen = c /\ c <= generation
      /\ c \in Generations /\ c # 0 /\ generation' = generation
  BY DEF Call, TakeClient, TakeHandle, Waited, SetStatus, Spawn, KeepHandle, Numbered, Calls, Generations
<1>2. ASSUME NEW pc \in {"client", "handle", "wait", "status", "spawn", "keep", "done"},
             NEW w \in Generations \cup {0}
      PROVE  [calls EXCEPT ![c] = [@ EXCEPT !.pc = pc, !.wait = w]] \in [Calls -> CallType]
  <2>1. [calls[c] EXCEPT !.pc = pc, !.wait = w] \in CallType
    BY DEF TypeOK, CallType
  <2> QED BY <2>1 DEF TypeOK
<1>3. ASSUME NEW pc \in {"client", "handle", "wait", "status", "spawn", "keep", "done"}
      PROVE  [calls EXCEPT ![c].pc = pc] \in [Calls -> CallType]
  <2>1. [calls[c] EXCEPT !.pc = pc] \in CallType
    BY DEF TypeOK, CallType
  <2> QED BY <2>1 DEF TypeOK
<1>4. TypeOK'
  <2>1. CASE TakeClient(c)
    <3>1. calls' \in [Calls -> CallType]
      BY <2>1, <1>3 DEF TakeClient
    <3>2. asked' \subseteq Generations \X Incarnations
      <4>1. CASE client = None
        BY <2>1, <4>1 DEF TakeClient, TypeOK
      <4>2. CASE client # None
        <5>1. client \in Generations \X Incarnations /\ asked' = asked \cup {client}
          BY <2>1, <4>2 DEF TakeClient, TypeOK
        <5> QED BY <5>1 DEF TypeOK
      <4> QED BY <4>1, <4>2
    <3> QED BY <2>1, <3>1, <3>2 DEF TakeClient, TypeOK
  <2>2. CASE TakeHandle(c)
    <3>1. calls' \in [Calls -> CallType]
      <4>1. CASE handle = 0
        BY <2>2, <4>1, <1>3 DEF TakeHandle
      <4>2. CASE handle # 0
        <5>1. [calls EXCEPT ![c] = [@ EXCEPT !.pc = "wait", !.wait = handle]] \in [Calls -> CallType]
          BY <1>2 DEF TypeOK
        <5> QED BY <2>2, <4>2, <5>1 DEF TakeHandle
      <4> QED BY <4>1, <4>2
    <3> QED BY <2>2, <3>1 DEF TakeHandle, TypeOK
  <2>3. CASE Waited(c)
    BY <2>3, <1>2 DEF Waited, TypeOK
  <2>4. CASE SetStatus(c)
    BY <2>4, <1>3 DEF SetStatus, TypeOK
  <2>5. CASE Spawn(c)
    <3>1. [NoLoop EXCEPT !.pc = "top"] \in LoopType
      BY DEF NoLoop, LoopType
    <3> QED BY <1>1, <1>3, <2>5, <3>1 DEF Spawn, TypeOK
  <2>6. CASE KeepHandle(c)
    BY <1>1, <1>3, <2>6 DEF KeepHandle, TypeOK
  <2> QED BY <2>1, <2>2, <2>3, <2>4, <2>5, <2>6 DEF Call
<1>5. /\ \A b \in Calls : b # c => calls'[b] = calls[b]
      /\ calls'[c].pc # "idle" /\ calls'[c].gen = c /\ calls'[c].op = calls[c].op
      /\ \A g \in Generations : loops'[g] = loops[g] \/ (g = c /\ loops'[g].pc = "top")
      /\ calls'[c].pc = "keep" => loops'[c].pc = "top"
      /\ calls'[c].pc = "done" /\ calls[c].op = "connect" => calls[c].pc = "keep"
  BY <1>1 DEF Call, TakeClient, TakeHandle, Waited, SetStatus, Spawn, KeepHandle, TypeOK, CallType, LoopType, NoLoop
<1>6. Numbered'
  BY <1>1, <1>5 DEF Numbered, Calls, Generations
<1>7. NewestRuns'
  BY <1>1, <1>5 DEF NewestRuns
<1>8. LockHeld'
  <2>1. CASE TakeHandle(c)
    <3>1. CASE handle = 0
      BY <1>1, <2>1, <3>1 DEF TakeHandle, TypeOK, CallType, LockHeld
    <3>2. CASE handle # 0
      <4>1. calls'[c].pc = "wait" /\ holder' = c
        BY <2>1, <3>2 DEF TakeHandle, TypeOK, CallType
      <4>2. \A b \in Calls : b # c => calls[b].pc # "wait"
        BY <2>1 DEF TakeHandle, LockHeld, Calls
      <4> QED BY <1>5, <4>1, <4>2 DEF LockHeld
    <3> QED BY <3>1, <3>2
  <2>2. CASE Waited(c)
    <3>1. calls'[c].pc = "status" /\ holder' = 0 /\ holder = c
      BY <2>2 DEF Waited, TypeOK, CallType, LockHeld
    <3> QED BY <1>1, <1>5, <3>1 DEF LockHeld, Calls
  <2>3. CASE TakeClient(c) \/ SetStatus(c) \/ Spawn(c) \/ KeepHandle(c)
    <3>1. calls[c].pc # "wait" /\ calls'[c].pc # "wait" /\ holder' = holder
      BY <2>3 DEF TakeClient, SetStatus, Spawn, KeepHandle, TypeOK, CallType
    <3> QED BY <1>5, <3>1 DEF LockHeld
  <2> QED BY <2>1, <2>2, <2>3 DEF Call
<1> QED BY <1>4, <1>6, <1>7, <1>8

\* A loop exits only at a guard that found another generation.
LEMMA LoopStep == ASSUME ManagerInv, NEW g \in Generations, Loop(g) PROVE ManagerInv'
<1> USE DEF ManagerInv
<1>1. UNCHANGED <<generation, calls, handle, holder>>
  BY DEF Loop, Top, Store, Check, Connected, Event, Broken, Wake
<1> DEFINE r == loops'[g]
<1>2. loops' = [loops EXCEPT ![g] = r]
  BY DEF Loop, Top, Store, Check, Connected, Event, Broken, Wake, Goto, TypeOK
<1>3. r \in LoopType /\ loops[g].pc # "none" /\ r.pc # "none" /\ (r.pc = "exited" => generation # g)
  <2>0. loops[g] \in LoopType
    BY DEF TypeOK
  <2>1. CASE Top(g)
    BY <2>0, <2>1 DEF Top, Goto, TypeOK, LoopType
  <2>2. CASE Store(g)
    BY <2>0, <2>2 DEF Store, TypeOK, LoopType, Incarnations
  <2>3. CASE Check(g)
    BY <2>0, <2>3 DEF Check, TypeOK, LoopType
  <2>4. CASE Connected(g)
    <3>1. [loops[g] EXCEPT !.pc = "check", !.conn = "up", !.met = TRUE] \in LoopType
      BY <2>0 DEF LoopType
    <3>2. r = [loops[g] EXCEPT !.pc = "check", !.conn = "up", !.met = TRUE]
      BY <2>4 DEF Connected, TypeOK
    <3> QED BY <2>0, <2>4, <3>1, <3>2 DEF Connected, LoopType
  <2>5. CASE Event(g)
    BY <2>0, <2>5 DEF Event, TypeOK, LoopType
  <2>6. CASE Broken(g)
    BY <2>0, <2>6 DEF Broken, TypeOK, LoopType
  <2>7. CASE Wake(g)
    BY <2>0, <2>7 DEF Wake, Goto, TypeOK, LoopType
  <2> QED BY <2>1, <2>2, <2>3, <2>4, <2>5, <2>6, <2>7 DEF Loop
<1>4. TypeOK'
  <2>1. loops' \in [Generations -> LoopType]
    BY <1>2, <1>3 DEF TypeOK
  <2>2. client' \in (Generations \X Incarnations) \cup {None}
    <3>1. CASE Store(g)
      <4>1. client' = <<g, r.inc>> /\ r.inc \in Incarnations
        BY <3>1, <1>3 DEF Store, TypeOK, LoopType, Incarnations
      <4> QED BY <4>1
    <3>2. CASE ~Store(g)
      BY <3>2 DEF Loop, Top, Check, Connected, Event, Broken, Wake, TypeOK
    <3> QED BY <3>1, <3>2
  <2>3. failures' \in 0 .. MaxFailures /\ status' \in {"disconnected", "connecting", "connected", "error"}
        /\ asked' = asked
    BY ManagerAssumption DEF Loop, Top, Store, Check, Connected, Event, Broken, Breaks, Wake, TypeOK
  <2> QED BY <1>1, <2>1, <2>2, <2>3 DEF TypeOK
<1>5. /\ loops[g].pc # "none" /\ loops'[g].pc # "none"
      /\ \A h \in Generations : h # g => loops'[h] = loops[h]
      /\ loops'[g].pc = "exited" => generation # g
  BY <1>2, <1>3 DEF TypeOK
<1>6. Numbered' /\ NewestRuns' /\ LockHeld'
  BY <1>1, <1>5 DEF Numbered, NewestRuns, LockHeld
<1> QED BY <1>4, <1>6

LEMMA ManagerNext == ManagerInv /\ [Next]_vars => ManagerInv'
<1> SUFFICES ASSUME ManagerInv, [Next]_vars PROVE ManagerInv'
  OBVIOUS
<1>1. CASE UNCHANGED vars
  BY <1>1 DEF vars, ManagerInv, TypeOK, Numbered, NewestRuns, LockHeld
<1> QED BY <1>1, BeginStep, CallStep, LoopStep DEF Next

\* In every reachable state calls and loops are numbered, the newest loop has
\* not ended and the lock of loop_handle has one holder.
THEOREM ManagerInvariant == Spec => []ManagerInv
BY InitManager, ManagerNext, PTL DEF Spec

\* The loop of the newest connect() is there and has not ended (the guards of
\* 'reconnect and 'poll in manager.rs are the only exits).
THEOREM WantedLoopStays == Spec => []WantedLoopRuns
<1>1. ASSUME ManagerInv, NEW g \in Generations, Wanted(g) PROVE Alive(g)
  <2>1. PICK c \in Calls : /\ calls[c].op = "connect" /\ calls[c].gen = g
                           /\ calls[c].pc \in {"keep", "done"} /\ g = generation
    BY <1>1 DEF Wanted
  <2>2. c = g
    BY <1>1, <2>1 DEF ManagerInv, Numbered
  <2> QED BY <1>1, <2>1, <2>2 DEF ManagerInv, Numbered, NewestRuns, Alive
<1>2. ManagerInv => WantedLoopRuns
  BY <1>1 DEF WantedLoopRuns
<1> QED BY <1>2, ManagerInvariant, PTL
=============================================================================

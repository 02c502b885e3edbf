------------------------ MODULE DeviceRegistryProofs ------------------------
(* Proofs about DeviceRegistry: its types, the ports, the marks and the rows of *)
(* the phones, and what the tasks are assigned, for every set of phones.       *)
EXTENDS DeviceRegistry, TLAPS

\* The two serials of a phone, of which Serials consists.
LEMMA SerialsOfPhones ==
  /\ \A p \in Phones : /\ Usb(p) \in Serials /\ PhoneOf(Usb(p)) = p
                       /\ Wifi(p) \in Serials /\ PhoneOf(Wifi(p)) = p
  /\ \A s \in Serials : PhoneOf(s) \in Phones
  BY DEF Serials, Usb, Wifi, PhoneOf

-----------------------------------------------------------------------------
(* The statements on the table.                                            *)

Tables == [Serials -> Rows]
UniquePorts(R) == \A a, b \in Serials : R[a].port = R[b].port /\ R[a].port # 0 => a = b

LEMMA NoRowType == \A s \in Serials : NoRow(s) \in Rows
  BY BoundsAssumption DEF NoRow, Rows

LEMMA ReadType ==
  ASSUME TypeOK, NEW s \in Serials
  PROVE  Read(s) \in Rows /\ Read(s).hw = row[s].hw
<1>1. row[s] \in Rows
  BY DEF TypeOK
<1> DEFINE st == IF row[s].st = "absent" THEN row[s].st ELSE "device"
<1>2. st \in {"absent", "device", "offline"} /\ 0 \in 0 .. MaxPort
  BY <1>1, BoundsAssumption DEF Rows
<1>3. Read(s) = [[row[s] EXCEPT !.port = 0] EXCEPT !.st = st]
  BY <1>1 DEF Read, Rows
<1> HIDE DEF st
<1>4. [row[s] EXCEPT !.port = 0] \in Rows /\ [row[s] EXCEPT !.port = 0].hw = row[s].hw
  BY <1>1, <1>2 DEF Rows
<1> QED
  BY <1>2, <1>3, <1>4 DEF Rows

LEMMA PlaceholderType ==
  ASSUME NEW s, NEW st \in {"device", "offline"}, NEW old \in Rows
  PROVE  Placeholder(s, st, old) \in Rows /\ Placeholder(s, st, old).hw = old.hw
  BY BoundsAssumption DEF Placeholder, Rows

\* An upsert changes one row, of which it keeps the port, and the mark if there
\* was one (upsert_device, ON CONFLICT).
LEMMA UpsertRows ==
  ASSUME NEW R \in Tables, NEW s \in Serials, NEW new \in Rows
  PROVE  LET U == Upsert(R, s, new)
         IN  /\ U \in Tables
             /\ \A x \in Serials : /\ U[x].port = R[x].port
                                   /\ R[x].st # "absent" => U[x].flag = R[x].flag
                                   /\ x # s => U[x] = R[x]
             /\ U[s].st = new.st /\ U[s].hw = new.hw
  BY DEF Upsert, Tables, Rows

LEMMA MarkType ==
  ASSUME TypeOK, NEW S, MarkOffline(S)
  PROVE  row' \in Tables
<1>1. \A s \in Serials : [row[s] EXCEPT !.st = "offline"] \in Rows /\ row[s] \in Rows
  BY DEF TypeOK, Rows
<1> QED
  BY <1>1 DEF MarkOffline, Tables

LEMMA PortAndFlagType ==
  ASSUME NEW r \in Rows, NEW n \in 0 .. MaxPort, NEW answers \in BOOLEAN
  PROVE  LET new == PortAndFlag(r, n, answers)
         IN  /\ new \in Rows
             /\ new.port = n /\ (r.flag => new.flag)
             /\ new.hw = r.hw /\ new.st = r.st
<1>1. CASE answers
  <2>1. PortAndFlag(r, n, answers) = [r EXCEPT !.port = n]
    BY <1>1 DEF PortAndFlag, Rows
  <2> QED  BY <2>1 DEF Rows
<1>2. CASE ~answers
  <2>1. PortAndFlag(r, n, answers) = [r EXCEPT !.port = n, !.flag = TRUE]
    BY <1>2 DEF PortAndFlag, Rows
  <2> QED  BY <2>1 DEF Rows
<1> QED
  BY <1>1, <1>2

LEMMA OldPortsType ==
  ASSUME NEW R \in Tables, NEW O \in SUBSET Serials, NEW n \in OldPorts(R, O)
  PROVE  /\ n \in 0 .. MaxPort
         /\ n # 0 => \E o \in O : R[o].port = n
         /\ (\E o \in O : R[o].port # 0) => n # 0
  BY BoundsAssumption DEF OldPorts, Tables, Rows

\* A merge removes the rows O and hands a port of theirs to a row without one
\* (reconcile_device_by_hw_serial).
LEMMA MergedRows ==
  ASSUME NEW R \in Tables, NEW s \in Serials, NEW O \in SUBSET (Serials \ {s}), NEW n \in OldPorts(R, O)
  PROVE  LET M == Merged(R, s, O, n)
         IN  /\ M \in Tables
             /\ \A o \in O : M[o] = NoRow(o)
             /\ \A x \in Serials \ (O \cup {s}) : M[x] = R[x]
             /\ M[s].hw = R[s].hw /\ M[s].st = R[s].st /\ M[s].flag = R[s].flag
             /\ M[s].port = IF R[s].st # "absent" /\ R[s].port = 0 THEN n ELSE R[s].port
<1>1. n \in 0 .. MaxPort
  BY OldPortsType
<1> QED
  BY <1>1, NoRowType DEF Merged, Tables, Rows

\* A port is handed over, never copied.
LEMMA MergedPorts ==
  ASSUME NEW R \in Tables, NEW s \in Serials, NEW O \in SUBSET (Serials \ {s}), NEW n \in OldPorts(R, O),
         UniquePorts(R)
  PROVE  UniquePorts(Merged(R, s, O, n))
<1> DEFINE M == Merged(R, s, O, n)
<1>1. /\ \A o \in O : M[o].port = 0
      /\ \A x \in Serials \ (O \cup {s}) : M[x].port = R[x].port
      /\ M[s].port = R[s].port \/ M[s].port = n
  <2>1. \A o \in O : NoRow(o).port = 0
    BY DEF NoRow
  <2>2. \A o \in O : M[o] = NoRow(o)
    BY MergedRows
  <2> QED  BY <2>1, <2>2, MergedRows
<1>2. n # 0 => \E o \in O : R[o].port = n
  BY OldPortsType
<1> HIDE DEF M
<1>3. UniquePorts(M)
  BY <1>1, <1>2 DEF UniquePorts
<1> QED
  BY <1>3 DEF M

LEMMA NoRowFields == \A s : NoRow(s).hw = s /\ NoRow(s).st = "absent" /\ NoRow(s).port = 0
  BY DEF NoRow

\* The rows W are those that are left; each stands for one phone, and a port it
\* has not had was one of a row of that phone that is gone.
LeftOver(W) ==
  /\ \A s \in Serials \ W : row'[s] = NoRow(s)
  /\ \A v, w \in W : row[v].hw = row[w].hw => v = w
  /\ \A w \in W :
       /\ row'[w].hw = row[w].hw /\ row'[w].flag = row[w].flag
       /\ row[w].port # 0 => row'[w].port = row[w].port
       /\ row[w].port = 0 /\ row'[w].port # 0 =>
            \E o \in Serials \ W : row[o].hw = row[w].hw /\ row[o].port = row'[w].port

\* A start keeps one row of each phone, which takes over a port of those that go
\* if it has none (dedupe_devices_by_hw_serial).
LEMMA DedupeRows ==
  ASSUME TypeOK, Dedupe
  PROVE  row' \in Tables /\ \E W \in SUBSET Serials : LeftOver(W)
<1>1. PICK W \in SUBSET Kept : \E n \in [W -> 0 .. MaxPort] : Leaves(W, n)
  BY DEF Dedupe
<1>2. PICK port \in [W -> 0 .. MaxPort] : Leaves(W, port)
  BY <1>1
<1>3. W \in SUBSET Serials /\ row \in Tables
  BY DEF Kept, TypeOK, Tables
<1>4. \A w \in W : /\ [row[w] EXCEPT !.st = "offline", !.port = port[w]] \in Rows
                   /\ row'[w] = [row[w] EXCEPT !.st = "offline", !.port = port[w]]
  <2> SUFFICES ASSUME NEW w \in W
               PROVE  /\ [row[w] EXCEPT !.st = "offline", !.port = port[w]] \in Rows
                      /\ row'[w] = [row[w] EXCEPT !.st = "offline", !.port = port[w]]
    OBVIOUS
  <2>1. row[w] \in Rows /\ port[w] \in 0 .. MaxPort
    BY <1>3 DEF Tables
  <2>2. row'[w] = [row[w] EXCEPT !.st = "offline", !.port = port[w]]
    BY <1>2, <1>3 DEF Leaves
  <2> QED  BY <2>1, <2>2 DEF Rows
<1>5. \A s \in Serials \ W : row'[s] = NoRow(s)
  BY <1>2 DEF Leaves
<1>6. row' \in Tables
  <2>1. \A s \in Serials : row'[s] \in Rows
    BY <1>4, <1>5, NoRowType
  <2> QED  BY <1>2, <2>1 DEF Leaves, Tables
<1>7. \A w \in W : row'[w].hw = row[w].hw /\ row'[w].flag = row[w].flag /\ row'[w].port = port[w]
  BY <1>3, <1>4 DEF Tables, Rows
<1>8. ASSUME NEW w \in W, row[w].port = 0, port[w] # 0
      PROVE  \E o \in Serials \ W : row[o].hw = row[w].hw /\ row[o].port = port[w]
  <2> DEFINE O == Kept \cap OldRows(row, w, row[w].hw)
  <2>1. port[w] \in OldPorts(row, O)
    BY <1>2, <1>8 DEF Leaves
  <2>2. \A o \in O : o \in Serials \ W /\ row[o].hw = row[w].hw
    BY <1>2 DEF Leaves, OldRows
  <2> HIDE DEF O
  <2>3. \E o \in O : row[o].port = port[w]
    BY <1>3, <1>8, <2>1, <2>2, OldPortsType
  <2> QED  BY <2>2, <2>3
<1>9. /\ \A w \in W : row[w].port # 0 => port[w] = row[w].port
      /\ \A v, w \in W : row[v].hw = row[w].hw => v = w
  BY <1>2 DEF Leaves
<1>10. LeftOver(W)
  BY <1>5, <1>7, <1>8, <1>9 DEF LeftOver
<1> QED
  BY <1>3, <1>6, <1>10

\* The statements of the adb server and of the commands keep their types.
LEMMA SetAdbType ==
  ASSUME TypeOK, NEW s \in Serials, NEW st \in {"none", "device", "offline"}, SetAdb(s, st)
  PROVE  /\ adb' \in [Serials -> {"none", "device", "offline"}]
         /\ reports' \in [Serials -> {"none", "device", "offline"}]
<1>1. adb' \in [Serials -> {"none", "device", "offline"}]
  BY DEF SetAdb, TypeOK
<1> QED
  BY <1>1 DEF SetAdb, TypeOK

LEMMA BeginType ==
  ASSUME TypeOK, NEW s \in Serials, NEW op \in {"add", "delete", "switch"}, Begin(s, op)
  PROVE  cmd' \in [Serials -> [op: {"none", "add", "delete", "switch", "tcpip", "again", "connected"}, old: Rows]]
<1>1. (IF op = "switch" THEN Read(s) ELSE NoRow(s)) \in Rows
  BY ReadType, NoRowType
<1> QED
  BY <1>1 DEF Begin, TypeOK

LEMMA OldRowsOf ==
  ASSUME NEW R, NEW s, NEW hw
  PROVE  OldRows(R, s, hw) \in SUBSET (Serials \ {s})
  BY DEF OldRows

-----------------------------------------------------------------------------
(* Types.                                                                  *)

LEMMA InitTypeOK == Init => TypeOK
  BY BoundsAssumption, NoRowType DEF Init, TypeOK, NoRow, NoCall, NoFetch, NoCmd, NoLease, Rows

\* Every step keeps the types.
LEMMA StepTypeOK == TypeOK /\ [Next]_vars => TypeOK'
<1> SUFFICES ASSUME TypeOK, [Next]_vars PROVE TypeOK'
  OBVIOUS
<1> USE BoundsAssumption, SerialsOfPhones, NoRowType, ReadType DEF NoCall, NoFetch, NoCmd, NoLease
<1>1. ASSUME NEW p \in Phones, Appears(p) PROVE TypeOK'
  BY <1>1 DEF Appears, SetAdb, Event, TypeOK, Rows, adbVars, monitorVars, engineVars
<1>2. ASSUME NEW p \in Phones, AddConnects(p) PROVE TypeOK'
  <2>1. SetAdb(Wifi(p), "device")
    BY <1>2 DEF AddConnects
  <2>2. adb' \in [Serials -> {"none", "device", "offline"}] /\ reports' \in [Serials -> {"none", "device", "offline"}]
    BY <2>1, SerialsOfPhones, SetAdbType
  <2>3. cmd' \in [Serials -> [op: {"none", "add", "delete", "switch", "tcpip", "again", "connected"}, old: Rows]]
    <3>1. Begin(Wifi(p), "add")
      BY <1>2 DEF AddConnects
    <3> QED  BY <3>1, SerialsOfPhones, BeginType
  <2> QED  BY <1>2, <2>2, <2>3 DEF AddConnects, Event, TypeOK, adbVars, monitorVars, engineVars
<1>3. ASSUME NEW p \in Phones, AddWrites(p) PROVE TypeOK'
  <2>1. Placeholder(Wifi(p), "offline", NoRow(Wifi(p))) \in Rows
    BY SerialsOfPhones, NoRowType, PlaceholderType DEF TypeOK
  <2>2. row' \in Tables
    BY <1>3, <2>1, SerialsOfPhones, UpsertRows DEF AddWrites, TypeOK, Tables
  <2> QED  BY <1>3, <2>2, SerialsOfPhones DEF AddWrites, Finish, TypeOK, Tables, adbVars, monitorVars, engineVars
<1>4. ASSUME NEW p \in Phones, DisconnectDeviceWifi(p) PROVE TypeOK'
  <2>1. SetAdb(Wifi(p), "none")
    BY <1>4 DEF DisconnectDeviceWifi
  <2>2. adb' \in [Serials -> {"none", "device", "offline"}] /\ reports' \in [Serials -> {"none", "device", "offline"}]
    BY <2>1, SerialsOfPhones, SetAdbType
  <2>3. cmd' \in [Serials -> [op: {"none", "add", "delete", "switch", "tcpip", "again", "connected"}, old: Rows]]
    <3>1. Begin(Wifi(p), "delete")
      BY <1>4 DEF DisconnectDeviceWifi
    <3> QED  BY <3>1, SerialsOfPhones, BeginType
  <2> QED  BY <1>4, <2>2, <2>3 DEF DisconnectDeviceWifi, Event, TypeOK, adbVars, monitorVars, engineVars
<1>5. ASSUME NEW p \in Phones, SwitchReads(p) PROVE TypeOK'
  <2>3. cmd' \in [Serials -> [op: {"none", "add", "delete", "switch", "tcpip", "again", "connected"}, old: Rows]]
    <3>1. Begin(Usb(p), "switch")
      BY <1>5 DEF SwitchReads
    <3> QED  BY <3>1, SerialsOfPhones, BeginType
  <2> QED  BY <1>5, <2>3 DEF SwitchReads, Event, TypeOK, adbVars, monitorVars, engineVars
<1>6. ASSUME NEW p \in Phones, SwitchTcpip(p) PROVE TypeOK'
  <2>1. PICK st \in {"offline", "none"} : SetAdb(Usb(p), st)
    BY <1>6 DEF SwitchTcpip
  <2>2. adb' \in [Serials -> {"none", "device", "offline"}] /\ reports' \in [Serials -> {"none", "device", "offline"}]
    BY <2>1, SerialsOfPhones, SetAdbType
  <2> QED  BY <1>6, <2>2 DEF SwitchTcpip, TypeOK, monitorVars, engineVars
<1>7. ASSUME NEW p \in Phones, SwitchConnects(p) PROVE TypeOK'
  BY <1>7 DEF SwitchConnects, SetAdb, TypeOK, Rows, adbVars, monitorVars, engineVars
<1>8. ASSUME NEW p \in Phones, SwitchRestartsAdb(p) PROVE TypeOK'
  BY <1>8 DEF SwitchRestartsAdb, TypeOK, Rows, adbVars, monitorVars, engineVars
<1>9. ASSUME NEW p \in Phones, SwitchFails(p) PROVE TypeOK'
  BY <1>9 DEF SwitchFails, Finish, TypeOK, Rows, adbVars, monitorVars, engineVars
<1>10. ASSUME NEW p \in Phones, SwitchWrites(p) PROVE TypeOK'
  <2> DEFINE new == [cmd[Usb(p)].old EXCEPT !.st = "device"]
             R == Upsert(row, Wifi(p), new)
             O == OldRows(R, Wifi(p), cmd[Usb(p)].old.hw)
  <2>1. new \in Rows
    BY SerialsOfPhones DEF TypeOK, Rows
  <2>2. R \in Tables
    BY <2>1, SerialsOfPhones, UpsertRows DEF TypeOK, Tables
  <2>3. O \in SUBSET (Serials \ {Wifi(p)})
    BY OldRowsOf
  <2>4. \E n \in OldPorts(R, O) : row' = Merged(R, Wifi(p), O, n)
    BY <1>10 DEF SwitchWrites
  <2>5. row' \in Tables
    BY <2>2, <2>3, <2>4, SerialsOfPhones, MergedRows
  <2>6. ref' \in [Tasks -> Serials \cup {None}]
    BY <1>10, SerialsOfPhones DEF SwitchWrites, MoveRefs, TypeOK
  <2> QED  BY <1>10, <2>5, <2>6, SerialsOfPhones DEF SwitchWrites, Finish, TypeOK, Tables, adbVars, monitorVars
<1>11. ASSUME NEW p \in Phones, Kick(p) PROVE TypeOK'
  BY <1>11 DEF Kick, Event, DeleteRow, TypeOK, Rows, adbVars, monitorVars, engineVars
<1>12. ASSUME NEW s \in Serials, Drops(s) PROVE TypeOK'
  BY <1>12 DEF Drops, SetAdb, Event, TypeOK, Rows, adbVars, monitorVars, engineVars
<1>13. ASSUME NEW s \in Serials, TrackReads(s) PROVE TypeOK'
  <2>1. /\ reports[s] \in {"device", "offline"} /\ Read(s) \in Rows
        /\ cb' = [cb EXCEPT ![s] = [st |-> reports[s], old |-> Read(s)]]
        /\ reports' = [reports EXCEPT ![s] = "none"]
        /\ UNCHANGED <<adb, row, fetch, lastOnline, sweep, retries, cmd, engineVars, events>>
    BY <1>13 DEF TrackReads, TypeOK
  <2>2. cb' \in [Serials -> [st: {"none", "device", "offline", "checked"}, old: Rows]]
    BY <2>1 DEF TypeOK
  <2> QED  BY <2>1, <2>2 DEF TypeOK, engineVars
<1>14. ASSUME NEW s \in Serials, TrackChecks(s) PROVE TypeOK'
  BY <1>14 DEF TrackChecks, CallbackEnds, TypeOK, Rows, adbVars, monitorVars, engineVars
<1>15. ASSUME NEW s \in Serials, TrackOffline(s) PROVE TypeOK'
  <2>1. Placeholder(s, "offline", cb[s].old) \in Rows
    BY SerialsOfPhones, NoRowType, PlaceholderType DEF TypeOK
  <2>2. row' \in Tables
    BY <1>15, <2>1, SerialsOfPhones, UpsertRows DEF TrackOffline, TypeOK, Tables
  <2> QED  BY <1>15, <2>2, SerialsOfPhones DEF TrackOffline, CallbackEnds, TypeOK, Tables, adbVars, monitorVars, engineVars
<1>16. ASSUME NEW s \in Serials, TrackKnown(s) PROVE TypeOK'
  <2>1. row' \in Tables
    <3>1. [row[s] EXCEPT !.st = "device"] \in Rows
      BY DEF TypeOK, Rows
    <3> QED  BY <1>16, <3>1 DEF TrackKnown, TypeOK, Tables
  <2> QED  BY <1>16, <2>1 DEF TrackKnown, CallbackEnds, TypeOK, Tables, adbVars, engineVars
<1>17. ASSUME NEW s \in Serials, TrackFetches(s) PROVE TypeOK'
  BY <1>17 DEF TrackFetches, CallbackEnds, TypeOK, Rows, adbVars, monitorVars, engineVars
<1>18. ASSUME NEW s \in Serials, TrackPlaceholder(s) PROVE TypeOK'
  <2>1. Placeholder(s, "device", cb[s].old) \in Rows
    BY SerialsOfPhones, NoRowType, PlaceholderType DEF TypeOK
  <2>2. row' \in Tables
    BY <1>18, <2>1, SerialsOfPhones, UpsertRows DEF TrackPlaceholder, TypeOK, Tables
  <2> QED  BY <1>18, <2>2, SerialsOfPhones DEF TrackPlaceholder, CallbackEnds, TypeOK, Tables, adbVars, monitorVars, engineVars
<1>19. ASSUME NEW s \in Serials, FetchReads(s) PROVE TypeOK'
  BY <1>19 DEF FetchReads, TypeOK, Rows, adbVars, monitorVars, engineVars
<1>20. ASSUME NEW s \in Serials, FetchMerges(s) PROVE TypeOK'
  <2> DEFINE O == OldRows(row, s, fetch[s].hw)
  <2>1. PICK n \in OldPorts(row, O) : row' = Merged(row, s, O, n)
    BY <1>20 DEF FetchMerges
  <2>2. row \in Tables /\ O \in SUBSET (Serials \ {s})
    BY OldRowsOf DEF TypeOK, Tables
  <2> HIDE DEF O
  <2>3. row' \in Tables
    BY <2>1, <2>2, MergedRows
  <2>4. ref' \in [Tasks -> Serials \cup {None}]
    BY <1>20 DEF FetchMerges, MoveRefs, TypeOK
  <2>5. fetch' \in [Serials -> [at: {"idle", "shell", "merge", "write"}, hw: Serials, known: BOOLEAN]]
    <3>1. [fetch[s] EXCEPT !.at = "write"] \in [at: {"idle", "shell", "merge", "write"}, hw: Serials, known: BOOLEAN]
      <4>1. fetch[s] \in [at: {"idle", "shell", "merge", "write"}, hw: Serials, known: BOOLEAN]
        BY DEF TypeOK
      <4> QED  BY <4>1
    <3> QED  BY <1>20, <3>1 DEF FetchMerges, TypeOK
  <2> QED  BY <1>20, <2>3, <2>4, <2>5 DEF FetchMerges, TypeOK, Tables, adbVars
<1>21. ASSUME NEW s \in Serials, FetchWrites(s) PROVE TypeOK'
  <2> DEFINE new == [hw |-> fetch[s].hw, st |-> "device", known |-> fetch[s].known,
                     flag |-> FALSE, port |-> 0]
  <2>1. new \in Rows
    BY DEF TypeOK, Rows
  <2>2. row' = Upsert(row, s, new)
    BY <1>21 DEF FetchWrites
  <2> HIDE DEF new
  <2>3. row' \in Tables
    BY <2>1, <2>2, UpsertRows DEF TypeOK, Tables
  <2> QED  BY <1>21, <2>3 DEF FetchWrites, TypeOK, Tables, NoFetch, adbVars, engineVars
<1>22. ASSUME NEW s \in Serials, ReconnectConnects(s) PROVE TypeOK'
  <2>1. /\ adb' \in [Serials -> {"none", "device", "offline"}]
        /\ reports' \in [Serials -> {"none", "device", "offline"}]
    <3>1. SetAdb(s, "device") \/ UNCHANGED adbVars
      BY <1>22 DEF ReconnectConnects
    <3> QED  BY <3>1, SetAdbType DEF adbVars, TypeOK
  <2> QED  BY <1>22, <2>1 DEF ReconnectConnects, TypeOK, engineVars
<1>23. ASSUME NEW s \in Serials, RemoveDisconnects(s) PROVE TypeOK'
  <2>1. /\ adb' \in [Serials -> {"none", "device", "offline"}]
        /\ reports' \in [Serials -> {"none", "device", "offline"}]
    <3>1. SetAdb(s, "none") \/ UNCHANGED adbVars
      BY <1>23 DEF RemoveDisconnects
    <3> QED  BY <3>1, SetAdbType DEF adbVars, TypeOK
  <2>3. cmd' \in [Serials -> [op: {"none", "add", "delete", "switch", "tcpip", "again", "connected"}, old: Rows]]
    <3>1. Begin(s, "delete")
      BY <1>23 DEF RemoveDisconnects
    <3> QED  BY <3>1, BeginType
  <2> QED  BY <1>23, <2>1, <2>3 DEF RemoveDisconnects, Event, TypeOK, monitorVars, engineVars
<1>24. ASSUME NEW s \in Serials, CommandDeletes(s) PROVE TypeOK'
  BY <1>24 DEF CommandDeletes, Finish, DeleteRow, TypeOK, Rows, adbVars, monitorVars, engineVars
<1>25. ASSUME NEW s \in Serials, NEW flag \in BOOLEAN, SetFlag(s, flag) PROVE TypeOK'
  <2>1. row' \in Tables
    <3>0. row[s] \in Rows
      BY DEF TypeOK
    <3>1. [row[s] EXCEPT !.flag = flag] \in Rows
      BY <3>0 DEF Rows
    <3> QED  BY <1>25, <3>1 DEF SetFlag, TypeOK, Tables
  <2> QED  BY <1>25, <2>1 DEF SetFlag, Event, TypeOK, Tables, adbVars, monitorVars, engineVars
<1>26. ASSUME SweepReads PROVE TypeOK'
  BY <1>26 DEF SweepReads, Online, TypeOK, Rows, adbVars, monitorVars, engineVars
<1>27. ASSUME SweepMarks PROVE TypeOK'
  <2>1. row' \in Tables
    BY <1>27, MarkType DEF SweepMarks
  <2> QED  BY <1>27, <2>1 DEF SweepMarks, TypeOK, Tables, adbVars, engineVars
<1>28. ASSUME ReconnectReads PROVE TypeOK'
  BY <1>28 DEF ReconnectReads, OfflineWifi, TypeOK, Rows, adbVars, monitorVars, engineVars
<1>29. ASSUME NEW t \in Tasks, StartPicks(t) PROVE TypeOK'
  BY <1>29 DEF StartPicks, TypeOK, Rows, adbVars, monitorVars, engineVars
<1>30. ASSUME NEW t \in Tasks, StartLeases(t) PROVE TypeOK'
  <2> DEFINE s == pick[t]
  <2>1. s \in Serials
    BY <1>30 DEF StartLeases, TypeOK
  <2>2. PICK n \in 1 .. MaxPort, answers \in BOOLEAN :
          /\ row' = [row EXCEPT ![s] = IF Exists(s) THEN PortAndFlag(row[s], n, answers) ELSE row[s]]
          /\ \/ lease' = [lease EXCEPT ![t] = [dev |-> s, port |-> n]] /\ ref' = [ref EXCEPT ![t] = s]
             \/ UNCHANGED <<lease, ref>>
    BY <1>30 DEF StartLeases
  <2>3. row[s] \in Rows /\ n \in 0 .. MaxPort
    BY <2>1 DEF TypeOK
  <2>4. row' \in Tables
    <3>1. PortAndFlag(row[s], n, answers) \in Rows
      BY <2>3, PortAndFlagType
    <3> QED  BY <2>1, <2>2, <2>3, <3>1 DEF TypeOK, Tables
  <2>5. lease' \in [Tasks -> [dev: Serials \cup {None}, port: 0 .. MaxPort]]
    <3>1. [dev |-> s, port |-> n] \in [dev: Serials \cup {None}, port: 0 .. MaxPort]
      BY <2>1, <2>3
    <3> HIDE DEF s
    <3> QED  BY <2>2, <3>1 DEF TypeOK
  <2>6. ref' \in [Tasks -> Serials \cup {None}]
    BY <2>1, <2>2 DEF TypeOK
  <2> QED  BY <1>30, <2>4, <2>5, <2>6 DEF StartLeases, TypeOK, Tables, adbVars, monitorVars
<1>31. ASSUME NEW t \in Tasks, Release(t) PROVE TypeOK'
  BY <1>31 DEF Release, TypeOK, Rows, adbVars, monitorVars, engineVars
<1>32. ASSUME NEW t \in Tasks, Persist(t) PROVE TypeOK'
  BY <1>32 DEF Persist, TypeOK, Rows, adbVars, monitorVars, engineVars
<1>33. ASSUME NEW newDay \in BOOLEAN, Restart(newDay) PROVE TypeOK'
  <2>1. row' \in Tables
    BY <1>33, DedupeRows, NoRowType DEF Restart, Tables
  <2> QED  BY <1>33, <2>1 DEF Restart, Event, TypeOK, Tables
<1>34. CASE UNCHANGED vars
  BY <1>34 DEF vars, TypeOK, Rows, adbVars, monitorVars, engineVars
<1> QED
  BY <1>1, <1>2, <1>3, <1>4, <1>5, <1>6, <1>7, <1>8, <1>9, <1>10, <1>11, <1>12, <1>13, <1>14,
     <1>15, <1>16, <1>17, <1>18, <1>19, <1>20, <1>21, <1>22, <1>23, <1>24, <1>25, <1>26,
     <1>27, <1>28, <1>29, <1>30, <1>31, <1>32, <1>33, <1>34
    DEF Next, MonitorStep, CommandStep

\* Every reachable state is one of the declared types.
THEOREM TypeCorrect == Spec => []TypeOK
  BY InitTypeOK, StepTypeOK, PTL DEF Spec

-----------------------------------------------------------------------------
(* Ports.                                                                  *)

\* Who writes the table.
RowWritten ==
  \/ \E p \in Phones : AddWrites(p) \/ SwitchWrites(p) \/ Kick(p)
  \/ \E s \in Serials :
       \/ TrackOffline(s) \/ TrackKnown(s) \/ TrackPlaceholder(s)
       \/ FetchMerges(s) \/ FetchWrites(s) \/ CommandDeletes(s)
       \/ \E flag \in BOOLEAN : SetFlag(s, flag)
  \/ SweepMarks
  \/ \E t \in Tasks : StartLeases(t)
  \/ \E newDay \in BOOLEAN : Restart(newDay)

LEMMA RowWriters == [Next]_vars => RowWritten \/ UNCHANGED row
  BY DEF Next, MonitorStep, CommandStep, RowWritten, vars, monitorVars, engineVars,
         Appears, AddConnects, DisconnectDeviceWifi, SwitchReads, SwitchTcpip, SwitchConnects,
         SwitchRestartsAdb, SwitchFails, Drops, TrackReads, TrackChecks, TrackFetches, FetchReads,
         ReconnectConnects, RemoveDisconnects, SweepReads, ReconnectReads, StartPicks, Release, Persist

\* Who writes what the tasks are assigned.
AssignmentWritten ==
  \/ \E p \in Phones : SwitchWrites(p) \/ Kick(p)
  \/ \E s \in Serials : FetchMerges(s)
  \/ \E t \in Tasks : StartLeases(t) \/ Release(t) \/ Persist(t)
  \/ \E newDay \in BOOLEAN : Restart(newDay)

LEMMA AssignmentWriters == [Next]_vars => AssignmentWritten \/ UNCHANGED <<lease, ref>>
  BY DEF Next, MonitorStep, CommandStep, AssignmentWritten, vars, engineVars,
         Appears, AddConnects, AddWrites, DisconnectDeviceWifi, SwitchReads, SwitchTcpip, SwitchConnects,
         SwitchRestartsAdb, SwitchFails, Drops, TrackReads, TrackChecks, TrackOffline, TrackKnown,
         TrackFetches, TrackPlaceholder, FetchReads, FetchWrites, ReconnectConnects, RemoveDisconnects,
         CommandDeletes, SetFlag, SweepReads, SweepMarks, ReconnectReads, StartPicks

LEMMA UpsertPorts ==
  ASSUME NEW R \in Tables, NEW s \in Serials, NEW new \in Rows, UniquePorts(R)
  PROVE  UniquePorts(Upsert(R, s, new))
<1>1. \A x \in Serials : Upsert(R, s, new)[x].port = R[x].port
  BY DEF Upsert, Tables, Rows
<1> DEFINE U == Upsert(R, s, new)
<1>2. \A x \in Serials : U[x].port = R[x].port
  BY <1>1
<1> HIDE DEF U
<1>3. UniquePorts(U)
  BY <1>2 DEF UniquePorts
<1> QED
  BY <1>3 DEF U

\* Deleting rows, or writing other columns of theirs, shares no port.
LEMMA FewerPorts ==
  ASSUME UniquePorts(row), \A x \in Serials : row'[x].port \in {row[x].port, 0}
  PROVE  UniquePorts(row')
  BY DEF UniquePorts

\* A port is given once: assign_device_port takes a new one, a merge hands one over.
LEMMA StepPorts == TypeOK /\ UniquePorts(row) /\ [Next]_vars => UniquePorts(row')
<1> SUFFICES ASSUME TypeOK, UniquePorts(row), [Next]_vars PROVE UniquePorts(row')
  OBVIOUS
<1>1. ASSUME NEW p \in Phones, AddWrites(p) PROVE UniquePorts(row')
  <2>1. Placeholder(Wifi(p), "offline", NoRow(Wifi(p))) \in Rows
    BY SerialsOfPhones, NoRowType, PlaceholderType DEF TypeOK
  <2> QED  BY <1>1, <2>1, SerialsOfPhones, UpsertPorts DEF AddWrites, TypeOK, Tables
<1>2. ASSUME NEW p \in Phones, SwitchWrites(p) PROVE UniquePorts(row')
  <2> DEFINE new == [cmd[Usb(p)].old EXCEPT !.st = "device"]
             R == Upsert(row, Wifi(p), new)
             O == OldRows(R, Wifi(p), cmd[Usb(p)].old.hw)
  <2>1. new \in Rows
    BY SerialsOfPhones DEF TypeOK, Rows
  <2>2. R \in Tables /\ UniquePorts(R)
    BY <2>1, SerialsOfPhones, UpsertRows, UpsertPorts DEF TypeOK, Tables
  <2>3. O \in SUBSET (Serials \ {Wifi(p)})
    BY OldRowsOf
  <2>4. \E n \in OldPorts(R, O) : row' = Merged(R, Wifi(p), O, n)
    BY <1>2 DEF SwitchWrites
  <2> HIDE DEF R, O
  <2> QED  BY <2>2, <2>3, <2>4, SerialsOfPhones, MergedPorts
<1>3. ASSUME NEW p \in Phones, Kick(p) PROVE UniquePorts(row')
  <2>1. \A x \in Serials : row'[x].port \in {row[x].port, 0}
    BY <1>3 DEF Kick, DeleteRow, TypeOK, NoRow
  <2> QED  BY <2>1, FewerPorts
<1>4. ASSUME NEW s \in Serials, TrackOffline(s) PROVE UniquePorts(row')
  <2>1. Placeholder(s, "offline", cb[s].old) \in Rows
    BY SerialsOfPhones, NoRowType, PlaceholderType DEF TypeOK
  <2> QED  BY <1>4, <2>1, SerialsOfPhones, UpsertPorts DEF TrackOffline, TypeOK, Tables
<1>5. ASSUME NEW s \in Serials, TrackKnown(s) PROVE UniquePorts(row')
  <2>1. \A x \in Serials : row'[x].port \in {row[x].port, 0}
    BY <1>5 DEF TrackKnown, TypeOK, NoRow
  <2> QED  BY <2>1, FewerPorts
<1>6. ASSUME NEW s \in Serials, TrackPlaceholder(s) PROVE UniquePorts(row')
  <2>1. Placeholder(s, "device", cb[s].old) \in Rows
    BY SerialsOfPhones, NoRowType, PlaceholderType DEF TypeOK
  <2> QED  BY <1>6, <2>1, SerialsOfPhones, UpsertPorts DEF TrackPlaceholder, TypeOK, Tables
<1>7. ASSUME NEW s \in Serials, FetchMerges(s) PROVE UniquePorts(row')
  <2> DEFINE O == OldRows(row, s, fetch[s].hw)
  <2>1. PICK n \in OldPorts(row, O) : row' = Merged(row, s, O, n)
    BY <1>7 DEF FetchMerges
  <2>2. row \in Tables /\ O \in SUBSET (Serials \ {s})
    BY OldRowsOf DEF TypeOK, Tables
  <2> HIDE DEF O
  <2> QED  BY <2>1, <2>2, MergedPorts
<1>8. ASSUME NEW s \in Serials, FetchWrites(s) PROVE UniquePorts(row')
  <2> DEFINE new == [hw |-> fetch[s].hw, st |-> "device", known |-> fetch[s].known,
                     flag |-> FALSE, port |-> 0]
  <2>1. new \in Rows
    BY BoundsAssumption DEF TypeOK, Rows
  <2>2. row' = Upsert(row, s, new)
    BY <1>8 DEF FetchWrites
  <2> HIDE DEF new
  <2> QED  BY <2>1, <2>2, UpsertPorts DEF TypeOK, Tables
<1>9. ASSUME NEW s \in Serials, CommandDeletes(s) PROVE UniquePorts(row')
  <2>1. \A x \in Serials : row'[x].port \in {row[x].port, 0}
    BY <1>9 DEF CommandDeletes, DeleteRow, TypeOK, NoRow
  <2> QED  BY <2>1, FewerPorts
<1>10. ASSUME NEW s \in Serials, NEW flag \in BOOLEAN, SetFlag(s, flag) PROVE UniquePorts(row')
  <2>1. \A x \in Serials : row'[x].port \in {row[x].port, 0}
    BY <1>10 DEF SetFlag, TypeOK, NoRow
  <2> QED  BY <2>1, FewerPorts
<1>11. ASSUME SweepMarks PROVE UniquePorts(row')
  <2>1. \A x \in Serials : row'[x].port \in {row[x].port, 0}
    BY <1>11 DEF SweepMarks, MarkOffline, TypeOK, NoRow
  <2> QED  BY <2>1, FewerPorts
<1>12. ASSUME NEW t \in Tasks, StartLeases(t) PROVE UniquePorts(row')
  <2>1. pick[t] \in Serials /\ row \in Tables
    BY <1>12 DEF StartLeases, TypeOK, Tables
  <2>2. PICK n \in 1 .. MaxPort, answers \in BOOLEAN :
          /\ IF row[pick[t]].port # 0 THEN n = row[pick[t]].port ELSE IsNextPort(row, n)
          /\ row' = [row EXCEPT ![pick[t]] = IF Exists(pick[t]) THEN PortAndFlag(row[pick[t]], n, answers)
                                             ELSE row[pick[t]]]
    BY <1>12 DEF StartLeases
  <2>3. /\ row'[pick[t]].port \in {n, row[pick[t]].port}
        /\ \A x \in Serials \ {pick[t]} : row'[x] = row[x]
    <3>1. PortAndFlag(row[pick[t]], n, answers).port = n
      BY <2>1, PortAndFlagType DEF Tables
    <3> QED  BY <2>1, <2>2, <3>1 DEF Tables
  <2>4. \A x \in Serials \ {pick[t]} : row[x].port # n
    <3>1. CASE row[pick[t]].port # 0
      BY <2>1, <2>2, <3>1 DEF UniquePorts
    <3>2. CASE IsNextPort(row, n)
      <4>1. \A x \in Serials : row[x].port < n /\ row[x].port \in Nat
        BY <3>2 DEF IsNextPort, TypeOK, Rows
      <4> QED  BY <4>1
    <3> QED  BY <2>2, <3>1, <3>2
  <2> QED  BY <2>1, <2>3, <2>4 DEF UniquePorts
<1>13. ASSUME NEW newDay \in BOOLEAN, Restart(newDay) PROVE UniquePorts(row')
  <2>1. CASE newDay
    BY <1>13, <2>1 DEF Restart, NoRow, UniquePorts
  <2>2. CASE ~newDay
    <3>1. Dedupe
      BY <1>13, <2>2 DEF Restart
    <3>2. PICK W \in SUBSET Serials : LeftOver(W)
      BY <3>1, DedupeRows
    <3>3. \A s \in Serials : row'[s].port # 0 => s \in W
      BY <3>2, NoRowFields DEF LeftOver
    <3> QED  BY <3>2, <3>3 DEF LeftOver, UniquePorts
  <2> QED  BY <2>1, <2>2
<1>14. CASE UNCHANGED row
  BY <1>14 DEF UniquePorts
<1> QED
  BY <1>1, <1>2, <1>3, <1>4, <1>5, <1>6, <1>7, <1>8, <1>9, <1>10, <1>11, <1>12, <1>13, <1>14,
     RowWriters
    DEF RowWritten

\* No two rows hold one local port (assign_device_port, reconcile_device_by_hw_serial).
THEOREM PortsNeverShared == Spec => []PortsUnique
<1>1. Init => TypeOK /\ UniquePorts(row)
  <2>1. Init => UniquePorts(row)
    BY DEF Init, UniquePorts, NoRow
  <2> QED  BY <2>1, InitTypeOK
<1>2. TypeOK /\ UniquePorts(row) /\ [Next]_vars => (TypeOK /\ UniquePorts(row))'
  BY StepTypeOK, StepPorts DEF UniquePorts
<1>3. TypeOK /\ UniquePorts(row) => PortsUnique
  BY DEF UniquePorts, PortsUnique
<1> QED
  BY <1>1, <1>2, <1>3, PTL DEF Spec

-----------------------------------------------------------------------------
(* The mark and the port of a row that stays.                              *)

Keeps(R, M) ==
  \A s \in Serials :
    R[s].st # "absent" /\ M[s].st # "absent" =>
      /\ R[s].port # 0 => M[s].port = R[s].port
      /\ R[s].flag => M[s].flag

KeepsFlagAndPort ==
  \A s \in Serials : Exists(s) /\ Exists(s)' =>
    /\ row[s].port # 0 => row'[s].port = row[s].port
    /\ row[s].flag => row'[s].flag \/ SetFlag(s, FALSE)

LEMMA KeepsIsEnough == Keeps(row, row') => KeepsFlagAndPort
  BY DEF Keeps, KeepsFlagAndPort, Exists

LEMMA UpsertKeeps ==
  ASSUME NEW R \in Tables, NEW s \in Serials, NEW new \in Rows
  PROVE  Keeps(R, Upsert(R, s, new))
<1> DEFINE U == Upsert(R, s, new)
<1>1. \A x \in Serials : U[x].port = R[x].port /\ (R[x].st # "absent" => U[x].flag = R[x].flag)
  BY DEF Upsert, Tables, Rows
<1> HIDE DEF U
<1>2. Keeps(R, U)
  BY <1>1 DEF Keeps
<1> QED
  BY <1>2 DEF U

LEMMA MergedKeeps ==
  ASSUME NEW R \in Tables, NEW s \in Serials, NEW O \in SUBSET (Serials \ {s}), NEW n \in OldPorts(R, O)
  PROVE  Keeps(R, Merged(R, s, O, n))
<1> DEFINE M == Merged(R, s, O, n)
<1>1. /\ \A o \in O : M[o] = NoRow(o)
      /\ \A x \in Serials \ (O \cup {s}) : M[x] = R[x]
      /\ M[s].flag = R[s].flag
      /\ M[s].port = IF R[s].st # "absent" /\ R[s].port = 0 THEN n ELSE R[s].port
  BY MergedRows
<1>2. \A o \in O : M[o].st = "absent"
  <2>1. \A o \in O : NoRow(o).st = "absent"
    BY DEF NoRow
  <2> HIDE DEF M
  <2> QED  BY <1>1, <2>1
<1> HIDE DEF M
<1>3. Keeps(R, M)
  BY <1>1, <1>2 DEF Keeps
<1> QED
  BY <1>3 DEF M

\* Every step but the user's keeps the mark, and every step keeps the port.
LEMMA StepKeeps == TypeOK /\ [Next]_vars => KeepsFlagAndPort
<1> SUFFICES ASSUME TypeOK, [Next]_vars PROVE KeepsFlagAndPort
  OBVIOUS
<1>1. ASSUME NEW p \in Phones, AddWrites(p) PROVE KeepsFlagAndPort
  <2>1. Placeholder(Wifi(p), "offline", NoRow(Wifi(p))) \in Rows
    BY SerialsOfPhones, NoRowType, PlaceholderType DEF TypeOK
  <2> QED  BY <1>1, <2>1, SerialsOfPhones, UpsertKeeps, KeepsIsEnough DEF AddWrites, TypeOK, Tables
<1>2. ASSUME NEW p \in Phones, SwitchWrites(p) PROVE KeepsFlagAndPort
  <2> DEFINE new == [cmd[Usb(p)].old EXCEPT !.st = "device"]
             R == Upsert(row, Wifi(p), new)
             O == OldRows(R, Wifi(p), cmd[Usb(p)].old.hw)
  <2>1. new \in Rows
    BY SerialsOfPhones DEF TypeOK, Rows
  <2>2. R \in Tables
    BY <2>1, SerialsOfPhones, UpsertRows DEF TypeOK, Tables
  <2>3. O \in SUBSET (Serials \ {Wifi(p)})
    BY OldRowsOf
  <2>4. PICK n \in OldPorts(R, O) : row' = Merged(R, Wifi(p), O, n)
    BY <1>2 DEF SwitchWrites
  <2>5. Keeps(row, R) /\ (\A x \in Serials : row[x].st # "absent" => R[x].st # "absent")
    <3>1. \A x \in Serials \ {Wifi(p)} : R[x] = row[x]
      BY DEF Upsert, TypeOK
    <3>2. R[Wifi(p)].st = "device"
      BY <2>1, SerialsOfPhones DEF Upsert, TypeOK, Tables, Rows
    <3>3. Keeps(row, R)
      BY <2>1, SerialsOfPhones, UpsertKeeps DEF TypeOK, Tables
    <3> HIDE DEF R
    <3> QED  BY <3>1, <3>2, <3>3
  <2> HIDE DEF R, O
  <2>6. Keeps(R, row')
    BY <2>2, <2>3, <2>4, SerialsOfPhones, MergedKeeps
  <2>7. Keeps(row, row')
    BY <2>5, <2>6 DEF Keeps
  <2> QED  BY <2>7, KeepsIsEnough
<1>3. ASSUME NEW p \in Phones, Kick(p) PROVE KeepsFlagAndPort
  <2>1. Keeps(row, row')
    BY <1>3 DEF Kick, DeleteRow, Keeps, TypeOK, Rows, NoRow
  <2> QED  BY <2>1, KeepsIsEnough
<1>4. ASSUME NEW s \in Serials, TrackOffline(s) PROVE KeepsFlagAndPort
  <2>1. Placeholder(s, "offline", cb[s].old) \in Rows
    BY SerialsOfPhones, NoRowType, PlaceholderType DEF TypeOK
  <2> QED  BY <1>4, <2>1, SerialsOfPhones, UpsertKeeps, KeepsIsEnough DEF TrackOffline, TypeOK, Tables
<1>5. ASSUME NEW s \in Serials, TrackKnown(s) PROVE KeepsFlagAndPort
  <2>1. Keeps(row, row')
    BY <1>5 DEF TrackKnown, Keeps, TypeOK, Rows, NoRow
  <2> QED  BY <2>1, KeepsIsEnough
<1>6. ASSUME NEW s \in Serials, TrackPlaceholder(s) PROVE KeepsFlagAndPort
  <2>1. Placeholder(s, "device", cb[s].old) \in Rows
    BY SerialsOfPhones, NoRowType, PlaceholderType DEF TypeOK
  <2> QED  BY <1>6, <2>1, SerialsOfPhones, UpsertKeeps, KeepsIsEnough DEF TrackPlaceholder, TypeOK, Tables
<1>7. ASSUME NEW s \in Serials, FetchMerges(s) PROVE KeepsFlagAndPort
  <2> DEFINE O == OldRows(row, s, fetch[s].hw)
  <2>1. PICK n \in OldPorts(row, O) : row' = Merged(row, s, O, n)
    BY <1>7 DEF FetchMerges
  <2>2. row \in Tables /\ O \in SUBSET (Serials \ {s})
    BY OldRowsOf DEF TypeOK, Tables
  <2> HIDE DEF O
  <2> QED  BY <2>1, <2>2, MergedKeeps, KeepsIsEnough
<1>8. ASSUME NEW s \in Serials, FetchWrites(s) PROVE KeepsFlagAndPort
  <2> DEFINE new == [hw |-> fetch[s].hw, st |-> "device", known |-> fetch[s].known,
                     flag |-> FALSE, port |-> 0]
  <2>1. new \in Rows
    BY BoundsAssumption DEF TypeOK, Rows
  <2>2. row' = Upsert(row, s, new)
    BY <1>8 DEF FetchWrites
  <2> HIDE DEF new
  <2> QED  BY <2>1, <2>2, UpsertKeeps, KeepsIsEnough DEF TypeOK, Tables
<1>9. ASSUME NEW s \in Serials, CommandDeletes(s) PROVE KeepsFlagAndPort
  <2>1. Keeps(row, row')
    BY <1>9 DEF CommandDeletes, DeleteRow, Keeps, TypeOK, Rows, NoRow
  <2> QED  BY <2>1, KeepsIsEnough
<1>10. ASSUME NEW s \in Serials, NEW flag \in BOOLEAN, SetFlag(s, flag) PROVE KeepsFlagAndPort
  <2>1. row' = [row EXCEPT ![s].flag = flag]
    BY <1>10 DEF SetFlag
  <2>2. /\ row'[s].port = row[s].port /\ row'[s].flag = flag
        /\ \A x \in Serials \ {s} : row'[x] = row[x]
    BY <2>1 DEF TypeOK, Rows
  <2>3. CASE flag
    BY <2>2, <2>3 DEF KeepsFlagAndPort, Exists
  <2>4. CASE ~flag
    <3>1. SetFlag(s, FALSE)
      BY <1>10, <2>4
    <3> QED  BY <2>2, <3>1 DEF KeepsFlagAndPort, Exists
  <2> QED  BY <2>3, <2>4
<1>11. ASSUME SweepMarks PROVE KeepsFlagAndPort
  <2>1. Keeps(row, row')
    BY <1>11 DEF SweepMarks, MarkOffline, Keeps, TypeOK, Rows, NoRow
  <2> QED  BY <2>1, KeepsIsEnough
<1>12. ASSUME NEW t \in Tasks, StartLeases(t) PROVE KeepsFlagAndPort
  <2>1. pick[t] \in Serials /\ row \in Tables
    BY <1>12 DEF StartLeases, TypeOK, Tables
  <2>2. PICK n \in 1 .. MaxPort, answers \in BOOLEAN :
          /\ IF row[pick[t]].port # 0 THEN n = row[pick[t]].port ELSE IsNextPort(row, n)
          /\ row' = [row EXCEPT ![pick[t]] = IF Exists(pick[t]) THEN PortAndFlag(row[pick[t]], n, answers)
                                             ELSE row[pick[t]]]
    BY <1>12 DEF StartLeases
  <2>3. /\ PortAndFlag(row[pick[t]], n, answers).port = n
        /\ row[pick[t]].flag => PortAndFlag(row[pick[t]], n, answers).flag
    <3>1. n \in 0 .. MaxPort /\ row[pick[t]] \in Rows
      BY <2>1 DEF Tables
    <3> QED  BY <3>1, PortAndFlagType
  <2>4. Keeps(row, row')
    BY <2>1, <2>2, <2>3 DEF Keeps, Tables
  <2> QED  BY <2>4, KeepsIsEnough
<1>13. ASSUME NEW newDay \in BOOLEAN, Restart(newDay) PROVE KeepsFlagAndPort
  <2>1. CASE newDay
    BY <1>13, <2>1 DEF Restart, NoRow, KeepsFlagAndPort, Exists
  <2>2. CASE ~newDay
    <3>1. Dedupe
      BY <1>13, <2>2 DEF Restart
    <3>2. PICK W \in SUBSET Serials : LeftOver(W)
      BY <3>1, DedupeRows
    <3>3. Keeps(row, row')
      <4>1. \A s \in Serials \ W : row'[s].st = "absent"
        BY <3>2, NoRowFields DEF LeftOver
      <4>2. \A s \in W : row'[s].flag = row[s].flag /\ (row[s].port # 0 => row'[s].port = row[s].port)
        BY <3>2 DEF LeftOver
      <4> QED  BY <4>1, <4>2 DEF Keeps
    <3> QED  BY <3>3, KeepsIsEnough
  <2> QED  BY <2>1, <2>2
<1>14. CASE UNCHANGED row
  BY <1>14 DEF KeepsFlagAndPort, Exists
<1> QED
  BY <1>1, <1>2, <1>3, <1>4, <1>5, <1>6, <1>7, <1>8, <1>9, <1>10, <1>11, <1>12, <1>13, <1>14,
     RowWriters
    DEF RowWritten

\* As long as a row lives, neither the monitor nor a command takes its port or,
\* but for the user who takes it back, its mark (upsert_device, ON CONFLICT).
THEOREM FlagAndPortStay == Spec => RowKeepsFlagAndPort
<1>1. TypeOK /\ [Next]_vars => [KeepsFlagAndPort]_vars
  BY StepKeeps
<1> QED
  BY <1>1, TypeCorrect, PTL DEF Spec, RowKeepsFlagAndPort, KeepsFlagAndPort

-----------------------------------------------------------------------------
(* The end of a switch.                                                    *)

OneRow(p) ==
  LET hw   == cmd[Usb(p)].old.hw
      mine == {s \in Serials : Exists(s) /\ row[s].hw = hw}
  IN  /\ {s \in Serials : row'[s].st # "absent" /\ row'[s].hw = hw} = {Wifi(p)}
      /\ (\E s \in mine : row[s].port # 0) => row'[Wifi(p)].port # 0

\* The row is written before the others are merged into it, in one transaction.
LEMMA SwitchMerges ==
  ASSUME TypeOK, NEW p \in Phones, SwitchWrites(p)
  PROVE  OneRow(p)
<1> DEFINE new == [cmd[Usb(p)].old EXCEPT !.st = "device"]
           R == Upsert(row, Wifi(p), new)
           O == OldRows(R, Wifi(p), cmd[Usb(p)].old.hw)
<1>1. new \in Rows
  BY SerialsOfPhones DEF TypeOK, Rows
<1>2. R \in Tables
  BY <1>1, SerialsOfPhones, UpsertRows DEF TypeOK, Tables
<1>3. O \in SUBSET (Serials \ {Wifi(p)})
  BY OldRowsOf
<1>4. PICK n \in OldPorts(R, O) : row' = Merged(R, Wifi(p), O, n)
  BY DEF SwitchWrites
<1> DEFINE w == Wifi(p)
           hw == cmd[Usb(p)].old.hw
<1>5. /\ w \in Serials /\ R[w].st = "device" /\ R[w].hw = hw /\ R[w].port = row[w].port
      /\ \A x \in Serials \ {w} : R[x] = row[x]
  <2>1. new.st = "device" /\ new.hw = hw
    BY SerialsOfPhones DEF TypeOK, Rows
  <2>2. w \in Serials /\ R[w].port = row[w].port /\ R[w].st = new.st /\ R[w].hw = new.hw
    BY SerialsOfPhones DEF Upsert, TypeOK, Rows
  <2>3. \A x \in Serials \ {w} : R[x] = row[x]
    BY DEF Upsert, TypeOK
  <2> HIDE DEF R, new
  <2> QED  BY <2>1, <2>2, <2>3
<1>6. O = {o \in Serials \ {w} : R[o].st # "absent" /\ R[o].hw = hw}
  BY DEF OldRows
<1> HIDE DEF R, O, w, hw
<1>7. row' = Merged(R, w, O, n)
  BY <1>4 DEF w
<1>8. /\ \A o \in O : row'[o].st = "absent"
      /\ \A x \in Serials \ (O \cup {w}) : row'[x] = R[x]
      /\ row'[w].hw = hw /\ row'[w].st = "device"
      /\ row'[w].port = IF R[w].port = 0 THEN n ELSE R[w].port
  <2>1. O \in SUBSET (Serials \ {w})
    BY <1>3 DEF w
  <2>2. \A o \in O : NoRow(o).st = "absent"
    BY DEF NoRow
  <2> QED  BY <1>2, <1>5, <1>7, <2>1, <2>2, MergedRows
<1>9. {s \in Serials : row'[s].st # "absent" /\ row'[s].hw = hw} = {w}
  BY <1>5, <1>6, <1>8
<1>10. ASSUME NEW s \in Serials, Exists(s), row[s].hw = hw, row[s].port # 0
       PROVE  row'[w].port # 0
  <2>1. CASE s = w
    BY <1>5, <1>8, <1>10, <2>1
  <2>2. CASE s # w
    <3>1. s \in O /\ R[s].port # 0
      BY <1>5, <1>6, <1>10, <2>2 DEF Exists
    <3>2. n # 0
      BY <1>2, <1>6, <3>1, OldPortsType
    <3> QED  BY <1>8, <3>2
  <2> QED  BY <2>1, <2>2
<1> QED
  BY <1>9, <1>10 DEF OneRow, w, hw

\* A switch leaves the phone one row, under its address, with the port the phone
\* had, whatever the monitor has done since the row was read
\* (upsert_and_reconcile_by_hw_serial).
THEOREM SwitchLeavesOneRow == Spec => SwitchEndsInOneRow
<1>1. TypeOK => [\A p \in Phones : SwitchWrites(p) => OneRow(p)]_vars
  BY SwitchMerges
<1> QED
  BY <1>1, TypeCorrect, PTL DEF Spec, SwitchEndsInOneRow, OneRow

-----------------------------------------------------------------------------
(* What the tasks are assigned.                                            *)

\* A hardware serial, wherever it is kept, is one of the phone it is kept for.
TableSound(R) == \A s \in Serials : PhoneOf(R[s].hw) = PhoneOf(s)
IdentitySound ==
  /\ TableSound(row)
  /\ \A s \in Serials : /\ PhoneOf(cb[s].old.hw) = PhoneOf(s)
                        /\ PhoneOf(fetch[s].hw) = PhoneOf(s)
                        /\ PhoneOf(cmd[s].old.hw) = PhoneOf(s)

LEMMA UpsertSound ==
  ASSUME NEW R \in Tables, NEW s \in Serials, NEW new \in Rows, TableSound(R),
         PhoneOf(new.hw) = PhoneOf(s)
  PROVE  TableSound(Upsert(R, s, new))
<1> DEFINE U == Upsert(R, s, new)
<1>1. \A x \in Serials : U[x].hw = IF x = s THEN new.hw ELSE R[x].hw
  BY DEF Upsert, Tables, Rows
<1> HIDE DEF U
<1>2. TableSound(U)
  BY <1>1 DEF TableSound
<1> QED
  BY <1>2 DEF U

LEMMA MergedSound ==
  ASSUME NEW R \in Tables, NEW s \in Serials, NEW O \in SUBSET (Serials \ {s}), NEW n \in OldPorts(R, O),
         TableSound(R)
  PROVE  TableSound(Merged(R, s, O, n))
<1> DEFINE M == Merged(R, s, O, n)
<1>1. /\ \A o \in O : M[o] = NoRow(o)
      /\ \A x \in Serials \ (O \cup {s}) : M[x] = R[x]
      /\ M[s].hw = R[s].hw
  BY MergedRows
<1>2. \A o \in O : M[o].hw = o
  <2>1. \A o \in O : NoRow(o).hw = o
    BY DEF NoRow
  <2> HIDE DEF M
  <2> QED  BY <1>1, <2>1
<1> HIDE DEF M
<1>3. TableSound(M)
  BY <1>1, <1>2 DEF TableSound
<1> QED
  BY <1>3 DEF M

\* The phone answers with its own hardware serial, and a serial that stands for
\* one is of the phone, too.
LEMMA StepIdentity == TypeOK /\ IdentitySound /\ [Next]_vars => IdentitySound'
<1> SUFFICES ASSUME TypeOK, IdentitySound, [Next]_vars PROVE IdentitySound'
  OBVIOUS
<1> USE SerialsOfPhones
<1>1. ASSUME NEW p \in Phones, Appears(p) PROVE IdentitySound'
  BY <1>1
    DEF Appears, SetAdb, Event, IdentitySound, TableSound, NoCall, NoFetch, NoCmd, NoRow,
        TypeOK, adbVars, monitorVars, engineVars
<1>2. ASSUME NEW p \in Phones, AddConnects(p) PROVE IdentitySound'
  BY <1>2
    DEF AddConnects, SetAdb, Event, Begin, Free, IdentitySound, TableSound, NoCall, NoFetch,
        NoCmd, NoRow, TypeOK, adbVars, monitorVars, engineVars
<1>3. ASSUME NEW p \in Phones, AddWrites(p) PROVE IdentitySound'
  <2>1. /\ Placeholder(Wifi(p), "offline", NoRow(Wifi(p))) \in Rows
        /\ PhoneOf(Placeholder(Wifi(p), "offline", NoRow(Wifi(p))).hw) = PhoneOf(Wifi(p))
    <3>1. NoRow(Wifi(p)) \in Rows /\ PhoneOf(NoRow(Wifi(p)).hw) = PhoneOf(Wifi(p))
      BY SerialsOfPhones, NoRowType DEF NoRow
    <3> QED  BY <3>1, PlaceholderType
  <2>2. TableSound(row')
    BY <1>3, <2>1, SerialsOfPhones, UpsertSound DEF AddWrites, TypeOK, Tables, IdentitySound
  <2> QED  BY <1>3, <2>2, SerialsOfPhones DEF AddWrites, Finish, NoCmd, TypeOK, IdentitySound, NoRow, adbVars, monitorVars
<1>4. ASSUME NEW p \in Phones, DisconnectDeviceWifi(p) PROVE IdentitySound'
  BY <1>4
    DEF DisconnectDeviceWifi, SetAdb, Event, Begin, Free, IdentitySound, TableSound, NoCall,
        NoFetch, NoCmd, NoRow, TypeOK, adbVars, monitorVars, engineVars
<1>5. ASSUME NEW p \in Phones, SwitchReads(p) PROVE IdentitySound'
  <2>1. Read(Usb(p)).hw = row[Usb(p)].hw
    BY SerialsOfPhones, ReadType
  <2>2. \A x \in Serials : PhoneOf(cmd'[x].old.hw) = PhoneOf(x)
    BY <1>5, <2>1, SerialsOfPhones DEF SwitchReads, Begin, TypeOK, IdentitySound, TableSound
  <2> QED  BY <1>5, <2>2 DEF SwitchReads, IdentitySound, adbVars, monitorVars
<1>6. ASSUME NEW p \in Phones, SwitchTcpip(p) PROVE IdentitySound'
  BY <1>6
    DEF SwitchTcpip, SetAdb, IdentitySound, TableSound, NoCall, NoFetch, NoCmd, NoRow, TypeOK,
        adbVars, monitorVars, engineVars
<1>7. ASSUME NEW p \in Phones, SwitchConnects(p) PROVE IdentitySound'
  BY <1>7
    DEF SwitchConnects, SetAdb, IdentitySound, TableSound, NoCall, NoFetch, NoCmd, NoRow,
        TypeOK, adbVars, monitorVars, engineVars
<1>8. ASSUME NEW p \in Phones, SwitchRestartsAdb(p) PROVE IdentitySound'
  BY <1>8
    DEF SwitchRestartsAdb, IdentitySound, TableSound, NoCall, NoFetch, NoCmd, NoRow, TypeOK,
        adbVars, monitorVars, engineVars
<1>9. ASSUME NEW p \in Phones, SwitchFails(p) PROVE IdentitySound'
  BY <1>9
    DEF SwitchFails, Finish, IdentitySound, TableSound, NoCall, NoFetch, NoCmd, NoRow, TypeOK,
        adbVars, monitorVars, engineVars
<1>10. ASSUME NEW p \in Phones, SwitchWrites(p) PROVE IdentitySound'
  <2> DEFINE new == [cmd[Usb(p)].old EXCEPT !.st = "device"]
             R == Upsert(row, Wifi(p), new)
             O == OldRows(R, Wifi(p), cmd[Usb(p)].old.hw)
  <2>1. new \in Rows
    BY SerialsOfPhones DEF TypeOK, Rows
  <2>2. R \in Tables
    BY <2>1, SerialsOfPhones, UpsertRows DEF TypeOK, Tables
  <2>3. O \in SUBSET (Serials \ {Wifi(p)})
    BY OldRowsOf
  <2>4. PICK n \in OldPorts(R, O) : row' = Merged(R, Wifi(p), O, n)
    BY <1>10 DEF SwitchWrites
  <2>5. PhoneOf(new.hw) = PhoneOf(Wifi(p))
    BY SerialsOfPhones DEF IdentitySound, TypeOK, Rows
  <2>6. TableSound(R)
    BY <2>1, <2>5, SerialsOfPhones, UpsertSound DEF TypeOK, Tables, IdentitySound
  <2> HIDE DEF R, O
  <2>7. TableSound(row')
    BY <2>2, <2>3, <2>4, <2>6, SerialsOfPhones, MergedSound
  <2> QED  BY <1>10, <2>7, SerialsOfPhones DEF SwitchWrites, Finish, NoCmd, NoRow, TypeOK, IdentitySound, adbVars, monitorVars
<1>11. ASSUME NEW p \in Phones, Kick(p) PROVE IdentitySound'
  <2>1. TableSound(row')
    <3>1. \A x \in Serials : row'[x].hw \in {row[x].hw, x}
      BY <1>11 DEF Kick, DeleteRow, TypeOK, Rows, NoRow
    <3> QED  BY <3>1 DEF TableSound, IdentitySound
  <2> QED  BY <1>11, <2>1 DEF Kick, IdentitySound, NoRow, adbVars, monitorVars
<1>12. ASSUME NEW s \in Serials, Drops(s) PROVE IdentitySound'
  BY <1>12
    DEF Drops, SetAdb, Event, IdentitySound, TableSound, NoCall, NoFetch, NoCmd, NoRow,
        TypeOK, adbVars, monitorVars, engineVars
<1>13. ASSUME NEW s \in Serials, TrackReads(s) PROVE IdentitySound'
  <2>1. Read(s).hw = row[s].hw
    BY ReadType
  <2>2. \A x \in Serials : PhoneOf(cb'[x].old.hw) = PhoneOf(x)
    BY <1>13, <2>1 DEF TrackReads, TypeOK, IdentitySound, TableSound
  <2> QED  BY <1>13, <2>2 DEF TrackReads, IdentitySound
<1>14. ASSUME NEW s \in Serials, TrackChecks(s) PROVE IdentitySound'
  <2>1. \/ CallbackEnds(s)
        \/ cb' = [cb EXCEPT ![s].st = "checked"]
    BY <1>14 DEF TrackChecks
  <2>2. \A x \in Serials : PhoneOf(cb'[x].old.hw) = PhoneOf(x)
    <3>1. CASE CallbackEnds(s)
      BY <3>1 DEF CallbackEnds, NoCall, NoRow, TypeOK, IdentitySound
    <3>2. CASE cb' = [cb EXCEPT ![s].st = "checked"]
      <4>1. \A x \in Serials : cb'[x].old = cb[x].old
        BY <3>2 DEF TypeOK
      <4> QED  BY <4>1 DEF IdentitySound
    <3> QED  BY <2>1, <3>1, <3>2
  <2> QED  BY <1>14, <2>2 DEF TrackChecks, IdentitySound
<1>15. ASSUME NEW s \in Serials, TrackOffline(s) PROVE IdentitySound'
  <2>1. /\ Placeholder(s, "offline", cb[s].old) \in Rows
        /\ PhoneOf(Placeholder(s, "offline", cb[s].old).hw) = PhoneOf(s)
    <3>1. cb[s].old \in Rows /\ PhoneOf(cb[s].old.hw) = PhoneOf(s)
      BY SerialsOfPhones, NoRowType DEF TypeOK, IdentitySound
    <3> QED  BY <3>1, PlaceholderType
  <2>2. TableSound(row')
    BY <1>15, <2>1, SerialsOfPhones, UpsertSound DEF TrackOffline, TypeOK, Tables, IdentitySound
  <2> QED  BY <1>15, <2>2, SerialsOfPhones DEF TrackOffline, CallbackEnds, NoCall, TypeOK, IdentitySound, NoRow, adbVars, monitorVars
<1>16. ASSUME NEW s \in Serials, TrackKnown(s) PROVE IdentitySound'
  <2>1. TableSound(row')
    <3>1. \A x \in Serials : row'[x].hw \in {row[x].hw, x}
      BY <1>16 DEF TrackKnown, TypeOK, Rows, NoRow
    <3> QED  BY <3>1 DEF TableSound, IdentitySound
  <2> QED  BY <1>16, <2>1 DEF TrackKnown, CallbackEnds, NoCall, TypeOK, IdentitySound, NoRow, adbVars, monitorVars
<1>17. ASSUME NEW s \in Serials, TrackFetches(s) PROVE IdentitySound'
  BY <1>17
    DEF TrackFetches, CallbackEnds, IdentitySound, TableSound, NoCall, NoFetch, NoCmd, NoRow,
        TypeOK, adbVars, monitorVars, engineVars
<1>18. ASSUME NEW s \in Serials, TrackPlaceholder(s) PROVE IdentitySound'
  <2>1. /\ Placeholder(s, "device", cb[s].old) \in Rows
        /\ PhoneOf(Placeholder(s, "device", cb[s].old).hw) = PhoneOf(s)
    <3>1. cb[s].old \in Rows /\ PhoneOf(cb[s].old.hw) = PhoneOf(s)
      BY SerialsOfPhones, NoRowType DEF TypeOK, IdentitySound
    <3> QED  BY <3>1, PlaceholderType
  <2>2. TableSound(row')
    BY <1>18, <2>1, SerialsOfPhones, UpsertSound
      DEF TrackPlaceholder, TypeOK, Tables, IdentitySound
  <2> QED  BY <1>18, <2>2, SerialsOfPhones DEF TrackPlaceholder, CallbackEnds, NoCall, TypeOK, IdentitySound, NoRow, adbVars, monitorVars
<1>19. ASSUME NEW s \in Serials, FetchReads(s) PROVE IdentitySound'
  <2>1. \A x \in Serials : PhoneOf(fetch'[x].hw) = PhoneOf(x)
    BY <1>19, SerialsOfPhones DEF FetchReads, TypeOK, IdentitySound
  <2> QED  BY <1>19, <2>1 DEF FetchReads, IdentitySound, adbVars
<1>20. ASSUME NEW s \in Serials, FetchMerges(s) PROVE IdentitySound'
  <2> DEFINE O == OldRows(row, s, fetch[s].hw)
  <2>1. PICK n \in OldPorts(row, O) : row' = Merged(row, s, O, n)
    BY <1>20 DEF FetchMerges
  <2>2. row \in Tables /\ O \in SUBSET (Serials \ {s})
    BY OldRowsOf DEF TypeOK, Tables
  <2> HIDE DEF O
  <2>3. TableSound(row')
    BY <2>1, <2>2, MergedSound DEF IdentitySound
  <2>4. \A x \in Serials : fetch'[x].hw = fetch[x].hw
    BY <1>20 DEF FetchMerges, TypeOK
  <2> QED  BY <1>20, <2>3, <2>4 DEF FetchMerges, IdentitySound, adbVars
<1>21. ASSUME NEW s \in Serials, FetchWrites(s) PROVE IdentitySound'
  <2> DEFINE new == [hw |-> fetch[s].hw, st |-> "device", known |-> fetch[s].known,
                     flag |-> FALSE, port |-> 0]
  <2>1. new \in Rows
    BY BoundsAssumption DEF TypeOK, Rows
  <2>2. row' = Upsert(row, s, new)
    BY <1>21 DEF FetchWrites
  <2>3. PhoneOf(new.hw) = PhoneOf(s)
    BY DEF IdentitySound
  <2> HIDE DEF new
  <2>4. TableSound(row')
    BY <2>1, <2>2, <2>3, UpsertSound DEF TypeOK, Tables, IdentitySound
  <2> QED  BY <1>21, <2>4 DEF FetchWrites, NoFetch, TypeOK, IdentitySound, NoRow, adbVars, engineVars
<1>22. ASSUME NEW s \in Serials, ReconnectConnects(s) PROVE IdentitySound'
  BY <1>22
    DEF ReconnectConnects, SetAdb, IdentitySound, TableSound, NoCall, NoFetch, NoCmd, NoRow,
        TypeOK, adbVars, monitorVars, engineVars
<1>23. ASSUME NEW s \in Serials, RemoveDisconnects(s) PROVE IdentitySound'
  BY <1>23
    DEF RemoveDisconnects, SetAdb, Event, Begin, Free, IdentitySound, TableSound, NoCall,
        NoFetch, NoCmd, NoRow, TypeOK, adbVars, monitorVars, engineVars
<1>24. ASSUME NEW s \in Serials, CommandDeletes(s) PROVE IdentitySound'
  <2>1. TableSound(row')
    BY <1>24 DEF CommandDeletes, DeleteRow, TypeOK, Rows, NoRow, TableSound, IdentitySound
  <2> QED  BY <1>24, <2>1 DEF CommandDeletes, Finish, NoCmd, TypeOK, IdentitySound, NoRow, adbVars, monitorVars
<1>25. ASSUME NEW s \in Serials, NEW flag \in BOOLEAN, SetFlag(s, flag) PROVE IdentitySound'
  <2>1. TableSound(row')
    <3>1. \A x \in Serials : row'[x].hw \in {row[x].hw, x}
      BY <1>25 DEF SetFlag, TypeOK, Rows, NoRow
    <3> QED  BY <3>1 DEF TableSound, IdentitySound
  <2> QED  BY <1>25, <2>1 DEF SetFlag, IdentitySound, NoRow, adbVars, monitorVars
<1>26. ASSUME SweepReads PROVE IdentitySound'
  BY <1>26
    DEF SweepReads, Online, IdentitySound, TableSound, NoCall, NoFetch, NoCmd, NoRow, TypeOK,
        adbVars, monitorVars, engineVars
<1>27. ASSUME SweepMarks PROVE IdentitySound'
  <2>1. TableSound(row')
    BY <1>27 DEF SweepMarks, MarkOffline, TypeOK, Rows, NoRow, TableSound, IdentitySound
  <2> QED  BY <1>27, <2>1 DEF SweepMarks, IdentitySound, NoRow, adbVars, monitorVars
<1>28. ASSUME ReconnectReads PROVE IdentitySound'
  BY <1>28
    DEF ReconnectReads, OfflineWifi, IdentitySound, TableSound, NoCall, NoFetch, NoCmd, NoRow,
        TypeOK, adbVars, monitorVars, engineVars
<1>29. ASSUME NEW t \in Tasks, StartPicks(t) PROVE IdentitySound'
  BY <1>29
    DEF StartPicks, IdentitySound, TableSound, NoCall, NoFetch, NoCmd, NoRow, TypeOK, adbVars,
        monitorVars, engineVars
<1>30. ASSUME NEW t \in Tasks, StartLeases(t) PROVE IdentitySound'
  <2>1. pick[t] \in Serials /\ row \in Tables
    BY <1>30 DEF StartLeases, TypeOK, Tables
  <2>2. PICK n \in 1 .. MaxPort, answers \in BOOLEAN :
          row' = [row EXCEPT ![pick[t]] = IF Exists(pick[t]) THEN PortAndFlag(row[pick[t]], n, answers)
                                          ELSE row[pick[t]]]
    BY <1>30 DEF StartLeases
  <2>3. PortAndFlag(row[pick[t]], n, answers).hw = row[pick[t]].hw
    <3>1. n \in 0 .. MaxPort /\ row[pick[t]] \in Rows
      BY <2>1 DEF Tables
    <3> QED  BY <3>1, PortAndFlagType
  <2>4. TableSound(row')
    BY <2>1, <2>2, <2>3 DEF IdentitySound, TableSound, Tables
  <2> QED  BY <1>30, <2>4 DEF StartLeases, IdentitySound, adbVars, monitorVars
<1>31. ASSUME NEW t \in Tasks, Release(t) PROVE IdentitySound'
  BY <1>31
    DEF Release, IdentitySound, TableSound, NoCall, NoFetch, NoCmd, NoRow, TypeOK, adbVars,
        monitorVars, engineVars
<1>32. ASSUME NEW t \in Tasks, Persist(t) PROVE IdentitySound'
  BY <1>32
    DEF Persist, IdentitySound, TableSound, NoCall, NoFetch, NoCmd, NoRow, TypeOK, adbVars,
        monitorVars, engineVars
<1>33. ASSUME NEW newDay \in BOOLEAN, Restart(newDay) PROVE IdentitySound'
  <2>1. TableSound(row')
    <3>1. CASE newDay
      BY <1>33, <3>1 DEF Restart, NoRow, TableSound
    <3>2. CASE ~newDay
      <4>1. PICK W \in SUBSET Serials : LeftOver(W)
        BY <1>33, <3>2, DedupeRows DEF Restart
      <4>2. \A s \in Serials : row'[s].hw \in {s, row[s].hw}
        BY <4>1, NoRowFields DEF LeftOver
      <4> QED  BY <4>2 DEF TableSound, IdentitySound
    <3> QED  BY <3>1, <3>2
  <2> QED  BY <1>33, <2>1 DEF Restart, IdentitySound, NoRow, NoCall, NoFetch, NoCmd
<1>34. CASE UNCHANGED vars
  BY <1>34
    DEF vars, IdentitySound, TableSound, NoCall, NoFetch, NoCmd, NoRow, TypeOK, adbVars,
        monitorVars, engineVars
<1> QED
  BY <1>1, <1>2, <1>3, <1>4, <1>5, <1>6, <1>7, <1>8, <1>9, <1>10, <1>11, <1>12, <1>13, <1>14,
     <1>15, <1>16, <1>17, <1>18, <1>19, <1>20, <1>21, <1>22, <1>23, <1>24, <1>25, <1>26,
     <1>27, <1>28, <1>29, <1>30, <1>31, <1>32, <1>33, <1>34
    DEF Next, MonitorStep, CommandStep

\* A merge moves an assignment to another transport of the phone; the engine
\* writes and clears what it leases.
LEMMA StepAssignment == TypeOK /\ IdentitySound /\ AssignmentFollowsPhone /\ [Next]_vars => AssignmentFollowsPhone'
<1> SUFFICES ASSUME TypeOK, IdentitySound, AssignmentFollowsPhone, [Next]_vars PROVE AssignmentFollowsPhone'
  OBVIOUS
<1>1. ASSUME NEW p \in Phones, SwitchWrites(p) PROVE AssignmentFollowsPhone'
  <2> DEFINE new == [cmd[Usb(p)].old EXCEPT !.st = "device"]
             R == Upsert(row, Wifi(p), new)
             O == OldRows(R, Wifi(p), cmd[Usb(p)].old.hw)
  <2>1. new \in Rows
    BY SerialsOfPhones DEF TypeOK, Rows
  <2>2. TableSound(R) /\ Wifi(p) \in Serials
    <3>1. PhoneOf(new.hw) = PhoneOf(Wifi(p))
      BY SerialsOfPhones DEF IdentitySound, TypeOK, Rows
    <3> QED  BY <2>1, <3>1, SerialsOfPhones, UpsertSound DEF TypeOK, Tables, IdentitySound
  <2>3. PhoneOf(cmd[Usb(p)].old.hw) = PhoneOf(Wifi(p))
    BY SerialsOfPhones DEF IdentitySound
  <2>4. lease' = lease /\ ref' = MoveRefs(O, Wifi(p))
    BY <1>1 DEF SwitchWrites
  <2> HIDE DEF R
  <2>5. \A o \in O : o \in Serials /\ PhoneOf(o) = PhoneOf(Wifi(p))
    BY <2>2, <2>3 DEF OldRows, TableSound
  <2> HIDE DEF O
  <2> QED  BY <2>2, <2>4, <2>5, NoneAssumption DEF MoveRefs, AssignmentFollowsPhone
<1>2. ASSUME NEW p \in Phones, Kick(p) PROVE AssignmentFollowsPhone'
  <2>1. PICK s \in Serials :
          /\ lease' = [x \in Tasks |-> IF lease[x].dev = s THEN NoLease ELSE lease[x]]
          /\ ref' = [x \in Tasks |-> IF lease[x].dev = s THEN None ELSE ref[x]]
    BY <1>2 DEF Kick
  <2> QED  BY <2>1 DEF AssignmentFollowsPhone, NoLease
<1>3. ASSUME NEW s \in Serials, FetchMerges(s) PROVE AssignmentFollowsPhone'
  <2>1. \A o \in OldRows(row, s, fetch[s].hw) : PhoneOf(o) = PhoneOf(s)
    BY DEF OldRows, IdentitySound, TableSound
  <2>2. lease' = lease /\ \A t \in Tasks : ref'[t] = ref[t] \/ (ref[t] \in Serials /\ ref'[t] = s /\ PhoneOf(ref[t]) = PhoneOf(s))
    BY <1>3, <2>1 DEF FetchMerges, MoveRefs, OldRows
  <2> QED  BY <2>2, NoneAssumption DEF AssignmentFollowsPhone
<1>4. ASSUME NEW t \in Tasks, StartLeases(t) PROVE AssignmentFollowsPhone'
  <2>1. pick[t] \in Serials
    BY <1>4 DEF StartLeases, TypeOK
  <2>2. \/ UNCHANGED <<lease, ref>>
        \/ \E n \in 1 .. MaxPort : /\ lease' = [lease EXCEPT ![t] = [dev |-> pick[t], port |-> n]]
                                   /\ ref' = [ref EXCEPT ![t] = pick[t]]
    BY <1>4 DEF StartLeases
  <2> QED  BY <2>1, <2>2, NoneAssumption DEF AssignmentFollowsPhone, TypeOK
<1>5. ASSUME NEW t \in Tasks, Release(t) PROVE AssignmentFollowsPhone'
  BY <1>5
    DEF Release, AssignmentFollowsPhone, NoLease, TypeOK, adbVars, monitorVars, engineVars
<1>6. ASSUME NEW t \in Tasks, Persist(t) PROVE AssignmentFollowsPhone'
  BY <1>6
    DEF Persist, AssignmentFollowsPhone, NoLease, TypeOK, adbVars, monitorVars, engineVars
<1>7. ASSUME NEW newDay \in BOOLEAN, Restart(newDay) PROVE AssignmentFollowsPhone'
  BY <1>7
    DEF Restart, Event, AssignmentFollowsPhone, NoLease, TypeOK, adbVars,
        monitorVars, engineVars
<1>8. CASE UNCHANGED <<lease, ref>>
  BY <1>8 DEF AssignmentFollowsPhone
<1> QED
  BY <1>1, <1>2, <1>3, <1>4, <1>5, <1>6, <1>7, <1>8, AssignmentWriters
    DEF AssignmentWritten

\* A task is assigned a transport of the phone it drives, whatever rows were merged
\* since (reconcile_device_by_hw_serial), and none if it drives none.
THEOREM AssignedToItsPhone == Spec => []AssignmentFollowsPhone
<1>1. Init => IdentitySound /\ AssignmentFollowsPhone
  BY SerialsOfPhones
  DEF Init, IdentitySound, TableSound, AssignmentFollowsPhone, NoRow, NoCall, NoFetch, NoCmd, NoLease
<1>2. /\ TypeOK /\ IdentitySound /\ AssignmentFollowsPhone /\ [Next]_vars
      => (IdentitySound /\ AssignmentFollowsPhone)'
  BY StepIdentity, StepAssignment
<1> QED
  BY <1>1, <1>2, TypeCorrect, PTL DEF Spec
=============================================================================

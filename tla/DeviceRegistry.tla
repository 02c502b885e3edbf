--------------------------- MODULE DeviceRegistry ---------------------------
(***************************************************************************)
(* The table of phones (a_devices) and everyone who writes it: the device   *)
(* monitor (monitor/mod.rs), the commands of the user (commands/device.rs)  *)
(* and the engine, which leases a row to a task (engine/event_loop.rs).     *)
(*                                                                         *)
(* adb lists a phone once per transport, under another serial each time:    *)
(* its hardware serial over USB, its address over WiFi. The table is keyed  *)
(* by that serial; rows of one phone are recognised by their column         *)
(* hw_serial and merged.                                                   *)
(*                                                                         *)
(* One call of the database is one step; what the code reads from it and    *)
(* uses after an await is kept in a variable in between.                    *)
(***************************************************************************)
EXTENDS Naturals, FiniteSets

CONSTANTS
  Phones,    \* phones
  Reachable, \* the phones in a network of this host
  Connected, \* bound: the serials that adb may list from the start
  Tasks,     \* tasks that may lease a phone
  None,      \* no serial
  MaxFetch,  \* MAX_PROP_FETCH_THREADS
  Commands,  \* the commands, loops and faults of this instance
  MaxPort,   \* bound: local ports that are handed out, counted from PORT_BASE
  MaxEvents  \* bound: what phones, cables and the user do

ASSUME MaxFetchAssumption == MaxFetch \in Nat \ {0}
ASSUME BoundsAssumption == MaxPort \in Nat /\ MaxEvents \in Nat

\* A serial is a transport of a phone. The serial of the USB transport is the
\* hardware serial of the phone (ro.serialno).
Serials == {"usb", "wifi"} \X Phones
Usb(p) == <<"usb", p>>
Wifi(p) == <<"wifi", p>>
IsWifi(s) == s[1] = "wifi"
PhoneOf(s) == s[2]

ASSUME ConnectedAssumption == Connected \subseteq Serials /\ Reachable \subseteq Phones
ASSUME NoneAssumption == None \notin Serials

\* A row of a_devices; Offline stands for every state but Device, known for
\* device_props_incomplete = false, port 0 for NULL, "absent" for no row.
Rows == [hw: Serials, st: {"absent", "device", "offline"}, known: BOOLEAN,
         flag: BOOLEAN, port: 0 .. MaxPort]
NoRow(s) == [hw |-> s, st |-> "absent", known |-> FALSE, flag |-> FALSE, port |-> 0]

VARIABLES
  adb,         \* serial -> what the adb server lists for it
  reports,     \* serial -> the state that track_devices has still to report
  row,         \* the table
  cb,          \* serial -> the callback of track_devices: state, row it has read
  fetch,       \* serial -> the task that reads the properties of the phone
  lastOnline,  \* last_online of the sweep
  sweep,       \* the sweep: idle, or about to mark what lastOnline does not list
  retries,     \* WiFi serials the reconnecting loop is about to connect
  cmd,         \* serial -> the command of the user under way, row it has read
  pick,        \* task -> serial chosen by handle_start, before it is leased
  lease,       \* task -> serial and port of its runtime (memory of the engine)
  ref,         \* task -> assigned_device in a_task_state
  events       \* what happened from outside so far, up to MaxEvents

adbVars == <<adb, reports>>
monitorVars == <<cb, fetch, lastOnline, sweep, retries>>
engineVars == <<pick, lease, ref>>
vars == <<adbVars, row, monitorVars, cmd, engineVars, events>>

NoCall(s) == [st |-> "none", old |-> NoRow(s)]
NoFetch(s) == [at |-> "idle", hw |-> s, known |-> FALSE]
NoCmd(s) == [op |-> "none", old |-> NoRow(s)]
NoLease == [dev |-> None, port |-> 0]

TypeOK ==
  /\ adb \in [Serials -> {"none", "device", "offline"}]
  /\ reports \in [Serials -> {"none", "device", "offline"}]
  /\ row \in [Serials -> Rows]
  /\ cb \in [Serials -> [st: {"none", "device", "offline", "checked"}, old: Rows]]
  /\ fetch \in [Serials -> [at: {"idle", "shell", "merge", "write"}, hw: Serials, known: BOOLEAN]]
  /\ lastOnline \in SUBSET Serials
  /\ sweep \in {"idle", "mark"}
  /\ retries \in SUBSET Serials
  /\ cmd \in [Serials -> [op: {"none", "add", "delete", "switch", "tcpip", "again", "connected"}, old: Rows]]
  /\ pick \in [Tasks -> Serials \cup {None}]
  /\ lease \in [Tasks -> [dev: Serials \cup {None}, port: 0 .. MaxPort]]
  /\ ref \in [Tasks -> Serials \cup {None}]
  /\ events \in 0 .. MaxEvents

\* One more event from outside.
Event == events < MaxEvents /\ events' = events + 1

-----------------------------------------------------------------------------
(* Statements on the table.                                                *)

Exists(s) == row[s].st # "absent"

\* What is used of a row after it was read.
Read(s) == [row[s] EXCEPT !.port = 0, !.st = IF @ = "absent" THEN @ ELSE "device"]

\* Mutant: a phone whose properties are unread gets a state no reader knows.
UpsertUnknown(R, s, new) ==
  [R EXCEPT ![s] = [hw |-> new.hw, st |-> IF new.known THEN new.st ELSE "unknown",
                    known |-> new.known, flag |-> R[s].flag, port |-> R[s].port]]

\* Mutant: the mark is among the columns an upsert overwrites.
UpsertAll(R, s, new) ==
  [R EXCEPT ![s] = [hw |-> new.hw, st |-> new.st, known |-> new.known,
                    flag |-> new.flag, port |-> R[s].port]]

\* upsert_device: the row new for s, which keeps flag and port when there is
\* one already; an inserted row has no port.
Upsert(R, s, new) ==
  [R EXCEPT ![s] = [hw |-> new.hw, st |-> new.st, known |-> new.known,
                    flag |-> IF R[s].st = "absent" THEN new.flag ELSE R[s].flag,
                    port |-> R[s].port]]

\* placeholder_device_row: what is known of s without asking the phone.
Placeholder(s, st, old) ==
  [hw |-> old.hw, st |-> st, known |-> old.known, flag |-> old.flag, port |-> 0]

\* The other rows of the phone hw, and the ports the merge may take from them.
OldRows(R, s, hw) == {o \in Serials \ {s} : R[o].st # "absent" /\ R[o].hw = hw}
OldPorts(R, O) ==
  IF \A o \in O : R[o].port = 0 THEN {0} ELSE {R[o].port : o \in O} \ {0}

\* reconcile_device_by_hw_serial: the rows O go, their port passes to the row
\* of s if there is one without a port, what referred to them refers to s.
Merged(R, s, O, n) ==
  [x \in Serials |->
     IF x \in O THEN NoRow(x)
     ELSE IF x = s /\ R[x].st # "absent" /\ R[x].port = 0 THEN [R[x] EXCEPT !.port = n]
     ELSE R[x]]
MoveRefs(O, s) == [t \in Tasks |-> IF ref[t] \in O THEN s ELSE ref[t]]

\* Mutant: counts the ports instead of taking the largest.
IsPortCount(R, n) == n = Cardinality({s \in Serials : R[s].port # 0}) + 1

\* assign_device_port: n is the largest port of the table plus one.
IsNextPort(R, n) ==
  /\ \A s \in Serials : R[s].port < n
  /\ n = 1 \/ \E s \in Serials : R[s].port = n - 1

DeleteRow(s) == row' = [row EXCEPT ![s] = NoRow(s)]

-----------------------------------------------------------------------------
(* The adb server. A change of its list is reported by track_devices, with   *)
(* the whole list; a serial that is no longer listed is not reported. Of     *)
(* several reports of a serial that wait, the model keeps the last.          *)

SetAdb(s, st) ==
  /\ adb' = [adb EXCEPT ![s] = st]
  /\ reports' = [x \in Serials |-> IF adb[s] = st \/ adb'[x] = "none" THEN reports[x]
                                   ELSE adb'[x]]

Appears(p) ==
  /\ adb[Usb(p)] # "device" /\ Event
  /\ SetAdb(Usb(p), "device")
  /\ UNCHANGED <<row, monitorVars, cmd, engineVars>>

Drops(s) ==
  /\ adb[s] = "device" /\ Event
  /\ \E st \in {"offline", "none"} : SetAdb(s, st)
  /\ UNCHANGED <<row, monitorVars, cmd, engineVars>>

-----------------------------------------------------------------------------
(* The callback of track_devices: one thread, one report at a time.          *)

TrackReads(s) ==
  /\ reports[s] # "none" /\ \A x \in Serials : cb[x].st = "none"
  /\ cb' = [cb EXCEPT ![s] = [st |-> reports[s], old |-> Read(s)]]
  /\ reports' = [reports EXCEPT ![s] = "none"]
  /\ UNCHANGED <<adb, row, fetch, lastOnline, sweep, retries, cmd, engineVars, events>>

CallbackEnds(s) == cb' = [cb EXCEPT ![s] = NoCall(s)]

\* A report of another state than Device looks, for a serial that had no row,
\* for a row of another transport with this hardware serial: the report is
\* then one of a transport that was merged, and no row is written for it.
TrackChecks(s) ==
  LET old  == cb[s].old
      same == {o \in Serials : Exists(o) /\ row[o].hw = old.hw}
  IN  /\ cb[s].st = "offline"
      /\ \/ /\ old.st = "absent" /\ \E o \in same : o # s
            /\ CallbackEnds(s)
         \/ /\ old.st # "absent" \/ same = {} \/ s \in same
            /\ cb' = [cb EXCEPT ![s].st = "checked"]
      /\ UNCHANGED <<adbVars, row, fetch, lastOnline, sweep, retries, cmd, engineVars, events>>

TrackOffline(s) ==
  /\ cb[s].st = "checked"
  /\ row' = Upsert(row, s, Placeholder(s, "offline", cb[s].old))
  /\ CallbackEnds(s)
  /\ UNCHANGED <<adbVars, fetch, lastOnline, sweep, retries, cmd, engineVars, events>>

\* update_device_state, for a row that was complete when it was read.
TrackKnown(s) ==
  /\ cb[s].st = "device" /\ cb[s].old.known
  /\ row' = [row EXCEPT ![s] = IF @.st = "absent" THEN @ ELSE [@ EXCEPT !.st = "device"]]
  /\ CallbackEnds(s)
  /\ UNCHANGED <<adbVars, fetch, lastOnline, sweep, retries, cmd, engineVars, events>>

InFlight == {s \in Serials : fetch[s].at # "idle"}
SlotFree(s) == s \notin InFlight /\ Cardinality(InFlight) < MaxFetch

TrackFetches(s) ==
  /\ cb[s].st = "device" /\ ~cb[s].old.known /\ SlotFree(s)
  /\ fetch' = [fetch EXCEPT ![s] = [NoFetch(s) EXCEPT !.at = "shell"]]
  /\ CallbackEnds(s)
  /\ UNCHANGED <<adbVars, row, lastOnline, sweep, retries, cmd, engineVars, events>>

TrackPlaceholder(s) ==
  /\ cb[s].st = "device" /\ ~cb[s].old.known /\ ~SlotFree(s)
  /\ row' = Upsert(row, s, Placeholder(s, "device", cb[s].old))
  /\ CallbackEnds(s)
  /\ UNCHANGED <<adbVars, fetch, lastOnline, sweep, retries, cmd, engineVars, events>>

-----------------------------------------------------------------------------
(* The fetch of properties: the shell, the merge, the row.                   *)

\* Mutant: phones that do not answer share a hardware serial.
FetchShares(s) ==
  /\ fetch[s].at = "shell"
  /\ \E hw \in {Usb(PhoneOf(s)), CHOOSE x \in Serials : TRUE} :
       fetch' = [fetch EXCEPT ![s] = [at |-> "merge", known |-> FALSE, hw |-> hw]]
  /\ UNCHANGED <<adbVars, row, cb, lastOnline, sweep, retries, cmd, engineVars, events>>

\* fetch_device_row: the shell may fail, and the serial then stands for the
\* hardware serial it did not learn; an answer may lack some property.
FetchReads(s) ==
  /\ fetch[s].at = "shell"
  /\ \E answers, complete \in BOOLEAN :
       /\ (complete => answers) /\ (answers => adb[s] = "device")
       /\ fetch' = [fetch EXCEPT ![s] = [at |-> "merge", known |-> complete,
                                         hw |-> IF answers THEN Usb(PhoneOf(s)) ELSE s]]
  /\ UNCHANGED <<adbVars, row, cb, lastOnline, sweep, retries, cmd, engineVars, events>>

FetchMerges(s) ==
  LET O == OldRows(row, s, fetch[s].hw)
  IN  /\ fetch[s].at = "merge"
      /\ \E n \in OldPorts(row, O) : row' = Merged(row, s, O, n)
      /\ ref' = MoveRefs(O, s)
      /\ fetch' = [fetch EXCEPT ![s].at = "write"]
      /\ UNCHANGED <<adbVars, cb, lastOnline, sweep, retries, cmd, pick, lease, events>>

FetchWrites(s) ==
  /\ fetch[s].at = "write"
  /\ row' = Upsert(row, s, [hw |-> fetch[s].hw, st |-> "device", known |-> fetch[s].known,
                            flag |-> FALSE, port |-> 0])
  /\ fetch' = [fetch EXCEPT ![s] = NoFetch(s)]
  /\ UNCHANGED <<adbVars, cb, lastOnline, sweep, retries, cmd, engineVars, events>>

-----------------------------------------------------------------------------
(* The two loops of the monitor.                                            *)

Online == {s \in Serials : adb[s] = "device"}

SweepReads ==
  /\ "sweep" \in Commands /\ sweep = "idle" /\ Online # lastOnline
  /\ lastOnline' = Online /\ sweep' = "mark"
  /\ UNCHANGED <<adbVars, row, cb, fetch, retries, cmd, engineVars, events>>

\* mark_offline_except
MarkOffline(S) ==
  row' = [s \in Serials |-> IF row[s].st = "device" /\ s \notin S
                            THEN [row[s] EXCEPT !.st = "offline"] ELSE row[s]]

SweepMarks ==
  /\ sweep = "mark"
  /\ MarkOffline(lastOnline)
  /\ sweep' = "idle"
  /\ UNCHANGED <<adbVars, cb, fetch, lastOnline, retries, cmd, engineVars, events>>

OfflineWifi == {s \in Serials : IsWifi(s) /\ row[s].st = "offline"}

\* The targets of a cycle: those of the offline WiFi rows that are not
\* waiting for the end of their delay.
ReconnectReads ==
  /\ "reconnect" \in Commands /\ retries = {} /\ retries' \in (SUBSET OfflineWifi) \ {{}}
  /\ UNCHANGED <<adbVars, row, cb, fetch, lastOnline, sweep, cmd, engineVars, events>>

ReconnectConnects(s) ==
  /\ s \in retries /\ retries' = retries \ {s}
  /\ (SetAdb(s, "device") \/ UNCHANGED adbVars)
  /\ UNCHANGED <<row, cb, fetch, lastOnline, sweep, cmd, engineVars, events>>

-----------------------------------------------------------------------------
(* Commands of the user, one at a time.                                     *)

Free == \A s \in Serials : cmd[s].op = "none"
Begin(s, op) == Free /\ cmd' = [cmd EXCEPT ![s] = [op |-> op, old |-> IF op = "switch" THEN Read(s) ELSE NoRow(s)]]
Finish(s) == cmd' = [cmd EXCEPT ![s] = NoCmd(s)]

\* add_device: no row yet, adb connects; the row comes after.
AddConnects(p) ==
  /\ "add" \in Commands /\ p \in Reachable /\ ~Exists(Wifi(p)) /\ Event
  /\ Begin(Wifi(p), "add")
  /\ SetAdb(Wifi(p), "device")
  /\ UNCHANGED <<row, monitorVars, engineVars>>

AddWrites(p) ==
  /\ cmd[Wifi(p)].op = "add"
  /\ row' = Upsert(row, Wifi(p), Placeholder(Wifi(p), "offline", NoRow(Wifi(p))))
  /\ Finish(Wifi(p))
  /\ UNCHANGED <<adbVars, monitorVars, engineVars, events>>

\* remove_device: disconnects a WiFi serial, whether that works or not.
RemoveDisconnects(s) ==
  /\ "remove" \in Commands /\ Exists(s) /\ Event
  /\ Begin(s, "delete")
  /\ ((IsWifi(s) /\ SetAdb(s, "none")) \/ UNCHANGED adbVars)
  /\ UNCHANGED <<row, monitorVars, engineVars>>

\* disconnect_device_wifi
DisconnectDeviceWifi(p) ==
  /\ "disconnect" \in Commands /\ Exists(Wifi(p)) /\ Event
  /\ Begin(Wifi(p), "delete")
  /\ SetAdb(Wifi(p), "none")
  /\ UNCHANGED <<row, monitorVars, engineVars>>

CommandDeletes(s) ==
  /\ cmd[s].op = "delete"
  /\ DeleteRow(s)
  /\ Finish(s)
  /\ UNCHANGED <<adbVars, monitorVars, engineVars, events>>

\* switch_device_to_wifi: reads the USB row, restarts adbd in TCP mode (the
\* USB transport goes), connects, writes what it has read under the address.
SwitchReads(p) ==
  /\ "switch" \in Commands /\ Exists(Usb(p)) /\ Event
  /\ Begin(Usb(p), "switch")
  /\ UNCHANGED <<adbVars, row, monitorVars, engineVars>>

SwitchTcpip(p) ==
  /\ cmd[Usb(p)].op = "switch" /\ p \in Reachable /\ adb[Usb(p)] = "device"
  /\ \E st \in {"offline", "none"} : SetAdb(Usb(p), st)
  /\ cmd' = [cmd EXCEPT ![Usb(p)].op = "tcpip"]
  /\ UNCHANGED <<row, monitorVars, engineVars, events>>

SwitchConnects(p) ==
  /\ cmd[Usb(p)].op \in {"tcpip", "again"}
  /\ SetAdb(Wifi(p), "device")
  /\ cmd' = [cmd EXCEPT ![Usb(p)].op = "connected"]
  /\ UNCHANGED <<row, monitorVars, engineVars, events>>

\* kill_restart_adb_server, after attempts that failed: the new server lists
\* no WiFi transport, and track_devices starts over with what it lists.
SwitchRestartsAdb(p) ==
  /\ cmd[Usb(p)].op = "tcpip"
  /\ adb' = [s \in Serials |-> IF IsWifi(s) THEN "none" ELSE adb[s]]
  /\ reports' = adb'
  /\ cmd' = [cmd EXCEPT ![Usb(p)].op = "again"]
  /\ UNCHANGED <<row, monitorVars, engineVars, events>>

SwitchFails(p) ==
  /\ cmd[Usb(p)].op \in {"switch", "tcpip", "again"}
  /\ Finish(Usb(p))
  /\ UNCHANGED <<adbVars, row, monitorVars, engineVars, events>>

\* Mutant: merges before the row to merge into is there, as the monitor does.
SwitchMergesFirst(p) ==
  LET s   == Wifi(p)
      old == cmd[Usb(p)].old
      O   == OldRows(row, s, old.hw)
  IN  /\ cmd[Usb(p)].op = "connected"
      /\ \E n \in OldPorts(row, O) :
           row' = Upsert(Merged(row, s, O, n), s, [old EXCEPT !.st = "device"])
      /\ ref' = MoveRefs(O, s)
      /\ Finish(Usb(p))
      /\ UNCHANGED <<adbVars, monitorVars, pick, lease, events>>

\* upsert_and_reconcile_by_hw_serial: both in one transaction.
SwitchWrites(p) ==
  LET s   == Wifi(p)
      old == cmd[Usb(p)].old
      R   == Upsert(row, s, [old EXCEPT !.st = "device"])
      O   == OldRows(R, s, old.hw)
  IN  /\ cmd[Usb(p)].op = "connected"
      /\ \E n \in OldPorts(R, O) : row' = Merged(R, s, O, n)
      /\ ref' = MoveRefs(O, s)
      /\ Finish(Usb(p))
      /\ UNCHANGED <<adbVars, monitorVars, pick, lease, events>>

SetFlag(s, flag) ==
  /\ (IF flag THEN "flag" ELSE "unflag") \in Commands /\ Exists(s) /\ Event
  /\ row' = [row EXCEPT ![s].flag = flag]
  /\ UNCHANGED <<adbVars, monitorVars, cmd, engineVars>>

-----------------------------------------------------------------------------
(* The engine: one message at a time.                                       *)

EngineFree == \A t \in Tasks : pick[t] = None
Leased == {lease[t].dev : t \in Tasks} \ {None}

\* pick_ready_serial
StartPicks(t) ==
  /\ EngineFree /\ lease[t].dev = None
  /\ \E s \in Serials \ Leased :
       /\ row[s].st = "device" /\ ~row[s].flag
       /\ pick' = [pick EXCEPT ![t] = s]
  /\ UNCHANGED <<adbVars, row, monitorVars, cmd, lease, ref, events>>

\* The row r with the port n, and marked if its phone does not answer.
PortAndFlag(r, n, answers) == [r EXCEPT !.port = n, !.flag = IF answers THEN @ ELSE TRUE]

\* assign_device_port for the serial that was picked, which may have no row
\* any more, then the ping: a phone that does not answer is flagged.
StartLeases(t) ==
  LET s == pick[t]
  IN  /\ s # None
      /\ \E n \in 1 .. MaxPort, answers \in BOOLEAN :
           /\ IF row[s].port # 0 THEN n = row[s].port ELSE IsNextPort(row, n)
           /\ row' = [row EXCEPT ![s] = IF Exists(s) THEN PortAndFlag(@, n, answers) ELSE @]
           /\ IF answers THEN /\ lease' = [lease EXCEPT ![t] = [dev |-> s, port |-> n]]
                              /\ ref' = [ref EXCEPT ![t] = s]
              ELSE UNCHANGED <<lease, ref>>
      /\ pick' = [pick EXCEPT ![t] = None]
      /\ UNCHANGED <<adbVars, monitorVars, cmd, events>>

\* A task pauses, stops or ends.
Release(t) ==
  /\ EngineFree /\ lease[t].dev # None
  /\ lease' = [lease EXCEPT ![t] = NoLease]
  /\ ref' = [ref EXCEPT ![t] = None]
  /\ UNCHANGED <<adbVars, row, monitorVars, cmd, pick, events>>

\* persist_runtime_state writes the serial the engine remembers.
Persist(t) ==
  /\ EngineFree /\ lease[t].dev # None
  /\ ref' = [ref EXCEPT ![t] = lease[t].dev]
  /\ UNCHANGED <<adbVars, row, monitorVars, cmd, pick, lease, events>>

\* handle_device_kick: finds the row by its hardware serial, pauses the task
\* that has it, deletes the row.
Kick(p) ==
  /\ "kick" \in Commands /\ EngineFree /\ Event
  /\ \E s \in Serials :
       /\ Exists(s) /\ row[s].hw = Usb(p)
       /\ lease' = [t \in Tasks |-> IF lease[t].dev = s THEN NoLease ELSE lease[t]]
       /\ ref' = [t \in Tasks |-> IF lease[t].dev = s THEN None ELSE ref[t]]
       /\ DeleteRow(s)
  /\ UNCHANGED <<adbVars, monitorVars, cmd, pick>>

\* The rows a start looks at: that of an address whose phone never answered goes.
Kept == {s \in Serials : Exists(s) /\ ~(IsWifi(s) /\ row[s].hw = s /\ row[s].st = "offline")}

\* dedupe_devices_by_hw_serial: of the rows of a phone the one that was
\* written last stays, with a port of the others if it has none;
\* mark_offline_except: nobody is online yet.
Leaves(W, port) ==
  /\ \A s \in Kept : \E w \in W : row[w].hw = row[s].hw
  /\ \A v, w \in W : row[v].hw = row[w].hw => v = w
  /\ \A w \in W : port[w] \in IF row[w].port # 0 THEN {row[w].port}
                             ELSE OldPorts(row, Kept \cap OldRows(row, w, row[w].hw))
  /\ row' = [s \in Serials |-> IF s \in W THEN [row[s] EXCEPT !.st = "offline", !.port = port[s]]
                              ELSE NoRow(s)]

Dedupe == \E W \in SUBSET Kept : \E port \in [W -> 0 .. MaxPort] : Leaves(W, port)

\* The program ends at any point and starts again, on the same day or on
\* another one (delete_all_devices). The adb server lives on.
Restart(newDay) ==
  /\ (IF newDay THEN "newday" ELSE "restart") \in Commands /\ Event
  /\ IF newDay THEN row' = [s \in Serials |-> NoRow(s)] ELSE Dedupe
  /\ reports' = adb /\ UNCHANGED adb
  /\ cb' = [s \in Serials |-> NoCall(s)] /\ fetch' = [s \in Serials |-> NoFetch(s)]
  /\ lastOnline' = {} /\ sweep' = "idle" /\ retries' = {}
  /\ cmd' = [s \in Serials |-> NoCmd(s)]
  /\ pick' = [t \in Tasks |-> None] /\ lease' = [t \in Tasks |-> NoLease]
  /\ ref' = [t \in Tasks |-> None]

-----------------------------------------------------------------------------

\* The first start, with some phones connected.
Init ==
  /\ \E S \in SUBSET Connected : adb = [s \in Serials |-> IF s \in S THEN "device" ELSE "none"]
  /\ reports = adb
  /\ row = [s \in Serials |-> NoRow(s)]
  /\ cb = [s \in Serials |-> NoCall(s)] /\ fetch = [s \in Serials |-> NoFetch(s)]
  /\ lastOnline = {} /\ sweep = "idle" /\ retries = {}
  /\ cmd = [s \in Serials |-> NoCmd(s)]
  /\ pick = [t \in Tasks |-> None] /\ lease = [t \in Tasks |-> NoLease]
  /\ ref = [t \in Tasks |-> None]
  /\ events = 0

MonitorStep(s) ==
  \/ TrackReads(s) \/ TrackChecks(s) \/ TrackOffline(s) \/ TrackKnown(s) \/ TrackFetches(s) \/ TrackPlaceholder(s)
  \/ FetchReads(s) \/ FetchMerges(s) \/ FetchWrites(s)
  \/ ReconnectConnects(s)

CommandStep(p) ==
  \/ AddConnects(p) \/ AddWrites(p) \/ DisconnectDeviceWifi(p)
  \/ SwitchReads(p) \/ SwitchTcpip(p) \/ SwitchConnects(p) \/ SwitchRestartsAdb(p)
  \/ SwitchFails(p) \/ SwitchWrites(p)
  \/ Kick(p)

Next ==
  \/ \E p \in Phones : Appears(p) \/ CommandStep(p)
  \/ \E s \in Serials :
       \/ Drops(s) \/ MonitorStep(s) \/ RemoveDisconnects(s) \/ CommandDeletes(s)
       \/ \E flag \in BOOLEAN : SetFlag(s, flag)
  \/ SweepReads \/ SweepMarks \/ ReconnectReads
  \/ \E t \in Tasks : StartPicks(t) \/ StartLeases(t) \/ Release(t) \/ Persist(t)
  \/ \E newDay \in BOOLEAN : Restart(newDay)

Spec == Init /\ [][Next]_vars

-----------------------------------------------------------------------------
(* Properties.                                                             *)

\* No two rows hold one local port, however rows are merged, deleted and
\* inserted: the port of a phone is where the engine forwards its adb to.
PortsUnique ==
  \A a, b \in Serials : row[a].port = row[b].port /\ row[a].port # 0 => a = b

\* Rows are merged only if they are of one phone, so a task whose assignment
\* was moved by a merge is assigned to another transport of the phone it
\* drives, never to another phone; a task that drives none is assigned none.
AssignmentFollowsPhone ==
  \A t \in Tasks :
    IF lease[t].dev = None THEN ref[t] = None
    ELSE ref[t] # None /\ PhoneOf(ref[t]) = PhoneOf(lease[t].dev)

\* As long as a row lives, what the monitor and the commands write over it
\* takes away neither its port nor the mark that keeps it from being leased;
\* the user alone takes back the mark.
RowKeepsFlagAndPort ==
  [][\A s \in Serials : Exists(s) /\ Exists(s)' =>
       /\ row[s].port # 0 => row'[s].port = row[s].port
       /\ row[s].flag => row'[s].flag \/ SetFlag(s, FALSE)]_vars

\* The switch to WiFi ends with one row of the phone, that of its address,
\* and with a port if the phone had one, whatever the monitor wrote meanwhile.
SwitchEndsInOneRow ==
  [][\A p \in Phones : SwitchWrites(p) =>
       LET hw   == cmd[Usb(p)].old.hw
           mine == {s \in Serials : Exists(s) /\ row[s].hw = hw}
       IN  /\ {s \in Serials : row'[s].st # "absent" /\ row'[s].hw = hw} = {Wifi(p)}
           /\ (\E s \in mine : row[s].port # 0) => row'[Wifi(p)].port # 0]_vars

=============================================================================

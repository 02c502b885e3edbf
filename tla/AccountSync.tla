---------------------------- MODULE AccountSync ----------------------------
(***************************************************************************)
(* The accounts of the user and the tasks that come with them: the commands  *)
(* of commands/sync.rs, the synchronisation at the start (startup.rs), what  *)
(* both share (task_sync.rs), and the messages of the server that change     *)
(* tasks behind them. An account is a mobile number, in the code a phone.    *)
(*                                                                         *)
(* A call is a process of its own: it reads the setting SYNCED_PHONES, asks  *)
(* the server, asks the engine and writes the table of definitions, one      *)
(* request or statement a step, with the steps of other calls, of the engine *)
(* and of the server in between. Statements of the database succeed.         *)
(***************************************************************************)
EXTENDS Naturals, FiniteSets

CONSTANTS
  Phones,    \* mobile numbers
  Tasks,     \* task ids
  Owner,     \* task -> the number it belongs to
  Events,    \* what may happen in this instance
  MaxCalls,  \* bound: calls under way at once
  MaxEvents  \* bound: calls, messages and restarts

ASSUME OwnerAssumption == Owner \in [Tasks -> Phones]
ASSUME BoundsAssumption == MaxCalls \in Nat /\ MaxEvents \in Nat

Calls == {"sync", "unbind", "ack", "startup"}
Steps == {"idle", "boot", "bind", "cleanup", "persist", "fetch", "upsert", "stale", "delete", "reload"}

VARIABLES
  remote,     \* tasks the server has
  elsewhere,  \* numbers the server has bound to another client
  notices,    \* numbers of unbind messages that have still to pause tasks
  asked,      \* numbers the user is shown as bound elsewhere
  pushes,     \* tasks whose change or deletion the server has still to tell
  synced,     \* SYNCED_PHONES
  defs,       \* tasks with a row in a_task_defs
  tasks,      \* tasks of the engine
  running,    \* tasks with a runtime and a worker in the engine
  call,       \* the command of each kind that is under way
  apart,      \* history: no two calls overlapped, no push for a number that is not synced
  events      \* how many events there were, up to MaxEvents

serverVars == <<remote, elsewhere, notices, asked, pushes>>
localVars == <<synced, defs, tasks, running>>
vars == <<serverVars, localVars, call, apart, events>>

\* phones: the numbers to bind; removed: those to clean up; final: the new
\* setting; items: task ids, then their items, then the stale ones.
NoCall == [at |-> "idle", phones |-> {}, force |-> FALSE, removed |-> {},
           final |-> {}, items |-> {}, cleaned |-> FALSE]

TypeOK ==
  /\ remote \subseteq Tasks /\ elsewhere \subseteq Phones
  /\ notices \subseteq Phones /\ asked \subseteq Phones
  /\ pushes \subseteq Tasks
  /\ synced \subseteq Phones /\ defs \subseteq Tasks
  /\ tasks \subseteq Tasks /\ running \subseteq Tasks
  /\ call \in [Calls -> [at: Steps, phones: SUBSET Phones, force: BOOLEAN,
                         removed: SUBSET Phones, final: SUBSET Phones,
                         items: SUBSET Tasks, cleaned: BOOLEAN]]
  /\ apart \in BOOLEAN
  /\ events \in 0 .. MaxEvents

TasksOf(P) == {t \in Tasks : Owner[t] \in P}
UnderWay == {k \in Calls : call[k].at # "idle"}

Event(e) == e \in Events /\ events < MaxEvents /\ events' = events + 1
Goes(k, at) == call' = [call EXCEPT ![k].at = at]
Ends(k) == call' = [call EXCEPT ![k] = NoCall]

-----------------------------------------------------------------------------
(* The calls begin: they read SYNCED_PHONES.                                *)

\* Mutant: a call writes the new setting before anything else.
BeginsWriting(k, c) ==
  /\ Event(k)
  /\ call[k].at = "idle" /\ Cardinality(UnderWay) < MaxCalls
  /\ call' = [call EXCEPT ![k] = c]
  /\ apart' = (apart /\ UnderWay = {})
  /\ synced' = c.final /\ UNCHANGED <<defs, tasks, running>>

Begins(k, c) ==
  /\ Event(k)
  /\ call[k].at = "idle" /\ Cardinality(UnderWay) < MaxCalls
  /\ call' = [call EXCEPT ![k] = c]
  /\ apart' = (apart /\ UnderWay = {})
  /\ UNCHANGED localVars

\* sync_tasks_by_phones; no number at all is handled without the server.
SyncBegins(P, force) ==
  /\ Begins("sync", [NoCall EXCEPT !.at = IF P = {} THEN "cleanup" ELSE "bind",
                     !.phones = P, !.force = force, !.removed = synced \ P, !.final = P])
  /\ UNCHANGED serverVars

\* unbind_phone, of a number that is synced.
UnbindBegins(p) ==
  /\ p \in synced
  /\ Begins("unbind", [NoCall EXCEPT !.at = "bind", !.removed = {p}, !.final = synced \ {p}])
  /\ UNCHANGED serverVars

\* acknowledge_phones_unbind, when the user has read the notice.
AckBegins ==
  /\ asked \cap synced # {}
  /\ Begins("ack", [NoCall EXCEPT !.at = "cleanup", !.removed = asked \cap synced,
                                  !.final = synced \ asked])
  /\ asked' = {}
  /\ UNCHANGED <<remote, elsewhere, notices, pushes>>

\* startup_sync_tasks, in the course of a start.
StartupBegins ==
  /\ call["startup"].at = "boot"
  /\ call' = [call EXCEPT !["startup"] =
                IF synced = {} THEN NoCall ELSE [NoCall EXCEPT !.at = "bind", !.phones = synced]]
  /\ UNCHANGED <<serverVars, localVars, apart, events>>

-----------------------------------------------------------------------------
(* The requests to the server. A request may fail, done or not done.        *)

BindsAt(P) == elsewhere' = elsewhere \ P

\* bind_phones: the server binds the numbers, those bound elsewhere only by
\* force, and answers with the tasks of all it has bound.
Bind(k) ==
  LET c == call[k]
      conflicts == IF c.force THEN {} ELSE c.phones \cap elsewhere
      ids == remote \cap TasksOf(c.phones \ conflicts)
  IN  /\ k \in {"sync", "startup"} /\ c.at = "bind"
      /\ BindsAt(c.phones \ conflicts)
      /\ IF k = "sync"
         THEN IF conflicts # {} THEN Ends(k)
              ELSE call' = [call EXCEPT ![k].at = "cleanup", ![k].items = ids]
         ELSE IF conflicts # {}
              THEN call' = [call EXCEPT ![k].at = "cleanup", ![k].items = ids,
                                        ![k].removed = conflicts]
              ELSE IF ids = {} THEN Ends(k)
                   ELSE call' = [call EXCEPT ![k].at = "fetch", ![k].items = ids]
      /\ UNCHANGED <<remote, notices, asked, pushes, localVars, apart, events>>

\* unbind_phones
Unbind ==
  /\ call["unbind"].at = "bind"
  /\ Goes("unbind", "cleanup")
  /\ UNCHANGED <<serverVars, localVars, apart, events>>

\* The request of a call fails, before or after the server has done it.
RequestFails(k) ==
  LET c == call[k]
  IN  /\ c.at \in {"bind", "fetch"}
      /\ \/ elsewhere' = elsewhere
         \/ c.at = "bind" /\ BindsAt(IF c.force THEN c.phones ELSE {})
      /\ Ends(k)
      /\ UNCHANGED <<remote, notices, asked, pushes, localVars, apart, events>>

\* fetch_batch_task_items: items the server no longer has or that come
\* without a number are left out; nothing is asked for no task.
Fetch(k) ==
  /\ call[k].at = "fetch"
  /\ \E I \in SUBSET (call[k].items \cap remote) :
       /\ "nameless" \in Events \/ I = call[k].items \cap remote
       /\ call' = [call EXCEPT ![k].at = "upsert", ![k].items = I]
  /\ UNCHANGED <<serverVars, localVars, apart, events>>

-----------------------------------------------------------------------------
(* The local part: apply_phone_state_change, then merge_batch_task_items.   *)

\* handle_phones_unbind, a message to the engine: the tasks that belong to
\* the removed numbers by the table lose runtime, task and definition.
Cleanup(k) ==
  LET c == call[k]
      S == defs \cap TasksOf(c.removed)
  IN  /\ c.at = "cleanup"
      /\ running' = running \ S /\ tasks' = tasks \ S /\ defs' = defs \ S
      /\ call' = [call EXCEPT ![k].at = IF k = "startup" THEN "fetch" ELSE "persist",
                              ![k].cleaned = (S # {})]
      /\ UNCHANGED <<serverVars, synced, apart, events>>

\* After the setting is written, a synchronisation goes on; other calls, and
\* one without numbers, reload only if there was something to clean up.
Persist(k) ==
  LET c == call[k]
  IN  /\ c.at = "persist"
      /\ synced' = c.final
      /\ IF k = "sync" /\ c.phones # {} THEN Goes(k, "fetch")
         ELSE IF c.cleaned THEN Goes(k, "reload") ELSE Ends(k)
      /\ UNCHANGED <<serverVars, defs, tasks, running, apart, events>>

Upsert(k) ==
  /\ call[k].at = "upsert"
  /\ defs' = defs \cup call[k].items
  /\ Goes(k, "stale")
  /\ UNCHANGED <<serverVars, synced, tasks, running, apart, events>>

ReadStale(k) ==
  /\ call[k].at = "stale"
  /\ call' = [call EXCEPT ![k].at = "delete", ![k].items = defs \ @]
  /\ UNCHANGED <<serverVars, localVars, apart, events>>

\* Mutant: reloads only if there was something to delete.
DeleteStaleSparing(k) ==
  /\ call[k].at = "delete"
  /\ defs' = defs \ call[k].items
  /\ IF call[k].items = {} THEN Ends(k) ELSE Goes(k, "reload")
  /\ UNCHANGED <<serverVars, synced, tasks, running, apart, events>>

\* batch_cleanup_tasks, on the database alone.
DeleteStale(k) ==
  /\ call[k].at = "delete"
  /\ defs' = defs \ call[k].items
  /\ Goes(k, "reload")
  /\ UNCHANGED <<serverVars, synced, tasks, running, apart, events>>

\* Mutant: a call that has ended stays under way.
ReloadOnly(k) ==
  /\ call[k].at = "reload"
  /\ tasks' = defs
  /\ Goes(k, "done")
  /\ UNCHANGED <<serverVars, synced, defs, running, apart, events>>

\* handle_reload_tasks: the tasks are what the table holds, the runtimes stay.
Reload(k) ==
  /\ call[k].at = "reload"
  /\ tasks' = defs
  /\ Ends(k)
  /\ UNCHANGED <<serverVars, synced, defs, running, apart, events>>

-----------------------------------------------------------------------------
(* The engine runs tasks; a runtime ends with its task or with its worker.  *)

Start(t) ==
  /\ t \in tasks \ running
  /\ running' = running \cup {t}
  /\ UNCHANGED <<serverVars, synced, defs, tasks, call, apart, events>>

Stop(t) ==
  /\ t \in running
  /\ running' = running \ {t}
  /\ UNCHANGED <<serverVars, synced, defs, tasks, call, apart, events>>

-----------------------------------------------------------------------------
(* The server: numbers move to other clients, tasks come and go. It tells    *)
(* so by messages, which may be lost and are not delivered during a start.   *)

Connected == call["startup"].at = "idle"

Moves(p) ==
  /\ Event("moves") /\ p \notin elsewhere
  /\ elsewhere' = elsewhere \cup {p}
  /\ \E told \in BOOLEAN : LET P == IF told THEN {p} ELSE {}
                           IN  notices' = notices \cup P /\ asked' = asked \cup P
  /\ UNCHANGED <<remote, pushes, localVars, call, apart>>

\* handle_pause_tasks_for_phones
NoticePauses(p) ==
  /\ Connected /\ p \in notices
  /\ notices' = notices \ {p}
  /\ running' = running \ (defs \cap tasks \cap TasksOf({p}))
  /\ UNCHANGED <<remote, elsewhere, asked, pushes, synced, defs, tasks, call, apart, events>>

ServerChanges(t) ==
  /\ \/ Event("adds") /\ remote' = remote \cup {t}
     \/ Event("drops") /\ remote' = remote \ {t}
  /\ pushes' \in {pushes, IF Owner[t] \in elsewhere THEN pushes ELSE pushes \cup {t}}
  /\ UNCHANGED <<elsewhere, notices, asked, localVars, call, apart>>

\* handle_task_reload_msg: merge_single_task for a task the server has, and
\* delete_task for one it has no more.
EngineMerges(t) ==
  /\ Connected /\ t \in pushes
  /\ pushes' = pushes \ {t}
  /\ IF t \in remote
     THEN /\ defs' = defs \cup {t} /\ tasks' = tasks \cup {t}
          /\ running' = running
          /\ apart' = (apart /\ UnderWay = {} /\ Owner[t] \in synced)
     ELSE /\ defs' = defs \ {t} /\ tasks' = tasks \ {t}
          /\ running' = IF t \in tasks THEN running \ {t} ELSE running
          /\ apart' = apart
  /\ UNCHANGED <<remote, elsewhere, notices, asked, synced, call, events>>

\* The program ends at any point and starts again.
Restart ==
  /\ Event("restart")
  /\ tasks' = defs /\ running' = {}
  /\ call' = [k \in Calls |-> IF k = "startup" THEN [NoCall EXCEPT !.at = "boot"] ELSE NoCall]
  /\ notices' = {} /\ asked' = {} /\ pushes' = {}
  /\ UNCHANGED <<remote, elsewhere, synced, defs, apart>>

-----------------------------------------------------------------------------

\* The first start: nothing is synced, the server has some tasks.
Init ==
  /\ remote \in SUBSET Tasks /\ elsewhere = {}
  /\ notices = {} /\ asked = {} /\ pushes = {}
  /\ synced = {} /\ defs = {} /\ tasks = {} /\ running = {}
  /\ call = [k \in Calls |-> NoCall]
  /\ apart = TRUE /\ events = 0

CallStep(k) ==
  \/ Bind(k) \/ RequestFails(k) \/ Fetch(k)
  \/ Cleanup(k) \/ Persist(k) \/ Upsert(k) \/ ReadStale(k) \/ DeleteStale(k) \/ Reload(k)

Next ==
  \/ \E P \in SUBSET Phones, force \in BOOLEAN : SyncBegins(P, force)
  \/ \E p \in Phones : UnbindBegins(p) \/ Moves(p) \/ NoticePauses(p)
  \/ AckBegins \/ StartupBegins \/ Unbind
  \/ \E k \in Calls : CallStep(k)
  \/ \E t \in Tasks : Start(t) \/ Stop(t) \/ ServerChanges(t) \/ EngineMerges(t)
  \/ Restart

Spec == Init /\ [][Next]_vars

-----------------------------------------------------------------------------
(* Properties.                                                             *)

\* Whatever calls overlap, fail or are cut off, once none is under way the
\* engine has the tasks of the table: each that writes the table reloads.
EngineMatchesDefs == UnderWay = {} => tasks = defs

\* Calls one at a time, at no point of any of them and after no crash there
\* is a definition of a number that is not synced: no later call finds it.
DefsAreOwned == apart => \A t \in defs : Owner[t] \in synced

\* The engine is the only one that removes a task, so what runs has a
\* definition by which it can be found and cleaned up.
RunsHaveDefs == running \subseteq defs
=============================================================================

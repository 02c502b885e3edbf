------------------------- MODULE AccountSyncProofs -------------------------
(* Proofs about AccountSync: the engine follows the table of definitions, and *)
(* the table follows SYNCED_PHONES, for every value of the constants.         *)
EXTENDS AccountSync, TLAPS

\* While engine and table differ, a call is between its first write of the table
\* and its reload.
SomeCallReloads ==
  tasks = defs \/ \E k \in Calls : call[k].at \in {"stale", "delete", "reload"}

\* What a call still has to write is owned by what will be synced by then.
CallOwned(k) ==
  LET c == call[k]
  IN  /\ c.at = "bind" => c.items = {}
      /\ c.at = "bind" /\ k = "sync" => c.phones = c.final
      /\ c.at = "bind" /\ k = "startup" => c.phones = synced
      /\ c.at \in {"bind", "cleanup"} /\ k # "startup" => synced \ c.removed \subseteq c.final
      /\ c.at \in {"cleanup", "persist"} /\ k # "startup" => \A t \in c.items : Owner[t] \in c.final
      /\ c.at = "cleanup" /\ k = "startup" => \A t \in c.items : Owner[t] \in synced
      /\ c.at = "persist" => k # "startup" /\ \A t \in defs : Owner[t] \in c.final
      /\ c.at \in {"fetch", "upsert"} => \A t \in c.items : Owner[t] \in synced

Alone == \A j, k \in Calls : call[j].at # "idle" /\ call[k].at # "idle" => j = k

OwnedApart ==
  apart => /\ Alone
           /\ \A t \in defs : Owner[t] \in synced
           /\ \A k \in Calls : CallOwned(k)

SyncInv == TypeOK /\ SomeCallReloads /\ OwnedApart

CallRecords ==
  [at: Steps, phones: SUBSET Phones, force: BOOLEAN, removed: SUBSET Phones,
   final: SUBSET Phones, items: SUBSET Tasks, cleaned: BOOLEAN]

\* Nothing is under way and nothing is synced.
LEMMA InitSync == Init => SyncInv
  BY BoundsAssumption
  DEF Init, SyncInv, TypeOK, SomeCallReloads, OwnedApart, CallOwned, Alone, Calls, Steps, NoCall

\* Every step keeps the types.
LEMMA StepTypeOK == TypeOK /\ [Next]_vars => TypeOK'
<1> SUFFICES ASSUME TypeOK, [Next]_vars PROVE TypeOK'
  OBVIOUS
<1> USE OwnerAssumption, BoundsAssumption DEF Calls, Steps, NoCall
<1>1. ASSUME NEW P \in SUBSET Phones, NEW force \in BOOLEAN, SyncBegins(P, force) PROVE TypeOK'
  <2>1. [NoCall EXCEPT !.at = IF P = {} THEN "cleanup" ELSE "bind",
             !.phones = P, !.force = force, !.removed = synced \ P, !.final = P] \in CallRecords
    BY <1>1 DEF SyncBegins, TypeOK, CallRecords
  <2>2. call' \in [Calls -> CallRecords]
    BY <1>1, <2>1 DEF SyncBegins, Begins, TypeOK, CallRecords
  <2>3. apart' \in BOOLEAN /\ events' \in 0 .. MaxEvents /\ asked' \subseteq asked
    BY <1>1 DEF SyncBegins, Begins, Event, TypeOK, serverVars
  <2>4. UNCHANGED <<remote, elsewhere, notices, pushes, synced, defs, tasks, running>>
    BY <1>1 DEF SyncBegins, Begins, serverVars, localVars
  <2> QED  BY <2>2, <2>3, <2>4 DEF TypeOK, CallRecords
<1>2. ASSUME NEW p \in Phones, UnbindBegins(p) PROVE TypeOK'
  <2>1. [NoCall EXCEPT !.at = "bind", !.removed = {p}, !.final = synced \ {p}] \in CallRecords
    BY <1>2 DEF UnbindBegins, TypeOK, CallRecords
  <2>2. call' \in [Calls -> CallRecords]
    BY <1>2, <2>1 DEF UnbindBegins, Begins, TypeOK, CallRecords
  <2>3. apart' \in BOOLEAN /\ events' \in 0 .. MaxEvents /\ asked' \subseteq asked
    BY <1>2 DEF UnbindBegins, Begins, Event, TypeOK, serverVars
  <2>4. UNCHANGED <<remote, elsewhere, notices, pushes, synced, defs, tasks, running>>
    BY <1>2 DEF UnbindBegins, Begins, serverVars, localVars
  <2> QED  BY <2>2, <2>3, <2>4 DEF TypeOK, CallRecords
<1>3. ASSUME NEW p \in Phones, Moves(p) PROVE TypeOK'
  BY <1>3 DEF Moves, Event, TypeOK, serverVars, localVars
<1>4. ASSUME NEW p \in Phones, NoticePauses(p) PROVE TypeOK'
  BY <1>4 DEF NoticePauses, TypeOK, serverVars, localVars
<1>5. ASSUME AckBegins PROVE TypeOK'
  <2>1. [NoCall EXCEPT !.at = "cleanup", !.removed = asked \cap synced, !.final = synced \ asked] \in CallRecords
    BY <1>5 DEF AckBegins, TypeOK, CallRecords
  <2>2. call' \in [Calls -> CallRecords]
    BY <1>5, <2>1 DEF AckBegins, Begins, TypeOK, CallRecords
  <2>3. apart' \in BOOLEAN /\ events' \in 0 .. MaxEvents /\ asked' \subseteq asked
    BY <1>5 DEF AckBegins, Begins, Event, TypeOK, serverVars
  <2>4. UNCHANGED <<remote, elsewhere, notices, pushes, synced, defs, tasks, running>>
    BY <1>5 DEF AckBegins, Begins, serverVars, localVars
  <2> QED  BY <2>2, <2>3, <2>4 DEF TypeOK, CallRecords
<1>6. ASSUME StartupBegins PROVE TypeOK'
  BY <1>6 DEF StartupBegins, TypeOK, serverVars, localVars
<1>7. ASSUME Unbind PROVE TypeOK'
  BY <1>7 DEF Unbind, Goes, TypeOK, serverVars, localVars
<1>8. ASSUME NEW k \in Calls, Bind(k) PROVE TypeOK'
  <2> DEFINE conflicts == IF call[k].force THEN {} ELSE call[k].phones \cap elsewhere
             ids == remote \cap TasksOf(call[k].phones \ conflicts)
  <2>1. ids \in SUBSET Tasks /\ conflicts \in SUBSET Phones
    BY DEF TypeOK, TasksOf
  <2> HIDE DEF ids, conflicts
  <2>2. \/ Ends(k)
        \/ call' = [call EXCEPT ![k].at = "cleanup", ![k].items = ids]
        \/ call' = [call EXCEPT ![k].at = "cleanup", ![k].items = ids, ![k].removed = conflicts]
        \/ call' = [call EXCEPT ![k].at = "fetch", ![k].items = ids]
    BY <1>8 DEF Bind, ids, conflicts
  <2>3. call' \in [Calls -> CallRecords]
    <3>1. call \in [Calls -> CallRecords] /\ NoCall \in CallRecords
      BY DEF TypeOK, CallRecords
    <3>2. /\ [call[k] EXCEPT !.at = "cleanup", !.items = ids] \in CallRecords
          /\ [call[k] EXCEPT !.at = "cleanup", !.items = ids, !.removed = conflicts] \in CallRecords
          /\ [call[k] EXCEPT !.at = "fetch", !.items = ids] \in CallRecords
      BY <2>1, <3>1 DEF CallRecords
    <3> QED  BY <2>2, <3>1, <3>2 DEF Ends
  <2> QED  BY <1>8, <2>3 DEF Bind, BindsAt, TypeOK, CallRecords, localVars
<1>9. ASSUME NEW k \in Calls, RequestFails(k) PROVE TypeOK'
  BY <1>9 DEF RequestFails, BindsAt, Ends, TypeOK, serverVars, localVars
<1>10. ASSUME NEW k \in Calls, Fetch(k) PROVE TypeOK'
  BY <1>10 DEF Fetch, TypeOK, serverVars, localVars
<1>11. ASSUME NEW k \in Calls, Cleanup(k) PROVE TypeOK'
  BY <1>11 DEF Cleanup, TasksOf, TypeOK, serverVars, localVars
<1>12. ASSUME NEW k \in Calls, Persist(k) PROVE TypeOK'
  <2>1. Ends(k) \/ \E at \in Steps : Goes(k, at)
    BY <1>12 DEF Persist
  <2>2. call' \in [Calls -> CallRecords]
    <3>1. call \in [Calls -> CallRecords] /\ NoCall \in CallRecords
      BY DEF TypeOK, CallRecords
    <3>2. CASE Ends(k)
      BY <3>1, <3>2 DEF Ends
    <3>3. ASSUME NEW at \in Steps, Goes(k, at) PROVE call' \in [Calls -> CallRecords]
      <4>1. [call[k] EXCEPT !.at = at] \in CallRecords
        BY <3>1 DEF CallRecords
      <4> QED  BY <3>1, <3>3, <4>1 DEF Goes
    <3> QED  BY <2>1, <3>2, <3>3
  <2>3. synced' \subseteq Phones
    BY <1>12 DEF Persist, TypeOK
  <2> QED  BY <1>12, <2>2, <2>3 DEF Persist, TypeOK, CallRecords, serverVars
<1>13. ASSUME NEW k \in Calls, Upsert(k) PROVE TypeOK'
  BY <1>13 DEF Upsert, Goes, TypeOK, serverVars, localVars
<1>14. ASSUME NEW k \in Calls, ReadStale(k) PROVE TypeOK'
  BY <1>14 DEF ReadStale, TypeOK, serverVars, localVars
<1>15. ASSUME NEW k \in Calls, DeleteStale(k) PROVE TypeOK'
  BY <1>15 DEF DeleteStale, Goes, TypeOK, serverVars, localVars
<1>16. ASSUME NEW k \in Calls, Reload(k) PROVE TypeOK'
  BY <1>16 DEF Reload, Ends, TypeOK, serverVars, localVars
<1>17. ASSUME NEW t \in Tasks, Start(t) PROVE TypeOK'
  BY <1>17 DEF Start, TypeOK, serverVars, localVars
<1>18. ASSUME NEW t \in Tasks, Stop(t) PROVE TypeOK'
  BY <1>18 DEF Stop, TypeOK, serverVars, localVars
<1>19. ASSUME NEW t \in Tasks, ServerChanges(t) PROVE TypeOK'
  BY <1>19 DEF ServerChanges, Event, TypeOK, serverVars, localVars
<1>20. ASSUME NEW t \in Tasks, EngineMerges(t) PROVE TypeOK'
  BY <1>20 DEF EngineMerges, TypeOK, serverVars, localVars
<1>21. ASSUME Restart PROVE TypeOK'
  <2>1. call' \in [Calls -> CallRecords]
    BY <1>21 DEF Restart, Event, TypeOK, CallRecords
  <2> QED  BY <1>21, <2>1 DEF Restart, Event, TypeOK, CallRecords, serverVars, localVars
<1>22. CASE UNCHANGED vars
  BY <1>22 DEF vars, TypeOK, serverVars, localVars
<1> QED
  BY <1>1, <1>2, <1>3, <1>4, <1>5, <1>6, <1>7, <1>8, <1>9, <1>10, <1>11, <1>12, <1>13, <1>14, <1>15, <1>16, <1>17, <1>18, <1>19, <1>20, <1>21, <1>22
    DEF Next, CallStep

\* A call that changes the table alone leads to its reload.
LEMMA StepReloads == TypeOK /\ SomeCallReloads /\ [Next]_vars => SomeCallReloads'
<1> SUFFICES ASSUME TypeOK, SomeCallReloads, [Next]_vars PROVE SomeCallReloads'
  OBVIOUS
<1> USE DEF TypeOK, SomeCallReloads, NoCall
<1>1. ASSUME NEW P \in SUBSET Phones, NEW force \in BOOLEAN, SyncBegins(P, force) PROVE SomeCallReloads'
  BY <1>1 DEF SyncBegins, Begins, Event, serverVars, localVars
<1>2. ASSUME NEW p \in Phones, UnbindBegins(p) PROVE SomeCallReloads'
  BY <1>2 DEF UnbindBegins, Begins, Event, serverVars, localVars
<1>3. ASSUME NEW p \in Phones, Moves(p) PROVE SomeCallReloads'
  BY <1>3 DEF Moves, Event, serverVars, localVars
<1>4. ASSUME NEW p \in Phones, NoticePauses(p) PROVE SomeCallReloads'
  BY <1>4 DEF NoticePauses, serverVars, localVars
<1>5. ASSUME AckBegins PROVE SomeCallReloads'
  BY <1>5 DEF AckBegins, Begins, Event, serverVars, localVars
<1>6. ASSUME StartupBegins PROVE SomeCallReloads'
  BY <1>6 DEF StartupBegins, serverVars, localVars
<1>7. ASSUME Unbind PROVE SomeCallReloads'
  BY <1>7 DEF Unbind, Goes, serverVars, localVars
<1>8. ASSUME NEW k \in Calls, Bind(k) PROVE SomeCallReloads'
  BY <1>8 DEF Bind, BindsAt, Ends, TasksOf, serverVars, localVars
<1>9. ASSUME NEW k \in Calls, RequestFails(k) PROVE SomeCallReloads'
  BY <1>9 DEF RequestFails, BindsAt, Ends, serverVars, localVars
<1>10. ASSUME NEW k \in Calls, Fetch(k) PROVE SomeCallReloads'
  BY <1>10 DEF Fetch, serverVars, localVars
<1>11. ASSUME NEW k \in Calls, Cleanup(k) PROVE SomeCallReloads'
  BY <1>11 DEF Cleanup, TasksOf, serverVars, localVars
<1>12. ASSUME NEW k \in Calls, Persist(k) PROVE SomeCallReloads'
  BY <1>12 DEF Persist, Goes, Ends, serverVars, localVars
<1>13. ASSUME NEW k \in Calls, Upsert(k) PROVE SomeCallReloads'
  BY <1>13 DEF Upsert, Goes, serverVars, localVars
<1>14. ASSUME NEW k \in Calls, ReadStale(k) PROVE SomeCallReloads'
  BY <1>14 DEF ReadStale, serverVars, localVars
<1>15. ASSUME NEW k \in Calls, DeleteStale(k) PROVE SomeCallReloads'
  BY <1>15 DEF DeleteStale, Goes, serverVars, localVars
<1>16. ASSUME NEW k \in Calls, Reload(k) PROVE SomeCallReloads'
  BY <1>16 DEF Reload, Ends, serverVars, localVars
<1>17. ASSUME NEW t \in Tasks, Start(t) PROVE SomeCallReloads'
  BY <1>17 DEF Start, serverVars, localVars
<1>18. ASSUME NEW t \in Tasks, Stop(t) PROVE SomeCallReloads'
  BY <1>18 DEF Stop, serverVars, localVars
<1>19. ASSUME NEW t \in Tasks, ServerChanges(t) PROVE SomeCallReloads'
  BY <1>19 DEF ServerChanges, Event, serverVars, localVars
<1>20. ASSUME NEW t \in Tasks, EngineMerges(t) PROVE SomeCallReloads'
  BY <1>20 DEF EngineMerges, serverVars, localVars
<1>21. ASSUME Restart PROVE SomeCallReloads'
  BY <1>21 DEF Restart, Event, serverVars, localVars
<1>22. CASE UNCHANGED vars
  BY <1>22 DEF vars, serverVars, localVars
<1> QED
  BY <1>1, <1>2, <1>3, <1>4, <1>5, <1>6, <1>7, <1>8, <1>9, <1>10, <1>11, <1>12, <1>13, <1>14, <1>15, <1>16, <1>17, <1>18, <1>19, <1>20, <1>21, <1>22
    DEF Next, CallStep

\* Calls that do not overlap keep the table within the numbers that are synced.
LEMMA StepOwned == TypeOK /\ OwnedApart /\ [Next]_vars => OwnedApart'
<1> SUFFICES ASSUME TypeOK, OwnedApart, [Next]_vars PROVE OwnedApart'
  OBVIOUS
<1> USE OwnerAssumption DEF TypeOK, OwnedApart, Alone, CallOwned, NoCall, UnderWay
<1>1. ASSUME NEW P \in SUBSET Phones, NEW force \in BOOLEAN, SyncBegins(P, force) PROVE OwnedApart'
  BY <1>1 DEF SyncBegins, Begins, Event, serverVars, localVars
<1>2. ASSUME NEW p \in Phones, UnbindBegins(p) PROVE OwnedApart'
  BY <1>2 DEF UnbindBegins, Begins, Event, serverVars, localVars
<1>3. ASSUME NEW p \in Phones, Moves(p) PROVE OwnedApart'
  BY <1>3 DEF Moves, Event, serverVars, localVars
<1>4. ASSUME NEW p \in Phones, NoticePauses(p) PROVE OwnedApart'
  BY <1>4 DEF NoticePauses, serverVars, localVars
<1>5. ASSUME AckBegins PROVE OwnedApart'
  BY <1>5 DEF AckBegins, Begins, Event, serverVars, localVars
<1>6. ASSUME StartupBegins PROVE OwnedApart'
  BY <1>6 DEF StartupBegins, serverVars, localVars
<1>7. ASSUME Unbind PROVE OwnedApart'
  BY <1>7 DEF Unbind, Goes, serverVars, localVars
<1>8. ASSUME NEW k \in Calls, Bind(k) PROVE OwnedApart'
  <2> DEFINE conflicts == IF call[k].force THEN {} ELSE call[k].phones \cap elsewhere
             ids == remote \cap TasksOf(call[k].phones \ conflicts)
  <2>1. \A t \in ids : t \in Tasks /\ Owner[t] \in call[k].phones
    BY DEF TasksOf
  <2> HIDE DEF ids, conflicts
  <2>2. /\ k \in {"sync", "startup"} /\ call[k].at = "bind"
        /\ UNCHANGED <<synced, defs, apart>>
        /\ \/ Ends(k)
           \/ k = "sync" /\ call' = [call EXCEPT ![k].at = "cleanup", ![k].items = ids]
           \/ /\ k = "startup"
              /\ call' = [call EXCEPT ![k].at = "cleanup", ![k].items = ids, ![k].removed = conflicts]
           \/ k = "startup" /\ call' = [call EXCEPT ![k].at = "fetch", ![k].items = ids]
    BY <1>8 DEF Bind, ids, conflicts, localVars
  <2>3. CASE Ends(k)
    BY <2>2, <2>3 DEF Ends
  <2>4. CASE k = "sync" /\ call' = [call EXCEPT ![k].at = "cleanup", ![k].items = ids]
    BY <2>1, <2>2, <2>4
  <2>5. CASE /\ k = "startup"
             /\ call' = [call EXCEPT ![k].at = "cleanup", ![k].items = ids, ![k].removed = conflicts]
    BY <2>1, <2>2, <2>5
  <2>6. CASE k = "startup" /\ call' = [call EXCEPT ![k].at = "fetch", ![k].items = ids]
    BY <2>1, <2>2, <2>6
  <2> QED  BY <2>2, <2>3, <2>4, <2>5, <2>6
<1>9. ASSUME NEW k \in Calls, RequestFails(k) PROVE OwnedApart'
  BY <1>9 DEF RequestFails, BindsAt, Ends, serverVars, localVars
<1>10. ASSUME NEW k \in Calls, Fetch(k) PROVE OwnedApart'
  BY <1>10 DEF Fetch, serverVars, localVars
<1>11. ASSUME NEW k \in Calls, Cleanup(k) PROVE OwnedApart'
  BY <1>11 DEF Cleanup, TasksOf, serverVars, localVars
<1>12. ASSUME NEW k \in Calls, Persist(k) PROVE OwnedApart'
  BY <1>12 DEF Persist, Goes, Ends, serverVars, localVars
<1>13. ASSUME NEW k \in Calls, Upsert(k) PROVE OwnedApart'
  BY <1>13 DEF Upsert, Goes, serverVars, localVars
<1>14. ASSUME NEW k \in Calls, ReadStale(k) PROVE OwnedApart'
  BY <1>14 DEF ReadStale, serverVars, localVars
<1>15. ASSUME NEW k \in Calls, DeleteStale(k) PROVE OwnedApart'
  BY <1>15 DEF DeleteStale, Goes, serverVars, localVars
<1>16. ASSUME NEW k \in Calls, Reload(k) PROVE OwnedApart'
  BY <1>16 DEF Reload, Ends, serverVars, localVars
<1>17. ASSUME NEW t \in Tasks, Start(t) PROVE OwnedApart'
  BY <1>17 DEF Start, serverVars, localVars
<1>18. ASSUME NEW t \in Tasks, Stop(t) PROVE OwnedApart'
  BY <1>18 DEF Stop, serverVars, localVars
<1>19. ASSUME NEW t \in Tasks, ServerChanges(t) PROVE OwnedApart'
  BY <1>19 DEF ServerChanges, Event, serverVars, localVars
<1>20. ASSUME NEW t \in Tasks, EngineMerges(t) PROVE OwnedApart'
  BY <1>20 DEF EngineMerges, serverVars, localVars
<1>21. ASSUME Restart PROVE OwnedApart'
  BY <1>21 DEF Restart, Event, serverVars, localVars
<1>22. CASE UNCHANGED vars
  BY <1>22 DEF vars, serverVars, localVars
<1> QED
  BY <1>1, <1>2, <1>3, <1>4, <1>5, <1>6, <1>7, <1>8, <1>9, <1>10, <1>11, <1>12, <1>13, <1>14, <1>15, <1>16, <1>17, <1>18, <1>19, <1>20, <1>21, <1>22
    DEF Next, CallStep

LEMMA SyncInvariant == Spec => []SyncInv
<1>1. SyncInv /\ [Next]_vars => SyncInv'
  BY StepTypeOK, StepReloads, StepOwned DEF SyncInv
<1> QED
  BY InitSync, <1>1, PTL DEF Spec

\* Every reachable state is one of the declared types.
THEOREM TypeCorrect == Spec => []TypeOK
<1>1. SyncInv => TypeOK
  BY DEF SyncInv
<1> QED
  BY <1>1, SyncInvariant, PTL

\* Once no call is under way the engine has the tasks of the table, however many
\* calls overlapped, failed or were cut off (handle_reload_tasks).
THEOREM EngineFollowsTable == Spec => []EngineMatchesDefs
<1>1. SyncInv => EngineMatchesDefs
  BY DEF SyncInv, SomeCallReloads, EngineMatchesDefs, UnderWay
<1> QED
  BY <1>1, SyncInvariant, PTL

\* Calls one at a time keep every definition within SYNCED_PHONES, at each of
\* their steps (apply_phone_state_change before merge_batch_task_items).
THEOREM TableFollowsAccounts == Spec => []DefsAreOwned
<1>1. SyncInv => DefsAreOwned
  BY DEF SyncInv, OwnedApart, DefsAreOwned
<1> QED
  BY <1>1, SyncInvariant, PTL
=============================================================================

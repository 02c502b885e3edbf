--------------------------- MODULE ProgressOutbox ---------------------------
(***************************************************************************)
(* How the results of a task reach the server.  A worker writes a progress *)
(* row and then the shops it found (engine/worker.rs), and announces the   *)
(* keyword to the engine, which uploads it in a task of its own, the fast  *)
(* path (engine/event_loop.rs).  The flusher uploads whatever row is still *)
(* pending (engine/progress_flusher.rs).  The three meet only in SQLite,   *)
(* each of whose calls is a step here.                                     *)
(*                                                                         *)
(* One task is modelled.  The lists of shops are numbers, 0 is the empty   *)
(* list.  Successive batches of a round are one batch, and the engine's    *)
(* handlers, one step each, are here what they mean to the outbox          *)
(* (TaskEngine has them in full).                                          *)
(***************************************************************************)
EXTENDS Naturals

CONSTANTS
  Keywords,    \* the (city, keyword) pairs of the task
  Commands,    \* the messages the environment sends in this instance
  MaxRounds,   \* bound: rounds of the task
  MaxScans,    \* bound: keywords scanned, over all rounds
  MaxWorkers,  \* bound: workers spawned between two restarts
  MaxUploads,  \* bound: fast paths at work at the same time
  MaxFailures, \* bound: uploads that fail
  MaxCrashes   \* bound: restarts of the program

ASSUME OutboxAssumption ==
  {MaxRounds, MaxScans, MaxWorkers, MaxUploads, MaxFailures, MaxCrashes} \subseteq Nat

RoundIds == 1 .. MaxRounds
Lists    == 0 .. MaxScans
Keys     == Keywords \X RoundIds
Slots    == 1 .. MaxUploads

VARIABLES
  \* the engine
  round,      \* the round of the task's runtime, 0 when it is not executing
  ok,         \* keywords with status "ok" in memory
  nextSeq,    \* next_worker_seq
  msgs,       \* KeywordDone messages in the channel, <<worker_seq, keyword>>
  uploads,    \* slot -> a fast path
  \* the worker and the flusher
  wk,
  late,       \* database calls a cancelled worker had issued
  flusher,
  \* SQLite
  known,      \* the task's definition and rounds exist
  saved,      \* current_round_id of the task's state row, 0 for NULL
  nextRound,  \* the AUTOINCREMENT of a_task_rounds
  outbox,     \* a_task_progress: <<keyword, round>> -> sync_status
  results,    \* a_task_results: <<keyword, round>> -> list
  \* the server, the phone, and what has happened
  delivered,  \* <<keyword, round, list>> the server has accepted
  scans,      \* number of keywords scanned
  failures,   \* number of uploads that failed
  crashes     \* number of restarts

engineVars == <<round, ok, nextSeq, msgs, uploads>>
dbVars     == <<known, saved, nextRound, outbox, results>>
history    == <<delivered, scans, failures, crashes>>
vars == <<engineVars, wk, late, flusher, dbVars, history>>

\* pc of a worker: "scan", or the call it is at: "record", "save", "send"
NoWorker == [pc |-> "idle", seq |-> 0, round |-> 0, todo |-> {}, key |-> <<>>, list |-> 0]
NoUpload == [pc |-> "idle", key |-> <<>>, list |-> 0]
NewUpload(key) == [pc |-> "context", key |-> key, list |-> 0]
Asleep   == [pc |-> "sleep", rows |-> {}, key |-> <<>>, list |-> 0]

TypeOK ==
  /\ round \in RoundIds \cup {0} /\ saved \in RoundIds \cup {0} /\ nextRound \in Nat \ {0}
  /\ ok \subseteq Keywords /\ nextSeq \in Nat /\ msgs \subseteq Nat \X Keywords
  /\ uploads \in [Slots -> [pc: {"idle", "context", "report", "mark"},
                            key: Keys \cup {<<>>}, list: Lists]]
  /\ wk \in [pc: {"idle", "scan", "record", "save", "send"}, seq: Nat, round: RoundIds \cup {0},
             todo: SUBSET Keywords, key: Keys \cup {<<>>}, list: Lists]
  /\ late \subseteq [pc: {"record", "save"}, key: Keys, list: Lists]
  /\ flusher \in [pc: {"sleep", "next", "report", "mark"}, rows: SUBSET Keys,
                  key: Keys \cup {<<>>}, list: Lists]
  /\ known \in BOOLEAN /\ outbox \in [Keys -> {"none", "pending", "synced"}]
  /\ results \in [Keys -> Lists] /\ delivered \subseteq Keywords \X RoundIds \X Lists
  /\ scans \in Lists /\ failures \in 0 .. MaxFailures
  /\ crashes \in 0 .. MaxCrashes

-----------------------------------------------------------------------------
(* The database calls.                                                     *)

\* record_keyword_done: a row that is there keeps its sync_status.
Record(key) ==
  outbox' = [outbox EXCEPT ![key] = IF @ = "none" THEN "pending" ELSE @]

\* save_keyword_results
Save(key, list) == results' = [results EXCEPT ![key] = list]

\* mark_progress_synced: no row, no effect.
Mark(key) == outbox' = [outbox EXCEPT ![key] = IF @ = "none" THEN @ ELSE "synced"]

\* Wrong variant: a task that starts over has all its progress deleted.
ClearAll(O) == [key \in Keys |-> "none"]

\* clear_task_progress and cleanup_synced_progress
ClearSynced(O) == [key \in Keys |-> IF O[key] = "synced" THEN "none" ELSE O[key]]

\* Wrong variant: only the rows of the round the task is in.
PendingOfRound == {key \in Keys : outbox[key] = "pending" /\ key[2] = saved}

\* load_pending_progress
Pending == {key \in Keys : outbox[key] = "pending"}

-----------------------------------------------------------------------------
(* The engine.                                                             *)

Spawn(r, todo) ==
  /\ nextSeq <= MaxWorkers
  /\ wk' = IF todo = {} THEN NoWorker
           ELSE [NoWorker EXCEPT !.pc = "scan", !.seq = nextSeq, !.round = r, !.todo = todo]
  /\ nextSeq' = nextSeq + 1

\* A worker that is cancelled stops at its await; the call it awaits may have
\* reached the database's thread and is then executed.
CallsLeft == IF wk.pc \in {"record", "save"}
             THEN {late, late \cup {[pc |-> wk.pc, key |-> wk.key, list |-> wk.list]}} ELSE {late}

NewRound ==
  /\ known /\ nextRound <= MaxRounds
  /\ round' = nextRound /\ saved' = nextRound /\ nextRound' = nextRound + 1
  /\ ok' = {} /\ Spawn(nextRound, Keywords)

Start ==
  /\ "start" \in Commands /\ saved = 0 /\ ok = {}
  /\ NewRound
  /\ UNCHANGED <<msgs, uploads, late, flusher, known, outbox, results, history>>

Retry ==
  /\ "retry" \in Commands
  /\ NewRound
  /\ late' \in CallsLeft
  /\ outbox' = ClearSynced(outbox)
  /\ UNCHANGED <<msgs, uploads, flusher, known, results, history>>

Pause ==
  /\ "pause" \in Commands /\ round # 0
  /\ round' = 0 /\ wk' = NoWorker /\ late' \in CallsLeft
  /\ UNCHANGED <<ok, nextSeq, msgs, uploads, flusher, dbVars, history>>

Resume ==
  /\ "pause" \in Commands /\ round = 0 /\ saved # 0
  /\ round' = saved /\ Spawn(saved, Keywords \ ok)
  /\ UNCHANGED <<ok, msgs, uploads, late, flusher, dbVars, history>>

Stop ==
  /\ "stop" \in Commands /\ saved # 0
  /\ round' = 0 /\ saved' = 0 /\ ok' = {} /\ wk' = NoWorker /\ late' \in CallsLeft
  /\ outbox' = ClearSynced(outbox)
  /\ UNCHANGED <<nextSeq, msgs, uploads, flusher, known, nextRound, results, history>>

\* batch_cleanup_tasks, after the runtime was removed
Forget ==
  /\ "forget" \in Commands /\ known
  /\ known' = FALSE /\ round' = 0 /\ saved' = 0 /\ ok' = {} /\ wk' = NoWorker /\ late' \in CallsLeft
  /\ outbox' = [key \in Keys |-> "none"] /\ results' = [key \in Keys |-> 0]
  /\ UNCHANGED <<nextSeq, msgs, uploads, flusher, nextRound, history>>

\* A KeywordDone of any worker of the task starts a fast path for the round of
\* the runtime; its keyword counts if the worker is the active one.
HandleKeywordDone(seq, k) ==
  /\ <<seq, k>> \in msgs
  /\ msgs' = msgs \ {<<seq, k>>}
  /\ ok' = IF wk.pc # "idle" /\ wk.seq = seq THEN ok \cup {k} ELSE ok
  /\ \/ round = 0 /\ UNCHANGED uploads
     \/ /\ round # 0
        /\ \E u \in Slots :
             /\ uploads[u].pc = "idle"
             /\ uploads' = [uploads EXCEPT ![u] = NewUpload(<<k, round>>)]
  /\ UNCHANGED <<round, nextSeq, wk, late, flusher, dbVars, history>>

\* complete_task_success: the worker has sent everything and it was read.
Finish ==
  /\ wk.pc = "scan" /\ wk.todo = {} /\ \A k \in Keywords : <<wk.seq, k>> \notin msgs
  /\ round' = 0 /\ saved' = 0 /\ wk' = NoWorker
  /\ UNCHANGED <<ok, nextSeq, msgs, uploads, late, flusher, known, nextRound, outbox, results,
                 history>>

-----------------------------------------------------------------------------
(* The worker: record_keyword_done, save_keyword_results unless the list is *)
(* empty, then the message.                                                *)

Scan(k) ==
  /\ wk.pc = "scan" /\ k \in wk.todo /\ scans < MaxScans
  /\ scans' = scans + 1
  /\ \E list \in {0, scans'} :
       wk' = [wk EXCEPT !.pc = "record", !.todo = @ \ {k}, !.key = <<k, wk.round>>, !.list = list]
  /\ UNCHANGED <<engineVars, late, flusher, dbVars, delivered, failures, crashes>>

WorkerRecord ==
  /\ wk.pc = "record"
  /\ Record(wk.key)
  /\ wk' = [wk EXCEPT !.pc = IF wk.list = 0 THEN "send" ELSE "save"]
  /\ UNCHANGED <<engineVars, late, flusher, known, saved, nextRound, results, delivered, scans,
                 failures, crashes>>

WorkerSave ==
  /\ wk.pc = "save"
  /\ Save(wk.key, wk.list)
  /\ wk' = [wk EXCEPT !.pc = "send"]
  /\ UNCHANGED <<engineVars, late, flusher, known, saved, nextRound, outbox, history>>

WorkerSend ==
  /\ wk.pc = "send"
  /\ msgs' = msgs \cup {<<wk.seq, wk.key[1]>>}
  /\ wk' = [wk EXCEPT !.pc = "scan", !.key = <<>>, !.list = 0]
  /\ UNCHANGED <<round, ok, nextSeq, uploads, late, flusher, dbVars, history>>

LateCall(c) ==
  /\ c \in late
  /\ late' = late \ {c}
  /\ \/ c.pc = "record" /\ Record(c.key) /\ UNCHANGED results
     \/ c.pc = "save" /\ Save(c.key, c.list) /\ UNCHANGED outbox
  /\ UNCHANGED <<engineVars, wk, flusher, known, saved, nextRound, delivered, scans, failures,
                 crashes>>

-----------------------------------------------------------------------------
(* Uploads.  A request is accepted, or fails, or fails for the client only  *)
(* (its answer is lost).                                                   *)

Accept(key, list) == delivered' = delivered \cup {<<key[1], key[2], list>>}
Fail(key, list) ==
  /\ failures < MaxFailures /\ failures' = failures + 1
  /\ \/ Accept(key, list)
     \/ UNCHANGED delivered

\* load_upload_context of the fast path; without a context the list is empty.
UploadContext(u) ==
  /\ uploads[u].pc = "context"
  /\ LET list == IF known THEN results[uploads[u].key] ELSE 0
     IN  uploads' = [uploads EXCEPT ![u] = [pc |-> "report", key |-> @.key, list |-> list]]
  /\ UNCHANGED <<round, ok, nextSeq, msgs, wk, late, flusher, dbVars, history>>

UploadReport(u) ==
  /\ uploads[u].pc = "report"
  /\ \/ /\ Accept(uploads[u].key, uploads[u].list)
        /\ uploads' = [uploads EXCEPT ![u].pc = "mark"]
        /\ UNCHANGED failures
     \/ /\ Fail(uploads[u].key, uploads[u].list)
        /\ uploads' = [uploads EXCEPT ![u] = NoUpload]
  /\ UNCHANGED <<round, ok, nextSeq, msgs, wk, late, flusher, dbVars, scans, crashes>>

UploadMark(u) ==
  /\ uploads[u].pc = "mark"
  /\ Mark(uploads[u].key)
  /\ uploads' = [uploads EXCEPT ![u] = NoUpload]
  /\ UNCHANGED <<round, ok, nextSeq, msgs, wk, late, flusher, known, saved, nextRound, results,
                 history>>

FlusherLoad ==
  /\ flusher.pc = "sleep" /\ Pending # {}
  /\ flusher' = [Asleep EXCEPT !.pc = "next", !.rows = Pending]
  /\ UNCHANGED <<engineVars, wk, late, dbVars, history>>

\* What is left of a sweep after a row
FlusherMore(rows) == IF rows = {} THEN Asleep
                     ELSE [pc |-> "next", rows |-> rows, key |-> <<>>, list |-> 0]

\* load_upload_context of the flusher; a row without a context is skipped.
FlusherContext(key) ==
  /\ flusher.pc = "next" /\ key \in flusher.rows
  /\ flusher' = IF known
                THEN [pc |-> "report", rows |-> flusher.rows \ {key}, key |-> key, list |-> results[key]]
                ELSE FlusherMore(flusher.rows \ {key})
  /\ UNCHANGED <<engineVars, wk, late, dbVars, history>>

\* Wrong variant: the flusher marks a row whatever the answer.
FlusherReportUnheard ==
  /\ flusher.pc = "report"
  /\ \/ Accept(flusher.key, flusher.list) /\ UNCHANGED failures
     \/ Fail(flusher.key, flusher.list)
  /\ flusher' = [flusher EXCEPT !.pc = "mark"]
  /\ UNCHANGED <<engineVars, wk, late, dbVars, scans, crashes>>

\* A failure ends the sweep.
FlusherReport ==
  /\ flusher.pc = "report"
  /\ \/ /\ Accept(flusher.key, flusher.list)
        /\ flusher' = [flusher EXCEPT !.pc = "mark"]
        /\ UNCHANGED failures
     \/ /\ Fail(flusher.key, flusher.list)
        /\ flusher' = Asleep
  /\ UNCHANGED <<engineVars, wk, late, dbVars, scans, crashes>>

FlusherMark ==
  /\ flusher.pc = "mark"
  /\ Mark(flusher.key)
  /\ flusher' = FlusherMore(flusher.rows)
  /\ UNCHANGED <<engineVars, wk, late, known, saved, nextRound, results, history>>

-----------------------------------------------------------------------------
\* A crash, and a start on the same or another day.  Calls that had been
\* issued are lost.
Restart(newDay) ==
  /\ (IF newDay THEN "newday" ELSE "restart") \in Commands
  /\ crashes < MaxCrashes /\ crashes' = crashes + 1
  /\ round' = 0 /\ nextSeq' = 1 /\ msgs' = {} /\ uploads' = [u \in Slots |-> NoUpload]
  /\ wk' = NoWorker /\ late' = {} /\ flusher' = Asleep
  /\ IF newDay THEN outbox' = ClearSynced(outbox) /\ saved' = 0 ELSE UNCHANGED <<outbox, saved>>
  /\ ok' = {k \in Keywords : saved' # 0 /\ outbox'[<<k, saved'>>] # "none"}
  /\ UNCHANGED <<known, nextRound, results, delivered, scans, failures>>

Init ==
  /\ round = 0 /\ ok = {} /\ nextSeq = 1 /\ msgs = {} /\ uploads = [u \in Slots |-> NoUpload]
  /\ wk = NoWorker /\ late = {} /\ flusher = Asleep
  /\ known = TRUE /\ saved = 0 /\ nextRound = 1
  /\ outbox = [key \in Keys |-> "none"] /\ results = [key \in Keys |-> 0]
  /\ delivered = {} /\ scans = 0 /\ failures = 0 /\ crashes = 0

Command == Start \/ Retry \/ Pause \/ Resume \/ Stop \/ Forget
Worker  == (\E k \in Keywords : Scan(k)) \/ WorkerRecord \/ WorkerSave \/ WorkerSend
Upload(u) == UploadContext(u) \/ UploadReport(u) \/ UploadMark(u)
Flush == FlusherLoad \/ (\E key \in Keys : FlusherContext(key)) \/ FlusherReport \/ FlusherMark

Next ==
  \/ Command \/ Worker \/ Flush \/ Finish
  \/ \E m \in msgs : HandleKeywordDone(m[1], m[2])
  \/ \E c \in late : LateCall(c)
  \/ \E u \in Slots : Upload(u)
  \/ \E newDay \in BOOLEAN : Restart(newDay)

Spec == Init /\ [][Next]_vars

\* The flusher wakes up again and again, the server answers again some day and
\* the program stays up (failures and crashes are bounded).  Nothing is assumed
\* of the engine, the worker and the fast path.
FairSpec == Spec /\ WF_vars(Flush)

-----------------------------------------------------------------------------
\* A progress row stays pending until the server has accepted a report of its
\* keyword for its round, whatever is stopped, retried, cleaned or crashes,
\* unless the task itself is deleted.
PendingUntilDelivered ==
  [][\A key \in Keys :
       outbox[key] = "pending" /\ outbox'[key] # "pending" =>
         ~known' \/ \E list \in Lists : <<key[1], key[2], list>> \in delivered]_vars

\* Who is past the scan of a keyword holds its key.
KeysHeld ==
  /\ wk.pc # "idle" => wk.round \in RoundIds
  /\ wk.pc \in {"record", "save", "send"} => wk.key \in Keys
  /\ \A u \in Slots : uploads[u].pc # "idle" => uploads[u].key \in Keys
  /\ flusher.pc \in {"report", "mark"} => flusher.key \in Keys

\* A row about to be marked was accepted by the server.
MarkedDelivered ==
  /\ \A u \in Slots : uploads[u].pc = "mark" =>
       <<uploads[u].key[1], uploads[u].key[2], uploads[u].list>> \in delivered
  /\ flusher.pc = "mark" => <<flusher.key[1], flusher.key[2], flusher.list>> \in delivered

\* The inductive invariant behind PendingUntilDelivered.
OutboxInv == TypeOK /\ KeysHeld /\ MarkedDelivered

\* Every pending row of a task that is not deleted is uploaded, by the fast
\* path or by the flusher.
EventuallyUploaded ==
  \A key \in Keys : outbox[key] = "pending" ~> (outbox[key] # "pending" \/ ~known)

-----------------------------------------------------------------------------
(* The outbox implements AtLeastOnce: a pending row is owed, by keyword and *)
(* round, whatever list of shops its reports had.                           *)

Accepted == {<<d[1], d[2]>> : d \in delivered}
Promise == INSTANCE AtLeastOnce WITH Items <- Keys, owed <- Pending, accepted <- Accepted,
                                     deleted <- ~known

\* Every call of the database and every answer of the server is a step of
\* AtLeastOnce or changes nothing it can see: several rows never leave the
\* outbox in one step, unless the task is deleted.
ImplementsOutbox == Promise!Spec
=============================================================================

------------------------ MODULE ProgressOutboxProofs ------------------------
(***************************************************************************)
(* No progress row is given up before the server has accepted its keyword, *)
(* and the outbox implements AtLeastOnce, for every value of the constants.*)
(***************************************************************************)
EXTENDS ProgressOutbox, TLAPS

\* The engine's handlers, the worker, the uploads, the flusher and restarts
\* keep the types and the keys that are held.
LEMMA InvInit == Init => OutboxInv
<1> SUFFICES ASSUME Init PROVE OutboxInv
  OBVIOUS
<1>1. TypeOK
  BY OutboxAssumption DEF Init, TypeOK, NoUpload, NoWorker, Asleep, Lists, RoundIds, Keys
<1>2. KeysHeld /\ MarkedDelivered
  BY DEF Init, KeysHeld, MarkedDelivered, NoUpload, NoWorker, Asleep
<1> QED BY <1>1, <1>2 DEF OutboxInv

\* The handlers of the engine that touch neither uploads nor flusher
LEMMA CallsLeftType == ASSUME TypeOK, KeysHeld, late' \in CallsLeft
                       PROVE  late' \subseteq [pc: {"record", "save"}, key: Keys, list: Lists]
BY DEF TypeOK, KeysHeld, CallsLeft

LEMMA ClearSyncedType ==
  ASSUME TypeOK PROVE ClearSynced(outbox) \in [Keys -> {"none", "pending", "synced"}]
BY DEF TypeOK, ClearSynced

LEMMA SpawnType ==
  ASSUME TypeOK, NEW r \in RoundIds, NEW todo \in SUBSET Keywords, Spawn(r, todo)
  PROVE  /\ wk' \in [pc: {"idle", "scan", "record", "save", "send"}, seq: Nat,
                     round: RoundIds \cup {0}, todo: SUBSET Keywords, key: Keys \cup {<<>>}, list: Lists]
         /\ nextSeq' \in Nat
         /\ wk'.pc # "idle" => wk'.round \in RoundIds
         /\ wk'.pc \notin {"record", "save", "send"}
<1> DEFINE W == [pc |-> "scan", seq |-> nextSeq, round |-> r, todo |-> todo, key |-> <<>>, list |-> 0]
<1>1. wk' = NoWorker \/ wk' = W
  BY DEF Spawn, NoWorker
<1>2. 0 \in Lists /\ nextSeq \in Nat /\ nextSeq' = nextSeq + 1
  BY OutboxAssumption DEF Lists, TypeOK, Spawn
<1> QED BY <1>1, <1>2 DEF NoWorker

LEMMA NoWorkerType ==
  /\ NoWorker \in [pc: {"idle", "scan", "record", "save", "send"}, seq: Nat,
                   round: RoundIds \cup {0}, todo: SUBSET Keywords, key: Keys \cup {<<>>}, list: Lists]
  /\ NoWorker.pc = "idle"
BY OutboxAssumption DEF NoWorker, Lists

LEMMA CommandKeeps == ASSUME OutboxInv, Command PROVE OutboxInv'
<1> USE DEF OutboxInv
<1>1. MarkedDelivered'
  BY DEF Command, Start, Retry, Pause, Resume, Stop, Forget, history, MarkedDelivered, TypeOK
<1>2. ASSUME NewRound PROVE /\ round' \in RoundIds /\ saved' \in RoundIds /\ nextRound' \in Nat \ {0}
                            /\ ok' = {} /\ Spawn(nextRound, Keywords) /\ nextRound \in RoundIds
  <2>1. nextRound \in Nat \ {0} /\ MaxRounds \in Nat /\ nextRound <= MaxRounds /\ nextRound >= 1
    BY <1>2, OutboxAssumption DEF NewRound, TypeOK
  <2> QED BY <2>1, <1>2 DEF NewRound, RoundIds
<1>3. CASE Start
  BY <1>1, <1>2, <1>3, SpawnType DEF Start, TypeOK, KeysHeld, history
<1>4. CASE Retry
  BY <1>1, <1>2, <1>4, SpawnType, CallsLeftType, ClearSyncedType DEF Retry, TypeOK, KeysHeld, history
<1>5. CASE Pause
  BY <1>1, <1>5, NoWorkerType, CallsLeftType DEF Pause, TypeOK, KeysHeld, history, dbVars
<1>6. CASE Resume
  BY <1>1, <1>6, SpawnType DEF Resume, TypeOK, KeysHeld, history, dbVars
<1>7. CASE Stop
  BY <1>1, <1>7, NoWorkerType, CallsLeftType, ClearSyncedType DEF Stop, TypeOK, KeysHeld, history
<1>8. CASE Forget
  <2>1. 0 \in Lists
    BY OutboxAssumption DEF Lists
  <2>2. outbox' \in [Keys -> {"none", "pending", "synced"}] /\ results' \in [Keys -> Lists]
    BY <1>8, <2>1 DEF Forget
  <2> QED BY <1>1, <1>8, <2>2, NoWorkerType, CallsLeftType DEF Forget, TypeOK, KeysHeld, history
<1> QED BY <1>3, <1>4, <1>5, <1>6, <1>7, <1>8 DEF Command

\* A worker is at work on a key of its round; nobody else is concerned.
LEMMA WorkerKeeps == ASSUME OutboxInv, Worker PROVE OutboxInv'
<1> USE DEF OutboxInv
<1>1. MarkedDelivered'
  BY DEF Worker, Scan, WorkerRecord, WorkerSave, WorkerSend, history, engineVars, MarkedDelivered
<1>2. ASSUME NEW k \in Keywords, Scan(k) PROVE OutboxInv'
  <2>1. scans' \in Lists /\ 0 \in Lists
    BY <1>2, OutboxAssumption DEF Scan, TypeOK, Lists
  <2>2. <<k, wk.round>> \in Keys
    BY <1>2 DEF Scan, KeysHeld, Keys
  <2>3. PICK list \in Lists :
          wk' = [wk EXCEPT !.pc = "record", !.todo = @ \ {k}, !.key = <<k, wk.round>>, !.list = list]
    BY <1>2, <2>1 DEF Scan
  <2>4. wk' = [pc |-> "record", seq |-> wk.seq, round |-> wk.round, todo |-> wk.todo \ {k},
               key |-> <<k, wk.round>>, list |-> list]
    BY <2>3 DEF TypeOK
  <2> QED BY <1>1, <1>2, <2>1, <2>2, <2>4 DEF Scan, TypeOK, KeysHeld, engineVars, dbVars
<1>3. CASE WorkerRecord
  <2>1. wk.key \in Keys
    BY <1>3 DEF WorkerRecord, KeysHeld
  <2> QED BY <1>1, <1>3, <2>1 DEF WorkerRecord, Record, TypeOK, KeysHeld, engineVars
<1>4. CASE WorkerSave
  <2>1. wk.key \in Keys
    BY <1>4 DEF WorkerSave, KeysHeld
  <2> QED BY <1>1, <1>4, <2>1 DEF WorkerSave, Save, TypeOK, KeysHeld, engineVars, history
<1>5. CASE WorkerSend
  <2>1. wk.key \in Keys /\ wk.key[1] \in Keywords
    BY <1>5 DEF WorkerSend, KeysHeld, Keys
  <2>2. 0 \in Lists
    BY OutboxAssumption DEF Lists
  <2>3. wk' = [pc |-> "scan", seq |-> wk.seq, round |-> wk.round, todo |-> wk.todo, key |-> <<>>, list |-> 0]
    BY <1>5 DEF WorkerSend, TypeOK
  <2>4. msgs' \subseteq Nat \X Keywords
    BY <1>5, <2>1 DEF WorkerSend, TypeOK
  <2> QED BY <1>1, <1>5, <2>2, <2>3, <2>4 DEF WorkerSend, TypeOK, KeysHeld, dbVars, history
<1> QED BY <1>2, <1>3, <1>4, <1>5 DEF Worker

\* Calls that outlive their worker
LEMMA LateKeeps == ASSUME OutboxInv, NEW c \in late, LateCall(c) PROVE OutboxInv'
<1>1. c.key \in Keys /\ c.list \in Lists
  BY DEF OutboxInv, TypeOK
<1>2. MarkedDelivered' /\ KeysHeld'
  BY DEF LateCall, engineVars, OutboxInv, MarkedDelivered, KeysHeld
<1>3. /\ outbox' \in [Keys -> {"none", "pending", "synced"}]
      /\ results' \in [Keys -> Lists]
  BY <1>1 DEF LateCall, Record, Save, OutboxInv, TypeOK
<1>4. late' \subseteq late
  BY DEF LateCall
<1>5. TypeOK'
  BY <1>3, <1>4 DEF LateCall, engineVars, OutboxInv, TypeOK
<1> QED BY <1>2, <1>5 DEF OutboxInv

\* The engine's two messages of a worker
LEMMA HandleKeeps ==
  ASSUME OutboxInv, \/ Finish
                    \/ \E m \in msgs : HandleKeywordDone(m[1], m[2])
  PROVE  OutboxInv'
<1> USE DEF OutboxInv
<1>1. CASE Finish
  BY <1>1, NoWorkerType DEF Finish, TypeOK, KeysHeld, MarkedDelivered, history
<1>2. ASSUME NEW m \in msgs, HandleKeywordDone(m[1], m[2]) PROVE OutboxInv'
  <2>1. m[2] \in Keywords /\ msgs' \subseteq Nat \X Keywords /\ ok' \subseteq Keywords
    BY <1>2 DEF HandleKeywordDone, TypeOK
  <2>2. CASE UNCHANGED uploads
    BY <1>2, <2>1, <2>2 DEF HandleKeywordDone, TypeOK, KeysHeld, MarkedDelivered, history, dbVars
  <2>3. ASSUME round # 0, NEW u \in Slots, uploads' = [uploads EXCEPT ![u] = NewUpload(<<m[2], round>>)]
        PROVE  OutboxInv'
    <3> DEFINE U == NewUpload(<<m[2], round>>)
    <3>1. <<m[2], round>> \in Keys /\ 0 \in Lists
      BY <2>1, <2>3, OutboxAssumption DEF TypeOK, Keys, Lists
    <3>2. U \in [pc: {"idle", "context", "report", "mark"}, key: Keys \cup {<<>>}, list: Lists]
          /\ U.pc = "context" /\ U.key \in Keys
      BY <3>1 DEF NewUpload
    <3>3. uploads' = [uploads EXCEPT ![u] = U]
      BY <2>3
    <3> HIDE DEF U
    <3>4. /\ uploads' \in [Slots -> [pc: {"idle", "context", "report", "mark"},
                                     key: Keys \cup {<<>>}, list: Lists]]
          /\ uploads'[u] = U /\ \A v \in Slots : v # u => uploads'[v] = uploads[v]
      BY <3>2, <3>3 DEF TypeOK
    <3>5. UNCHANGED <<round, nextSeq, wk, late, flusher, dbVars, history>>
      BY <1>2 DEF HandleKeywordDone
    <3>6. KeysHeld' /\ MarkedDelivered'
      BY <3>2, <3>4, <3>5 DEF KeysHeld, MarkedDelivered, history
    <3> QED BY <2>1, <3>4, <3>5, <3>6 DEF TypeOK, history, dbVars
  <2> QED BY <1>2, <2>2, <2>3 DEF HandleKeywordDone
<1> QED BY <1>1, <1>2

\* An upload slot or the flusher holds a key from the context to the mark.
LEMMA MarkType ==
  ASSUME TypeOK, NEW key, Mark(key) PROVE outbox' \in [Keys -> {"none", "pending", "synced"}]
BY DEF Mark, TypeOK

LEMMA AnswerType ==
  ASSUME TypeOK, NEW key \in Keys, NEW list \in Lists,
         \/ Accept(key, list) /\ UNCHANGED failures
         \/ Fail(key, list)
  PROVE  /\ delivered \subseteq delivered' /\ delivered' \subseteq Keywords \X RoundIds \X Lists
         /\ failures' \in 0 .. MaxFailures
<1>1. key[1] \in Keywords /\ key[2] \in RoundIds
  BY DEF Keys
<1>2. failures' = failures \/ (failures' = failures + 1 /\ failures < MaxFailures)
  BY DEF Fail
<1>3. delivered' = delivered \/ delivered' = delivered \cup {<<key[1], key[2], list>>}
  BY DEF Fail, Accept
<1>4. failures' \in 0 .. MaxFailures
  BY <1>2, OutboxAssumption DEF TypeOK
<1> QED BY <1>1, <1>3, <1>4 DEF TypeOK

LEMMA UploadKeeps == ASSUME OutboxInv, NEW u \in Slots, Upload(u) PROVE OutboxInv'
<1> DEFINE UploadType == [pc: {"idle", "context", "report", "mark"}, key: Keys \cup {<<>>}, list: Lists]
<1>1. /\ uploads[u].pc # "idle" /\ uploads[u].key \in Keys /\ uploads[u].list \in Lists
      /\ uploads \in [Slots -> UploadType]
  BY DEF Upload, UploadContext, UploadReport, UploadMark, OutboxInv, KeysHeld, TypeOK
<1>2. ASSUME NEW U \in UploadType, uploads' = [uploads EXCEPT ![u] = U],
             U.pc # "idle" => U.key \in Keys, delivered \subseteq delivered',
             U.pc = "mark" => <<U.key[1], U.key[2], U.list>> \in delivered',
             UNCHANGED <<wk, flusher>>
      PROVE  uploads' \in [Slots -> UploadType] /\ KeysHeld' /\ MarkedDelivered'
  <2>1. uploads' \in [Slots -> UploadType] /\ uploads'[u] = U
        /\ \A v \in Slots : v # u => uploads'[v] = uploads[v]
    BY <1>1, <1>2
  <2> QED BY <1>2, <2>1 DEF OutboxInv, KeysHeld, MarkedDelivered
<1>3. 0 \in Lists
  BY OutboxAssumption DEF Lists
<1>4. CASE UploadContext(u)
  <2> DEFINE l == IF known THEN results[uploads[u].key] ELSE 0
             U == [pc |-> "report", key |-> uploads[u].key, list |-> l]
  <2>1. l \in Lists
    BY <1>1, <1>3 DEF OutboxInv, TypeOK
  <2>2. uploads' = [uploads EXCEPT ![u] = U]
    BY <1>1, <1>4 DEF UploadContext
  <2>3. U \in UploadType /\ U.pc = "report" /\ U.key \in Keys
    BY <1>1, <2>1
  <2> HIDE DEF U, l
  <2>4. uploads' \in [Slots -> UploadType] /\ KeysHeld' /\ MarkedDelivered'
    BY <1>2, <1>4, <2>2, <2>3 DEF UploadContext, history
  <2> QED BY <1>4, <2>4 DEF UploadContext, OutboxInv, TypeOK, history, dbVars
<1>5. CASE UploadReport(u)
  <2>1. delivered \subseteq delivered' /\ delivered' \subseteq Keywords \X RoundIds \X Lists
        /\ failures' \in 0 .. MaxFailures
    BY <1>1, <1>5, AnswerType DEF UploadReport, OutboxInv
  <2> DEFINE M == [pc |-> "mark", key |-> uploads[u].key, list |-> uploads[u].list]
  <2>2. \/ uploads' = [uploads EXCEPT ![u] = M] /\ Accept(uploads[u].key, uploads[u].list)
        \/ uploads' = [uploads EXCEPT ![u] = NoUpload]
    BY <1>1, <1>5 DEF UploadReport
  <2>3. M \in UploadType /\ M.pc = "mark" /\ M.key = uploads[u].key /\ M.list = uploads[u].list
        /\ NoUpload \in UploadType /\ NoUpload.pc = "idle"
    BY <1>1, <1>3 DEF NoUpload
  <2> HIDE DEF M
  <2>4. Accept(uploads[u].key, uploads[u].list) => <<M.key[1], M.key[2], M.list>> \in delivered'
    BY <2>3 DEF Accept
  <2>5. UNCHANGED <<wk, flusher>>
    BY <1>5 DEF UploadReport
  <2>6. uploads' \in [Slots -> UploadType] /\ KeysHeld' /\ MarkedDelivered'
    BY <1>1, <1>2, <2>1, <2>2, <2>3, <2>4, <2>5
  <2> QED BY <1>5, <2>1, <2>6 DEF UploadReport, OutboxInv, TypeOK, dbVars
<1>6. CASE UploadMark(u)
  <2>1. NoUpload \in UploadType /\ NoUpload.pc = "idle"
    BY <1>3 DEF NoUpload
  <2>2. uploads' \in [Slots -> UploadType] /\ KeysHeld' /\ MarkedDelivered'
    BY <1>2, <1>6, <2>1 DEF UploadMark, history
  <2>3. outbox' \in [Keys -> {"none", "pending", "synced"}]
    BY <1>6, MarkType DEF UploadMark, OutboxInv
  <2> QED BY <1>6, <2>2, <2>3 DEF UploadMark, OutboxInv, TypeOK, history
<1> QED BY <1>4, <1>5, <1>6 DEF Upload

\* The flusher, one row at a time
LEMMA FlushKeeps == ASSUME OutboxInv, Flush PROVE OutboxInv'
<1> USE DEF OutboxInv
<1> DEFINE FlusherType == [pc: {"sleep", "next", "report", "mark"}, rows: SUBSET Keys,
                           key: Keys \cup {<<>>}, list: Lists]
<1>1. 0 \in Lists
  BY OutboxAssumption DEF Lists
<1>2. Asleep \in FlusherType /\ Asleep.pc = "sleep"
  BY <1>1 DEF Asleep
<1>3. ASSUME NEW rows \in SUBSET Keys
      PROVE  FlusherMore(rows) \in FlusherType /\ FlusherMore(rows).pc \in {"sleep", "next"}
  BY <1>1, <1>2 DEF FlusherMore
<1>4. CASE FlusherLoad
  <2>1. flusher' = [pc |-> "next", rows |-> Pending, key |-> <<>>, list |-> 0]
    BY <1>4 DEF FlusherLoad, Asleep
  <2>2. flusher' \in FlusherType /\ flusher'.pc = "next"
    BY <1>1, <2>1 DEF Pending
  <2> QED BY <1>4, <2>2 DEF FlusherLoad, TypeOK, KeysHeld, MarkedDelivered, engineVars, dbVars, history
<1>5. ASSUME NEW key \in Keys, FlusherContext(key) PROVE OutboxInv'
  <2> DEFINE G == [pc |-> "report", rows |-> flusher.rows \ {key}, key |-> key, list |-> results[key]]
  <2>1. flusher.rows \ {key} \in SUBSET Keys /\ G \in FlusherType /\ G.pc = "report" /\ G.key = key
    BY DEF TypeOK
  <2>2. flusher' = G \/ flusher' = FlusherMore(flusher.rows \ {key})
    BY <1>5 DEF FlusherContext
  <2> HIDE DEF G
  <2>3. flusher' \in FlusherType /\ (flusher'.pc = "report" => flusher'.key \in Keys) /\ flusher'.pc # "mark"
    BY <1>3, <2>1, <2>2
  <2> QED BY <1>5, <2>3 DEF FlusherContext, TypeOK, KeysHeld, MarkedDelivered, engineVars, dbVars, history
<1>6. CASE FlusherReport
  <2>1. flusher \in FlusherType /\ flusher.key \in Keys
    BY <1>6 DEF FlusherReport, KeysHeld, TypeOK
  <2>2. delivered \subseteq delivered' /\ delivered' \subseteq Keywords \X RoundIds \X Lists
        /\ failures' \in 0 .. MaxFailures
    BY <1>6, <2>1, AnswerType DEF FlusherReport
  <2> DEFINE M == [pc |-> "mark", rows |-> flusher.rows, key |-> flusher.key, list |-> flusher.list]
  <2>3. \/ flusher' = M /\ Accept(flusher.key, flusher.list)
        \/ flusher' = Asleep
    BY <1>6, <2>1 DEF FlusherReport
  <2>4. M \in FlusherType /\ M.key = flusher.key /\ M.list = flusher.list
    BY <2>1
  <2> HIDE DEF M
  <2>5. /\ flusher' \in FlusherType /\ (flusher'.pc # "sleep" => flusher'.key \in Keys)
        /\ flusher'.pc = "mark" => <<flusher'.key[1], flusher'.key[2], flusher'.list>> \in delivered'
    BY <1>2, <2>1, <2>3, <2>4 DEF Accept
  <2> QED BY <1>6, <2>2, <2>5 DEF FlusherReport, TypeOK, KeysHeld, MarkedDelivered, engineVars, dbVars
<1>7. CASE FlusherMark
  <2>1. flusher' \in FlusherType /\ flusher'.pc \in {"sleep", "next"}
    BY <1>3, <1>7 DEF FlusherMark, TypeOK
  <2>2. outbox' \in [Keys -> {"none", "pending", "synced"}]
    BY <1>7, MarkType DEF FlusherMark
  <2> QED BY <1>7, <2>1, <2>2 DEF FlusherMark, TypeOK, KeysHeld, MarkedDelivered, engineVars, history
<1> QED BY <1>4, <1>5, <1>6, <1>7 DEF Flush

\* A restart forgets everything that is not in the database.
LEMMA RestartKeeps == ASSUME OutboxInv, NEW newDay \in BOOLEAN, Restart(newDay) PROVE OutboxInv'
<1>1. 0 \in Lists
  BY OutboxAssumption DEF Lists
<1>2. uploads' = [u \in Slots |-> NoUpload] /\ NoUpload.pc = "idle" /\ flusher' = Asleep
      /\ Asleep.pc = "sleep" /\ wk' = NoWorker
  BY DEF Restart, NoUpload, Asleep
<1>3. uploads' \in [Slots -> [pc: {"idle", "context", "report", "mark"}, key: Keys \cup {<<>>}, list: Lists]]
      /\ flusher' \in [pc: {"sleep", "next", "report", "mark"}, rows: SUBSET Keys,
                        key: Keys \cup {<<>>}, list: Lists]
  BY <1>1, <1>2 DEF NoUpload, Asleep
<1>4. outbox' \in [Keys -> {"none", "pending", "synced"}]
  BY ClearSyncedType DEF Restart, OutboxInv, TypeOK
<1>5. crashes' \in 0 .. MaxCrashes
  BY OutboxAssumption DEF Restart, OutboxInv, TypeOK
<1>6. saved' \in RoundIds \cup {0} /\ ok' \subseteq Keywords /\ nextSeq' \in Nat /\ msgs' = {} /\ late' = {}
      /\ round' = 0
  BY DEF Restart, OutboxInv, TypeOK
<1>7. UNCHANGED <<known, nextRound, results, delivered, scans, failures>>
  BY DEF Restart
<1>8. TypeOK'
  BY <1>2, <1>3, <1>4, <1>5, <1>6, <1>7, NoWorkerType DEF OutboxInv, TypeOK
<1>9. KeysHeld' /\ MarkedDelivered'
  BY <1>2, NoWorkerType DEF KeysHeld, MarkedDelivered
<1> QED BY <1>8, <1>9 DEF OutboxInv

\* The types of the outbox, the keys that workers, fast paths and flusher hold
\* and what they are about to mark, in every reachable state.
THEOREM OutboxInvariant == Spec => []OutboxInv
<1>1. OutboxInv /\ [Next]_vars => OutboxInv'
  <2> SUFFICES ASSUME OutboxInv, [Next]_vars PROVE OutboxInv'
    OBVIOUS
  <2>1. CASE UNCHANGED vars
    BY <2>1 DEF vars, engineVars, dbVars, history, OutboxInv, TypeOK, KeysHeld, MarkedDelivered
  <2>2. CASE Next
    BY <2>2, CommandKeeps, WorkerKeeps, LateKeeps, HandleKeeps, UploadKeeps, FlushKeeps, RestartKeeps DEF Next
  <2> QED BY <2>1, <2>2
<1> QED BY <1>1, InvInit, PTL DEF Spec

\* No progress row stops being pending before the server has accepted its
\* keyword for its round, unless the task is deleted: clear_task_progress,
\* cleanup_synced_progress and mark_progress_synced, whoever calls them.
THEOREM PendingUntilDeliveredHolds == Spec => PendingUntilDelivered
<1> DEFINE Kept == \A key \in Keys :
                     outbox[key] = "pending" /\ outbox'[key] # "pending" =>
                       ~known' \/ \E list \in Lists : <<key[1], key[2], list>> \in delivered
<1>1. OutboxInv /\ [Next]_vars => Kept
  <2> SUFFICES ASSUME OutboxInv, [Next]_vars, NEW key \in Keys,
                      outbox[key] = "pending", outbox'[key] # "pending"
               PROVE  ~known' \/ \E list \in Lists : <<key[1], key[2], list>> \in delivered
    OBVIOUS
  <2>1. ASSUME NEW k2, NEW list \in Lists, Mark(k2), <<k2[1], k2[2], list>> \in delivered
        PROVE  <<key[1], key[2], list>> \in delivered
    BY <2>1 DEF Mark, OutboxInv, TypeOK
  <2>2. ASSUME NEW u \in Slots, UploadMark(u)
        PROVE  \E list \in Lists : <<key[1], key[2], list>> \in delivered
    BY <2>1, <2>2 DEF UploadMark, OutboxInv, MarkedDelivered, TypeOK
  <2>3. ASSUME FlusherMark PROVE \E list \in Lists : <<key[1], key[2], list>> \in delivered
    BY <2>1, <2>3 DEF FlusherMark, OutboxInv, MarkedDelivered, TypeOK
  <2>4. ASSUME outbox' = ClearSynced(outbox) PROVE FALSE
    BY <2>4 DEF ClearSynced
  <2>5. ASSUME NEW k2, Record(k2) PROVE FALSE
    BY <2>5 DEF Record, OutboxInv, TypeOK
  <2>6. CASE UNCHANGED vars
    BY <2>6 DEF vars, dbVars
  <2>7. CASE Command
    BY <2>4, <2>7 DEF Command, Start, Retry, Pause, Resume, Stop, Forget, dbVars
  <2>8. CASE Worker
    BY <2>5, <2>8 DEF Worker, Scan, WorkerRecord, WorkerSave, WorkerSend, dbVars
  <2>9. CASE Flush
    BY <2>3, <2>9 DEF Flush, FlusherLoad, FlusherContext, FlusherReport, dbVars
  <2>10. ASSUME NEW c \in late, LateCall(c) PROVE FALSE
    BY <2>5, <2>10 DEF LateCall
  <2>11. ASSUME NEW u \in Slots, Upload(u)
         PROVE  \E list \in Lists : <<key[1], key[2], list>> \in delivered
    BY <2>2, <2>11 DEF Upload, UploadContext, UploadReport, dbVars
  <2>12. CASE Finish
    BY <2>12 DEF Finish
  <2>13. ASSUME NEW m \in msgs, HandleKeywordDone(m[1], m[2]) PROVE FALSE
    BY <2>13 DEF HandleKeywordDone, dbVars
  <2>14. ASSUME NEW newDay \in BOOLEAN, Restart(newDay) PROVE FALSE
    BY <2>4, <2>14 DEF Restart
  <2> QED BY <2>6, <2>7, <2>8, <2>9, <2>10, <2>11, <2>12, <2>13, <2>14 DEF Next
<1>2. OutboxInv /\ [Next]_vars => [Kept]_vars
  BY <1>1
<1> QED BY <1>2, OutboxInvariant, PTL DEF Spec, PendingUntilDelivered

-----------------------------------------------------------------------------
(* The refinement of AtLeastOnce: a step is told by what it does to the     *)
(* rows, to what the server has accepted and to the task.                   *)

PromiseStep == [Promise!Next]_(Promise!vars)

\* A step that concerns nobody but the program itself
LEMMA StillKeepsPromise == ASSUME UNCHANGED <<outbox, delivered, known>> PROVE PromiseStep
<1>1. Pending' = Pending /\ Accepted' = Accepted /\ known' = known
  BY DEF Pending, Accepted
<1> QED BY <1>1 DEF PromiseStep, Promise!vars

\* record_keyword_done owes the row it inserts, and nothing if there is one.
LEMMA RecordOwes ==
  ASSUME OutboxInv, NEW key \in Keys, Record(key), UNCHANGED <<delivered, known>>
  PROVE  PromiseStep
<1>1. Accepted' = Accepted /\ known' = known
  BY DEF Accepted
<1>2. CASE outbox[key] = "none"
  <2>1. outbox' = [outbox EXCEPT ![key] = "pending"] /\ outbox \in [Keys -> {"none", "pending", "synced"}]
    BY <1>2 DEF Record, OutboxInv, TypeOK
  <2>2. key \notin Pending /\ Pending' = Pending \cup {key}
    BY <1>2, <2>1 DEF Pending
  <2> QED BY <1>1, <2>2 DEF PromiseStep, Promise!Next, Promise!Owe
<1>3. CASE outbox[key] # "none"
  BY <1>3, StillKeepsPromise DEF Record, OutboxInv, TypeOK
<1> QED BY <1>2, <1>3

\* mark_progress_synced settles a row that was accepted.
LEMMA MarkSettles ==
  ASSUME OutboxInv, NEW key \in Keys, NEW list, <<key[1], key[2], list>> \in delivered, Mark(key),
         UNCHANGED <<delivered, known>>
  PROVE  PromiseStep
<1>1. Accepted' = Accepted /\ known' = known /\ outbox \in [Keys -> {"none", "pending", "synced"}]
  BY DEF Accepted, OutboxInv, TypeOK
<1>2. key \in Accepted
  <2>1. key = <<key[1], key[2]>>
    BY DEF Keys
  <2> DEFINE d == <<key[1], key[2], list>>
  <2>2. d \in delivered /\ key = <<d[1], d[2]>>
    BY <2>1
  <2> HIDE DEF d
  <2> QED BY <2>2 DEF Accepted
<1>3. CASE outbox[key] = "pending"
  <2>1. key \in Pending /\ Pending' = Pending \ {key}
    BY <1>1, <1>3 DEF Mark, Pending
  <2> QED BY <1>1, <1>2, <2>1 DEF PromiseStep, Promise!Next, Promise!Settle
<1>4. CASE outbox[key] # "pending"
  <2>1. Pending' = Pending
    BY <1>1, <1>4 DEF Mark, Pending
  <2> QED BY <1>1, <2>1 DEF PromiseStep, Promise!vars
<1> QED BY <1>3, <1>4

\* A request is accepted, or is lost.
LEMMA AnswerAccepts ==
  ASSUME NEW key \in Keys, NEW list, Accept(key, list) \/ Fail(key, list) \/ UNCHANGED delivered,
         UNCHANGED <<outbox, known>>
  PROVE  PromiseStep
<1>1. Pending' = Pending /\ known' = known
  BY DEF Pending
<1>2. CASE delivered' = delivered
  BY <1>2, StillKeepsPromise
<1>3. CASE delivered' = delivered \cup {<<key[1], key[2], list>>}
  <2>1. key = <<key[1], key[2]>>
    BY DEF Keys
  <2> DEFINE new == <<key[1], key[2], list>>
  <2>2. <<new[1], new[2]>> = key /\ delivered' = delivered \cup {new}
    BY <1>3, <2>1
  <2> HIDE DEF new
  <2>3. Accepted' = Accepted \cup {key}
    BY <2>2 DEF Accepted
  <2> QED BY <1>1, <2>3 DEF PromiseStep, Promise!Next, Promise!Accept
<1> QED BY <1>2, <1>3 DEF Fail, Accept

\* The cleanups leave the pending rows alone.
LEMMA ClearKeepsPromise ==
  ASSUME outbox' = ClearSynced(outbox), UNCHANGED <<delivered, known>> PROVE PromiseStep
<1>1. Pending' = Pending /\ Accepted' = Accepted /\ known' = known
  BY DEF Pending, ClearSynced, Accepted
<1> QED BY <1>1 DEF PromiseStep, Promise!vars

\* What the engine does for the user changes no owed row unless it deletes the
\* task.
LEMMA CommandKeepsPromise == ASSUME Command PROVE PromiseStep
<1>1. CASE Forget
  <2>1. Accepted' = Accepted /\ known /\ ~known' /\ Pending' = {}
    BY <1>1 DEF Forget, history, Accepted, Pending
  <2> QED BY <2>1 DEF PromiseStep, Promise!Next, Promise!Delete
<1>2. CASE Start \/ Pause \/ Resume
  BY <1>2, StillKeepsPromise DEF Start, NewRound, Pause, Resume, dbVars, history
<1>3. CASE Retry \/ Stop
  BY <1>3, ClearKeepsPromise DEF Retry, NewRound, Stop, history
<1> QED BY <1>1, <1>2, <1>3 DEF Command

LEMMA WorkerKeepsPromise == ASSUME OutboxInv, Worker PROVE PromiseStep
<1>1. CASE WorkerRecord
  BY <1>1, RecordOwes DEF WorkerRecord, OutboxInv, KeysHeld
<1>2. CASE (\E k \in Keywords : Scan(k)) \/ WorkerSave \/ WorkerSend
  BY <1>2, StillKeepsPromise DEF Scan, WorkerSave, WorkerSend, dbVars, history
<1> QED BY <1>1, <1>2 DEF Worker

LEMMA UploadKeepsPromise == ASSUME OutboxInv, NEW u \in Slots, Upload(u) PROVE PromiseStep
<1>1. CASE UploadContext(u)
  BY <1>1, StillKeepsPromise DEF UploadContext, dbVars, history
<1>2. CASE UploadReport(u)
  BY <1>2, AnswerAccepts DEF UploadReport, OutboxInv, KeysHeld, dbVars
<1>3. CASE UploadMark(u)
  BY <1>3, MarkSettles DEF UploadMark, OutboxInv, KeysHeld, MarkedDelivered, history
<1> QED BY <1>1, <1>2, <1>3 DEF Upload

LEMMA FlushKeepsPromise == ASSUME OutboxInv, Flush PROVE PromiseStep
<1>1. CASE FlusherLoad \/ \E key \in Keys : FlusherContext(key)
  BY <1>1, StillKeepsPromise DEF FlusherLoad, FlusherContext, dbVars, history
<1>2. CASE FlusherReport
  BY <1>2, AnswerAccepts DEF FlusherReport, OutboxInv, KeysHeld, dbVars
<1>3. CASE FlusherMark
  BY <1>3, MarkSettles DEF FlusherMark, OutboxInv, KeysHeld, MarkedDelivered, history
<1> QED BY <1>1, <1>2, <1>3 DEF Flush

\* The worker, the fast paths, the flusher, the engine and its restarts
\* together implement the abstract outbox: what is written down is given up
\* only once it was accepted, or with the task.
THEOREM OutboxKeepsPromise == Spec => ImplementsOutbox
<1>1. Init => Promise!Init
  <2> SUFFICES ASSUME Init PROVE Promise!Init
    OBVIOUS
  <2>1. Pending = {} /\ Accepted = {} /\ known = TRUE
    BY DEF Init, Pending, Accepted
  <2> QED BY <2>1 DEF Promise!Init
<1>2. OutboxInv /\ [Next]_vars => [Promise!Next]_(Promise!vars)
  <2> SUFFICES ASSUME OutboxInv, [Next]_vars PROVE PromiseStep
    BY DEF PromiseStep
  <2>1. CASE UNCHANGED vars
    BY <2>1, StillKeepsPromise DEF vars, dbVars, history
  <2>2. ASSUME NEW c \in late, LateCall(c) PROVE PromiseStep
    <3>1. c.key \in Keys
      BY DEF OutboxInv, TypeOK
    <3> QED BY <2>2, <3>1, RecordOwes, StillKeepsPromise DEF LateCall
  <2>3. CASE Finish \/ \E m \in msgs : HandleKeywordDone(m[1], m[2])
    BY <2>3, StillKeepsPromise DEF Finish, HandleKeywordDone, dbVars, history
  <2>4. ASSUME NEW newDay \in BOOLEAN, Restart(newDay) PROVE PromiseStep
    BY <2>4, ClearKeepsPromise, StillKeepsPromise DEF Restart
  <2> QED BY <2>1, <2>2, <2>3, <2>4, CommandKeepsPromise, WorkerKeepsPromise, UploadKeepsPromise,
             FlushKeepsPromise DEF Next
<1> QED BY <1>1, <1>2, OutboxInvariant, PTL DEF Spec, ImplementsOutbox, Promise!Spec
=============================================================================

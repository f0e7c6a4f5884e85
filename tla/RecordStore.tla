----------------------------- MODULE RecordStore -----------------------------
(***************************************************************************)
(* The spine's record store: requests served on a pool of worker threads,  *)
(* one lock per character around the read-modify-write, the record file    *)
(* replaced by way of a temporary file, and the ledger's staleness marker, *)
(* which the persona hook commits before the record is saved.              *)
(*                                                                         *)
(* A step may fail (a full disk, a busy database, a file held open); the   *)
(* with-statement then releases the lock and the caller is told nothing    *)
(* but the failure.  The process may be killed between any two steps; the  *)
(* files and the database survive, threads and locks do not.               *)
(***************************************************************************)
EXTENDS RecordCalls

CONSTANTS
  Workers,
  NoWorker,    \* nobody holds the lock
  NoCall,      \* an idle worker serves no call
  Partial,     \* a file cut off in the middle of a write
  Receipts,    \* the indexed receipts of rendered artifacts
  OwnerOf,     \* OwnerOf[r]: the character the receipt belongs to
  Mentions,    \* Mentions[r]: which layers the recorded variables come from
  Recorded     \* Recorded[r]: the value the receipt recorded for them

Layers == {"live", "persona"}

Steps == {"queued", "loading", "applying", "writing", "closing", "replacing",
          "reading", "answering"}

(* The steps taken with the lock held, and those of save_record.           *)
Locked == Steps \ {"queued", "answering"}
Saving == {"writing", "closing", "replacing"}

(* A worker's job: the call it serves, the step it is at, the record       *)
(* object in its memory, the answer it is about to give.                   *)
Jobs == [req : Requests, step : Steps, mem : Records \cup {NoRecord},
         answer : Answers]

ASSUME StoreAssumption ==
  /\ NoWorker \notin Workers
  /\ Partial \notin Records \cup {NoRecord}
  /\ NoCall \notin Jobs
  /\ OwnerOf \in [Receipts -> Characters]
  /\ Mentions \in [Receipts -> SUBSET Layers]
  /\ Recorded \in [Receipts -> Values]

VARIABLES
  disk,     \* the record files
  temp,     \* the <id>.json.tmp files
  marks,    \* the cached variable_stale column of each receipt
  lock,     \* the per-character locks
  worker,   \* what each worker is doing
  torn      \* history: receipts last marked for an edit that was never saved

vars == <<disk, temp, marks, lock, worker, torn>>

Unanswered == Answer("failed", NoRecord)

(* variables_mismatch of the receipt's variables and the record's values.  *)
Mismatch(r, rec) ==
  \/ "live" \in Mentions[r] /\ rec.live # Recorded[r]
  \/ "persona" \in Mentions[r] /\ rec.persona # Recorded[r]

(* The receipts a persona edit of the character touches.                   *)
Touched(c) == {r \in Receipts : OwnerOf[r] = c /\ "persona" \in Mentions[r]}

(* Receipts are indexed with the values current at the time.               *)
Init ==
  /\ disk \in [Characters -> StoredRecords \cup {NoRecord}]
  /\ \A r \in Receipts : disk[OwnerOf[r]] # NoRecord
  /\ temp = [c \in Characters |-> NoRecord]
  /\ marks = [r \in Receipts |-> Mismatch(r, disk[OwnerOf[r]])]
  /\ lock = [c \in Characters |-> NoWorker]
  /\ worker = [w \in Workers |-> NoCall]
  /\ torn = {}

(***************************************************************************)
(* Helpers.                                                                *)
(***************************************************************************)
At(w, step) == worker[w] # NoCall /\ worker[w].step = step

Char(w) == worker[w].req.char

Kind(w) == worker[w].req.kind

Goto(w, step) == worker' = [worker EXCEPT ![w].step = step]

(* Leave the with-statement with an answer.                                *)
Leave(w, answer) ==
  /\ worker' = [worker EXCEPT ![w].step = "answering", ![w].mem = NoRecord,
                               ![w].answer = answer]
  /\ lock' = [lock EXCEPT ![Char(w)] = NoWorker]

(* uuid4: a new character's id is one no file has and no call uses.        *)
Unused(c) == disk[c] = NoRecord /\ \A w \in Workers : worker[w] # NoCall => Char(w) # c

(***************************************************************************)
(* The steps of a call.                                                    *)
(***************************************************************************)
Arrive(w, req) ==
  /\ worker[w] = NoCall
  /\ req.kind = "create" => Unused(req.char)
  /\ worker' = [worker EXCEPT ![w] =
       [req |-> req, step |-> "queued", mem |-> NoRecord, answer |-> Unanswered]]
  /\ UNCHANGED <<disk, temp, marks, lock, torn>>

(* Mutant: the read-modify-write is not serialized.                        *)
Acquire_Unserialized(w) ==
  /\ At(w, "queued")
  /\ lock' = [lock EXCEPT ![Char(w)] = w]
  /\ IF Kind(w) = "create"
     THEN worker' = [worker EXCEPT ![w].step = "writing", ![w].mem = Fresh]
     ELSE Goto(w, "loading")
  /\ UNCHANGED <<disk, temp, marks, torn>>

(* with self._lock_for(character_id): a created record is in memory        *)
(* already, any other call goes on to load it.                             *)
Acquire(w) ==
  /\ At(w, "queued")
  /\ lock[Char(w)] = NoWorker
  /\ lock' = [lock EXCEPT ![Char(w)] = w]
  /\ IF Kind(w) = "create"
     THEN worker' = [worker EXCEPT ![w].step = "writing", ![w].mem = Fresh]
     ELSE Goto(w, "loading")
  /\ UNCHANGED <<disk, temp, marks, torn>>

(* The path exists, or the caller is told that it does not; load_record.   *)
Load(w) ==
  /\ At(w, "loading")
  /\ IF disk[Char(w)] = NoRecord
     THEN Leave(w, Answer("missing", NoRecord))
     ELSE /\ worker' = [worker EXCEPT
               ![w].step = IF Kind(w) = "read" THEN "reading" ELSE "applying",
               ![w].mem = disk[Char(w)]]
          /\ UNCHANGED lock
  /\ UNCHANGED <<disk, temp, marks, torn>>

(* Mutant: the hook compares with the values from before the edit.         *)
Remark_Before(c, before, after) ==
  IF before.persona = after.persona THEN UNCHANGED <<marks, torn>>
  ELSE /\ marks' = [r \in Receipts |->
                      IF r \in Touched(c) THEN Mismatch(r, before) ELSE marks[r]]
       /\ torn' = torn \ Touched(c)

(* The persona hook: a persona edit that changes the value re-evaluates    *)
(* the receipts that mention the persona, and commits their markers.       *)
Remark(c, before, after) ==
  IF before.persona = after.persona THEN UNCHANGED <<marks, torn>>
  ELSE /\ marks' = [r \in Receipts |->
                      IF r \in Touched(c) THEN Mismatch(r, after) ELSE marks[r]]
       /\ torn' = torn \ Touched(c)

(* fn(record): refused, nothing is saved; accepted, on to save_record.     *)
Apply(w) ==
  /\ At(w, "applying")
  /\ LET before == worker[w].mem
         after  == Applied(before, worker[w].req)
     IN  IF Accepts(before, worker[w].req)
         THEN /\ worker' = [worker EXCEPT ![w].step = "writing", ![w].mem = after]
              /\ Remark(Char(w), before, after)
              /\ UNCHANGED lock
         ELSE /\ Leave(w, Answer("refused", NoRecord))
              /\ UNCHANGED <<marks, torn>>
  /\ UNCHANGED <<disk, temp>>

(* Mutant: the record file itself is opened for writing.                   *)
OpenTemp_InPlace(w) ==
  /\ At(w, "writing")
  /\ Goto(w, "closing")
  /\ temp' = [temp EXCEPT ![Char(w)] = Partial]
  /\ disk' = [disk EXCEPT ![Char(w)] = Partial]
  /\ UNCHANGED <<marks, lock, torn>>

(* save_record: tmp.write_text truncates the temporary file and fills it,  *)
(* os.replace puts it in the place of the record file.                     *)
OpenTemp(w) ==
  /\ At(w, "writing")
  /\ Goto(w, "closing")
  /\ temp' = [temp EXCEPT ![Char(w)] = Partial]
  /\ UNCHANGED <<disk, marks, lock, torn>>

CloseTemp(w) ==
  /\ At(w, "closing")
  /\ Goto(w, "replacing")
  /\ temp' = [temp EXCEPT ![Char(w)] = worker[w].mem]
  /\ UNCHANGED <<disk, marks, lock, torn>>

Replace(w) ==
  /\ At(w, "replacing")
  /\ Goto(w, "reading")
  /\ disk' = [disk EXCEPT ![Char(w)] = temp[Char(w)]]
  /\ temp' = [temp EXCEPT ![Char(w)] = NoRecord]
  /\ UNCHANGED <<marks, lock, torn>>

(* _read_raw: the answer serves the file, not the object.                  *)
ReadRaw(w) ==
  /\ At(w, "reading")
  /\ Leave(w, Answer("ok", disk[Char(w)]))
  /\ UNCHANGED <<disk, temp, marks, torn>>

Return(w) ==
  /\ At(w, "answering")
  /\ worker' = [worker EXCEPT ![w] = NoCall]
  /\ UNCHANGED <<disk, temp, marks, lock, torn>>

(* The edit's marker is in the database and its value not in the file.     *)
Unsaved(w) ==
  /\ worker[w] # NoCall
  /\ worker[w].step \in Saving
  /\ Kind(w) = "edit_persona"
  /\ worker[w].mem.persona # disk[Char(w)].persona

(* Mutant: an exception leaves the lock taken.                             *)
Fail_KeepsLock(w) ==
  /\ worker[w] # NoCall
  /\ worker[w].step \in Locked
  /\ worker' = [worker EXCEPT ![w].step = "answering", ![w].mem = NoRecord,
                               ![w].answer = Unanswered]
  /\ torn' = IF Unsaved(w) THEN torn \cup Touched(Char(w)) ELSE torn
  /\ UNCHANGED <<disk, temp, marks, lock>>

(* An exception in the body of the with-statement.                         *)
Fail(w) ==
  /\ worker[w] # NoCall
  /\ worker[w].step \in Locked
  /\ Leave(w, Unanswered)
  /\ torn' = IF Unsaved(w) THEN torn \cup Touched(Char(w)) ELSE torn
  /\ UNCHANGED <<disk, temp, marks>>

Crash ==
  /\ worker' = [w \in Workers |-> NoCall]
  /\ lock' = [c \in Characters |-> NoWorker]
  /\ torn' = torn \cup UNION {Touched(Char(w)) : w \in {x \in Workers : Unsaved(x)}}
  /\ UNCHANGED <<disk, temp, marks>>

(* The steps a running thread takes on its own once it holds the lock.     *)
Advance(w) ==
  \/ Load(w)
  \/ Apply(w)
  \/ OpenTemp(w)
  \/ CloseTemp(w)
  \/ Replace(w)
  \/ ReadRaw(w)

Next ==
  \/ \E w \in Workers : \/ \E req \in Requests : Arrive(w, req)
                        \/ Acquire(w)
                        \/ Advance(w)
                        \/ Fail(w)
                        \/ Return(w)
  \/ Crash

Spec == Init /\ [][Next]_vars

(* A thread in the critical section keeps running: it waits for nothing    *)
(* but file and database calls that return (SQLite gives up after five     *)
(* seconds).  Nothing is asked of the order in which a lock is granted.    *)
FairSpec == Spec /\ \A w \in Workers : WF_vars(Advance(w))

(***************************************************************************)
(* Properties.                                                             *)
(***************************************************************************)

(* Every variable has its declared form; in particular a record file is    *)
(* always a whole record, whenever the process was killed (N1).            *)
TypeOK ==
  /\ disk \in [Characters -> Records \cup {NoRecord}]
  /\ temp \in [Characters -> Records \cup {NoRecord, Partial}]
  /\ marks \in [Receipts -> BOOLEAN]
  /\ lock \in [Characters -> Workers \cup {NoWorker}]
  /\ worker \in [Workers -> Jobs \cup {NoCall}]
  /\ torn \subseteq Receipts

(* A marker is what its receipt and the record file say it is: asked of    *)
(* receipts of persona values, while nobody edits the character, and       *)
(* unless the last edit that was marked failed to be saved.                *)
MarkersTrue ==
  \A r \in Receipts :
    LET c == OwnerOf[r]
    IN  Mentions[r] \subseteq {"persona"} /\ lock[c] = NoWorker /\ r \notin torn
          => marks[r] = Mismatch(r, disk[c])

(* The claim the ledger's notes make without those exceptions: the marker  *)
(* of a receipt is the receipt's mismatch with the record, and edits mark  *)
(* exactly what they touched.                                              *)
MarkersMatchReceipts ==
  \A r \in Receipts :
    lock[OwnerOf[r]] = NoWorker => marks[r] = Mismatch(r, disk[OwnerOf[r]])

(* A character's lock is held by the one worker that is in its section on  *)
(* that character, and by nobody else: two calls never read and write one  *)
(* record at a time, and no failure leaves a lock without a worker.        *)
LockIsWorked ==
  \A w \in Workers, c \in Characters :
    lock[c] = w <=> worker[w] # NoCall /\ worker[w].step \in Locked /\ Char(w) = c

(* A lock is always given back, however the call under it ends, so a       *)
(* character never becomes unreachable while the process runs.             *)
LockReleased ==
  \A c \in Characters : lock[c] # NoWorker ~> lock[c] = NoWorker

(* A call takes effect when its file is put in place; a read, a refusal    *)
(* and a missing record take effect when they are found out.               *)
CallBar(w) ==
  LET me == worker[w]
  IN  IF me = NoCall THEN NoCall
      ELSE [req |-> me.req,
            stage |-> IF me.step = "answering" \/ (me.step = "reading" /\ me.req.kind # "read")
                      THEN "done" ELSE "waiting",
            answer |-> IF me.step = "reading" /\ me.req.kind # "read"
                       THEN Answer("ok", me.mem) ELSE me.answer]

callBar == [w \in Workers |-> CallBar(w)]

Atomic == INSTANCE AtomicStore WITH
  records <- disk,
  call    <- callBar

ASSUME BarAssumption == NoCall \notin Atomic!Calls

(* The store implements atomic calls: no edit is lost or applied to a      *)
(* record that has changed since it was loaded, no reader and no answer    *)
(* sees a record between two calls, and what an answer reported survives a *)
(* crash.                                                                  *)
ImplementsAtomicStore == Atomic!Spec

==============================================================================

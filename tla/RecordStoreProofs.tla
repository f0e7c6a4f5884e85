-------------------------- MODULE RecordStoreProofs --------------------------
(***************************************************************************)
(* Theorems about RecordStore, for any number of workers, characters and   *)
(* values: the declared forms, and that calls are atomic.                  *)
(***************************************************************************)
EXTENDS RecordStore, TLAPS

(***************************************************************************)
(* The inductive invariant.  The lock makes what a worker remembers agree  *)
(* with the record file until the worker itself replaces it.               *)
(***************************************************************************)

(* What a worker in the middle of a call may rely on.                      *)
Remembers(job, c) ==
  /\ job.step = "loading" => job.req.kind # "create"
  /\ job.step = "applying" =>
       /\ job.req.kind \in Edits
       /\ job.mem = disk[c] /\ job.mem \in Records
  /\ job.step \in Saving =>
       \/ job.req.kind = "create" /\ job.mem = Fresh
       \/ /\ job.req.kind \in Edits
          /\ disk[c] \in Records /\ Accepts(disk[c], job.req)
          /\ job.mem = Applied(disk[c], job.req)
  /\ job.step = "replacing" => temp[c] = job.mem
  /\ job.step = "reading" => job.mem = disk[c] /\ job.mem \in Records

Sound(w) ==
  worker[w] # NoCall =>
    /\ worker[w].step # "answering" => worker[w].answer = Unanswered
    /\ worker[w].step \in Locked => lock[Char(w)] = w
    /\ Remembers(worker[w], Char(w))

StoreInv == TypeOK /\ \A w \in Workers : Sound(w)

(* An accepted edit turns a record into a record.                          *)
LEMMA AppliedTyped ==
  ASSUME NEW rec \in Records, NEW req \in Requests, req.kind \in Edits, Accepts(rec, req)
  PROVE  Applied(rec, req) \in Records
<1> USE CallsAssumption DEF Records, Requests, Edits
<1>1. CASE req.kind = "edit_persona"
  BY <1>1 DEF Applied
<1>2. CASE req.kind = "edit_draft"
  BY <1>2 DEF Applied
<1>3. CASE req.kind = "open_draft"
  BY <1>3 DEF Applied, Accepts
<1>4. CASE req.kind = "finalize"
  BY <1>4 DEF Applied, Accepts
<1> QED BY <1>1, <1>2, <1>3, <1>4

(* A created record is a record.                                           *)
LEMMA FreshTyped == Fresh \in Records
BY DEF Fresh, Records

(* An answer has its declared form.                                        *)
LEMMA AnswerTyped ==
  ASSUME NEW s \in {"ok", "refused", "missing", "failed"}, NEW rec \in Records \cup {NoRecord}
  PROVE  Answer(s, rec) \in Answers
BY DEF Answer, Answers

(* The fields of a worker after a step, and that the others stand still.   *)
LEMMA JobTyped ==
  ASSUME TypeOK, NEW w \in Workers, worker[w] # NoCall
  PROVE  /\ worker[w] \in Jobs
         /\ worker[w].req \in Requests /\ Char(w) \in Characters
         /\ worker[w].step \in Steps /\ worker[w].mem \in Records \cup {NoRecord}
         /\ worker[w].answer \in Answers
BY DEF TypeOK, Jobs, Char, Requests

(* Leaving the with-statement: the worker answers and the lock is free.    *)
LEMMA LeaveEffect ==
  ASSUME TypeOK, NEW w \in Workers, worker[w] # NoCall, NEW answer \in Answers,
         Leave(w, answer)
  PROVE  /\ worker' \in [Workers -> Jobs \cup {NoCall}]
         /\ \A x \in Workers \ {w} : worker'[x] = worker[x]
         /\ worker'[w] # NoCall /\ worker'[w].req = worker[w].req
         /\ worker'[w].step = "answering" /\ worker'[w].answer = answer
         /\ lock' \in [Characters -> Workers \cup {NoWorker}]
         /\ \A c \in Characters \ {Char(w)} : lock'[c] = lock[c]
         /\ lock'[Char(w)] = NoWorker
<1>1. worker'[w] = [worker[w] EXCEPT !.step = "answering", !.mem = NoRecord, !.answer = answer]
  BY DEF Leave, TypeOK
<1>2. worker'[w] \in Jobs
  BY <1>1, JobTyped DEF Jobs, Steps
<1>3. worker' \in [Workers -> Jobs \cup {NoCall}]
  BY <1>1, <1>2 DEF Leave, TypeOK
<1>4. worker'[w].req = worker[w].req /\ worker'[w].step = "answering" /\ worker'[w].answer = answer
  BY <1>1, JobTyped DEF Jobs
<1> QED BY <1>2, <1>3, <1>4, JobTyped, StoreAssumption DEF Leave, TypeOK

(* Going on to another step changes nothing but the step.                  *)
LEMMA GotoEffect ==
  ASSUME TypeOK, NEW w \in Workers, worker[w] # NoCall, NEW step \in Steps, Goto(w, step)
  PROVE  /\ worker' \in [Workers -> Jobs \cup {NoCall}]
         /\ \A x \in Workers \ {w} : worker'[x] = worker[x]
         /\ worker'[w] # NoCall /\ worker'[w].req = worker[w].req
         /\ worker'[w].step = step /\ worker'[w].answer = worker[w].answer
         /\ worker'[w].mem = worker[w].mem
<1>1. worker'[w] = [worker[w] EXCEPT !.step = step]
  BY DEF Goto, TypeOK
<1>2. worker'[w] \in Jobs
  BY <1>1, JobTyped DEF Jobs
<1>3. worker' \in [Workers -> Jobs \cup {NoCall}]
  BY <1>1, <1>2 DEF Goto, TypeOK
<1>4. /\ worker'[w].req = worker[w].req /\ worker'[w].step = step
      /\ worker'[w].answer = worker[w].answer /\ worker'[w].mem = worker[w].mem
  BY <1>1, JobTyped DEF Jobs
<1> QED BY <1>2, <1>3, <1>4, StoreAssumption DEF Goto, TypeOK

(* A job at another step, with another record in memory, is a job.         *)
LEMMA JobUpdated ==
  ASSUME NEW job \in Jobs, NEW step \in Steps, NEW rec \in Records \cup {NoRecord}
  PROVE  [job EXCEPT !.step = step, !.mem = rec] \in Jobs
BY DEF Jobs

(* The same for a step that also takes a record into memory.               *)
LEMMA TakeEffectOnJob ==
  ASSUME TypeOK, NEW w \in Workers, worker[w] # NoCall, NEW step \in Steps,
         NEW rec \in Records,
         worker' = [worker EXCEPT ![w].step = step, ![w].mem = rec]
  PROVE  /\ worker' \in [Workers -> Jobs \cup {NoCall}]
         /\ \A x \in Workers \ {w} : worker'[x] = worker[x]
         /\ worker'[w] # NoCall /\ worker'[w].req = worker[w].req
         /\ worker'[w].step = step /\ worker'[w].answer = worker[w].answer
         /\ worker'[w].mem = rec
<1>1. worker'[w] = [worker[w] EXCEPT !.step = step, !.mem = rec]
  BY DEF TypeOK
<1>2. worker[w] \in Jobs /\ rec \in Records \cup {NoRecord}
  BY JobTyped
<1>3. [worker[w] EXCEPT !.step = step, !.mem = rec] \in Jobs
  BY <1>2, JobUpdated
<1>4. /\ worker'[w] \in Jobs
      /\ worker'[w].req = worker[w].req /\ worker'[w].step = step
      /\ worker'[w].answer = worker[w].answer /\ worker'[w].mem = rec
  <2>1. worker'[w] \in Jobs
    BY <1>1, <1>3
  <2>2. worker'[w].req = worker[w].req /\ worker'[w].answer = worker[w].answer
    BY <1>1, <1>2 DEF Jobs
  <2>3. worker'[w].step = step /\ worker'[w].mem = rec
    BY <1>1, <1>2 DEF Jobs
  <2> QED BY <2>1, <2>2, <2>3
<1>5. worker' \in [Workers -> Jobs \cup {NoCall}]
  BY <1>1, <1>4 DEF TypeOK
<1> QED BY <1>4, <1>5, StoreAssumption DEF TypeOK

(* A worker that stands still while another one takes a step stays sound,  *)
(* if the step touches only the lock and the files of a character whose    *)
(* lock the standing worker does not hold.                                 *)
LEMMA OthersSound ==
  ASSUME TypeOK, NEW x \in Workers, Sound(x), worker'[x] = worker[x],
         \A c \in Characters : lock[c] = x =>
            lock'[c] = lock[c] /\ disk'[c] = disk[c] /\ temp'[c] = temp[c]
  PROVE  Sound(x)'
<1> SUFFICES ASSUME worker[x] # NoCall PROVE Sound(x)'
  BY DEF Sound
<1>1. Char(x) \in Characters /\ Char(x)' = Char(x) /\ worker[x].step \in Steps
  BY JobTyped DEF Char
<1>2. worker[x].step \in Locked =>
        lock'[Char(x)] = x /\ disk'[Char(x)] = disk[Char(x)] /\ temp'[Char(x)] = temp[Char(x)]
  BY <1>1 DEF Sound
<1>3. Remembers(worker[x], Char(x))'
  <2>1. CASE worker[x].step \in Locked
    BY <2>1, <1>1, <1>2 DEF Sound, Remembers
  <2>2. CASE worker[x].step \notin Locked
    BY <2>2, <1>1 DEF Remembers, Locked, Saving, Steps
  <2> QED BY <2>1, <2>2
<1> QED BY <1>1, <1>2, <1>3 DEF Sound

(* One step of worker w keeps the invariant when it keeps the declared     *)
(* forms, leaves w sound, and disturbs no one else.                        *)
LEMMA StepKeeps ==
  ASSUME StoreInv, NEW w \in Workers, TypeOK', Sound(w)',
         \A x \in Workers \ {w} : worker'[x] = worker[x],
         \A c \in Characters : lock[c] \notin {w, NoWorker} =>
            lock'[c] = lock[c] /\ disk'[c] = disk[c] /\ temp'[c] = temp[c]
  PROVE  StoreInv'
<1>1. ASSUME NEW x \in Workers, x # w PROVE Sound(x)'
  BY <1>1, OthersSound, StoreAssumption DEF StoreInv
<1> QED BY <1>1 DEF StoreInv

(* A call keeps its request until it is answered, and its step moves no    *)
(* other worker.                                                           *)
LEMMA SameRequest ==
  ASSUME StoreInv, NEW w \in Workers, Acquire(w) \/ Advance(w) \/ Fail(w)
  PROVE  /\ worker[w] # NoCall /\ worker'[w].req = worker[w].req
         /\ \A x \in Workers \ {w} : worker'[x] = worker[x]
<1> worker \in [Workers -> Jobs \cup {NoCall}] /\ TypeOK
  BY DEF StoreInv, TypeOK
<1>1. worker[w] # NoCall
  BY DEF Acquire, Advance, Load, Apply, OpenTemp, CloseTemp, Replace, ReadRaw, Fail, At
<1>2. worker[w] \in Jobs
  BY <1>1
<1>3. \A x \in Workers \ {w} : worker'[x] = worker[x]
  BY DEF Acquire, Advance, Load, Apply, OpenTemp, CloseTemp, Replace, ReadRaw, Fail, Goto, Leave
<1>4. worker'[w].req = worker[w].req
  <2>1. \/ \E step \in Steps : Goto(w, step)
        \/ \E step, rec : worker' = [worker EXCEPT ![w].step = step, ![w].mem = rec]
        \/ \E answer : Leave(w, answer)
    BY DEF Acquire, Advance, Load, Apply, OpenTemp, CloseTemp, Replace, ReadRaw, Fail, Steps
  <2>2. CASE \E step \in Steps : Goto(w, step)
    BY <1>1, <2>2, GotoEffect
  <2>3. ASSUME NEW step, NEW rec, worker' = [worker EXCEPT ![w].step = step, ![w].mem = rec]
        PROVE  worker'[w].req = worker[w].req
    <3>1. worker'[w] = [worker[w] EXCEPT !.step = step, !.mem = rec]
      BY <2>3
    <3> QED BY <1>2, <3>1 DEF Jobs
  <2>4. ASSUME NEW answer, Leave(w, answer)
        PROVE  worker'[w].req = worker[w].req
    <3>1. worker'[w] = [worker[w] EXCEPT !.step = "answering", !.mem = NoRecord, !.answer = answer]
      BY <2>4 DEF Leave
    <3> QED BY <1>2, <3>1 DEF Jobs
  <2> QED BY <2>1, <2>2, <2>3, <2>4
<1> QED BY <1>1, <1>3, <1>4

(* Nobody is at work at first.                                             *)
LEMMA InvInit == Init => StoreInv
<1> SUFFICES ASSUME Init PROVE StoreInv
  OBVIOUS
<1>1. marks \in [Receipts -> BOOLEAN]
  BY DEF Init, Mismatch
<1>2. TypeOK
  BY <1>1 DEF Init, TypeOK, StoredRecords
<1>3. \A w \in Workers : Sound(w)
  BY DEF Init, Sound
<1> QED BY <1>2, <1>3 DEF StoreInv

(* A call that has arrived remembers nothing yet.                          *)
LEMMA ArriveKeeps ==
  ASSUME StoreInv, NEW w \in Workers, NEW req \in Requests, Arrive(w, req)
  PROVE  StoreInv'
<1> DEFINE job == [req |-> req, step |-> "queued", mem |-> NoRecord, answer |-> Unanswered]
<1>1. job \in Jobs /\ worker' = [worker EXCEPT ![w] = job]
  BY AnswerTyped DEF Arrive, Jobs, Steps, Unanswered
<1>2. worker'[w] = job /\ worker' \in [Workers -> Jobs \cup {NoCall}]
      /\ \A x \in Workers \ {w} : worker'[x] = worker[x]
  BY <1>1 DEF StoreInv, TypeOK
<1>3. TypeOK'
  BY <1>2 DEF StoreInv, TypeOK, Arrive
<1>4. Sound(w)'
  BY <1>2 DEF Sound, Remembers, Locked, Saving
<1> QED BY <1>2, <1>3, <1>4, StepKeeps DEF Arrive

(* The lock is granted only when it is free.                               *)
LEMMA AcquireKeeps ==
  ASSUME StoreInv, NEW w \in Workers, Acquire(w)
  PROVE  StoreInv'
<1>1. worker[w] # NoCall /\ worker[w].step = "queued" /\ TypeOK
  BY DEF Acquire, At, StoreInv
<1>2. worker[w].answer = Unanswered /\ Char(w) \in Characters /\ lock[Char(w)] = NoWorker
  BY <1>1, JobTyped DEF StoreInv, Sound, Acquire
<1>3. lock' \in [Characters -> Workers \cup {NoWorker}] /\ lock'[Char(w)] = w
      /\ \A c \in Characters \ {Char(w)} : lock'[c] = lock[c]
  BY <1>1, <1>2 DEF TypeOK, Acquire
<1>4. CASE Kind(w) = "create"
  <2>1. /\ worker' \in [Workers -> Jobs \cup {NoCall}]
        /\ \A x \in Workers \ {w} : worker'[x] = worker[x]
        /\ worker'[w] # NoCall /\ worker'[w].req = worker[w].req
        /\ worker'[w].step = "writing" /\ worker'[w].answer = worker[w].answer
        /\ worker'[w].mem = Fresh
    BY <1>1, <1>4, FreshTyped, TakeEffectOnJob DEF Acquire, Steps
  <2>2. TypeOK'
    BY <1>1, <1>3, <2>1 DEF TypeOK, Acquire
  <2>3. Char(w)' = Char(w)
    BY <2>1 DEF Char
  <2>4. Sound(w)'
    BY <1>2, <1>3, <1>4, <2>1, <2>3 DEF Sound, Remembers, Kind, Saving
  <2> QED BY <1>2, <1>3, <2>1, <2>2, <2>4, StepKeeps DEF Acquire
<1>5. CASE Kind(w) # "create"
  <2>1. /\ worker' \in [Workers -> Jobs \cup {NoCall}]
        /\ \A x \in Workers \ {w} : worker'[x] = worker[x]
        /\ worker'[w] # NoCall /\ worker'[w].req = worker[w].req
        /\ worker'[w].step = "loading" /\ worker'[w].answer = worker[w].answer
    BY <1>1, <1>5, GotoEffect DEF Acquire, Steps
  <2>2. TypeOK'
    BY <1>1, <1>3, <2>1 DEF TypeOK, Acquire
  <2>3. Char(w)' = Char(w)
    BY <2>1 DEF Char
  <2>4. Sound(w)'
    BY <1>2, <1>3, <1>5, <2>1, <2>3 DEF Sound, Remembers, Kind, Saving
  <2> QED BY <1>2, <1>3, <2>1, <2>2, <2>4, StepKeeps DEF Acquire
<1> QED BY <1>4, <1>5

(* A worker that leaves the with-statement keeps the invariant.            *)
LEMMA LeaveKeeps ==
  ASSUME StoreInv, NEW w \in Workers, worker[w] # NoCall, worker[w].step \in Locked,
         NEW answer \in Answers, Leave(w, answer), UNCHANGED <<disk, temp>>,
         marks' \in [Receipts -> BOOLEAN], torn' \subseteq Receipts
  PROVE  StoreInv'
<1>1. TypeOK /\ lock[Char(w)] = w /\ Char(w) \in Characters
  BY JobTyped DEF StoreInv, Sound
<1>2. /\ worker' \in [Workers -> Jobs \cup {NoCall}]
      /\ \A x \in Workers \ {w} : worker'[x] = worker[x]
      /\ worker'[w] # NoCall /\ worker'[w].req = worker[w].req
      /\ worker'[w].step = "answering"
      /\ lock' \in [Characters -> Workers \cup {NoWorker}]
      /\ \A c \in Characters \ {Char(w)} : lock'[c] = lock[c]
  BY <1>1, LeaveEffect
<1>3. TypeOK'
  BY <1>1, <1>2 DEF TypeOK
<1>4. Sound(w)'
  BY <1>2 DEF Sound, Remembers, Locked, Saving
<1> QED BY <1>1, <1>2, <1>3, <1>4, StepKeeps

(* What a worker in the critical section may take for granted.             *)
LEMMA InSection ==
  ASSUME StoreInv, NEW w \in Workers, worker[w] # NoCall, worker[w].step \in Locked
  PROVE  /\ TypeOK /\ Char(w) \in Characters /\ lock[Char(w)] = w
         /\ worker[w].answer = Unanswered /\ Remembers(worker[w], Char(w))
         /\ worker[w].req \in Requests /\ worker[w].mem \in Records \cup {NoRecord}
         /\ Kind(w) \in Edits \cup {"create", "read"}
BY JobTyped DEF StoreInv, Sound, Locked, Kind, Requests

(* A loaded record is the record in the file, and stays so under the lock. *)
LEMMA LoadKeeps ==
  ASSUME StoreInv, NEW w \in Workers, Load(w)
  PROVE  StoreInv'
<1>1. worker[w] # NoCall /\ worker[w].step = "loading" /\ worker[w].step \in Locked
  BY DEF Load, At, Locked, Steps
<1>2. /\ TypeOK /\ Char(w) \in Characters /\ lock[Char(w)] = w
      /\ worker[w].answer = Unanswered /\ Kind(w) \in Edits \cup {"read"}
  BY <1>1, InSection DEF Remembers, Kind
<1>3. CASE disk[Char(w)] = NoRecord
  <2>1. Leave(w, Answer("missing", NoRecord))
    BY <1>3 DEF Load
  <2> QED BY <1>1, <1>2, <2>1, AnswerTyped, LeaveKeeps DEF Load, TypeOK
<1>4. CASE disk[Char(w)] # NoRecord
  <2> DEFINE next == IF Kind(w) = "read" THEN "reading" ELSE "applying"
             rec  == disk[Char(w)]
  <2>1. rec \in Records /\ next \in Steps
    BY <1>2, <1>4 DEF TypeOK, Steps
  <2>2. worker' = [worker EXCEPT ![w].step = next, ![w].mem = rec]
    BY <1>4 DEF Load
  <2> HIDE DEF next, rec
  <2>3. /\ worker' \in [Workers -> Jobs \cup {NoCall}]
        /\ \A x \in Workers \ {w} : worker'[x] = worker[x]
        /\ worker'[w] # NoCall /\ worker'[w].req = worker[w].req
        /\ worker'[w].step = next /\ worker'[w].answer = worker[w].answer
        /\ worker'[w].mem = rec
    <3>1. CASE next = "reading"
      <4>1. worker' = [worker EXCEPT ![w].step = "reading", ![w].mem = rec]
        BY <2>2, <3>1
      <4> QED BY <1>1, <1>2, <2>1, <3>1, <4>1, TakeEffectOnJob DEF Steps
    <3>2. CASE next = "applying"
      <4>1. worker' = [worker EXCEPT ![w].step = "applying", ![w].mem = rec]
        BY <2>2, <3>2
      <4> QED BY <1>1, <1>2, <2>1, <3>2, <4>1, TakeEffectOnJob DEF Steps
    <3> QED BY <3>1, <3>2 DEF next
  <2>4. UNCHANGED <<disk, temp, marks, torn, lock>>
    BY <1>4 DEF Load
  <2>5. TypeOK'
    BY <1>2, <2>3, <2>4 DEF TypeOK
  <2>6. Char(w)' = Char(w) /\ next \in {"reading", "applying"}
    BY <2>3 DEF Char, next
  <2>7. next = "applying" => worker[w].req.kind \in Edits
    BY <1>2 DEF next, Kind
  <2>8. rec = disk[Char(w)]
    BY DEF rec
  <2>9. Sound(w)'
    BY <2>8, <1>2, <2>1, <2>3, <2>4, <2>6, <2>7 DEF Sound, Remembers, Saving
  <2> QED BY <1>2, <2>3, <2>4, <2>5, <2>9, StepKeeps
<1> QED BY <1>3, <1>4

(* The persona hook writes markers and nothing else.                       *)
LEMMA RemarkTyped ==
  ASSUME TypeOK, NEW c, NEW before, NEW after, Remark(c, before, after)
  PROVE  marks' \in [Receipts -> BOOLEAN] /\ torn' \subseteq Receipts
<1>1. CASE before.persona = after.persona
  BY <1>1 DEF Remark, TypeOK
<1>2. CASE before.persona # after.persona
  BY <1>2 DEF Remark, TypeOK, Mismatch
<1> QED BY <1>1, <1>2

(* The mutation works on the record in the file, or is refused.            *)
LEMMA ApplyKeeps ==
  ASSUME StoreInv, NEW w \in Workers, Apply(w)
  PROVE  StoreInv'
<1> DEFINE before == worker[w].mem
           req    == worker[w].req
           after  == Applied(before, req)
<1>1. worker[w] # NoCall /\ worker[w].step = "applying" /\ worker[w].step \in Locked
  BY DEF Apply, At, Locked, Steps
<1>2. /\ TypeOK /\ Char(w) \in Characters /\ lock[Char(w)] = w
      /\ worker[w].answer = Unanswered /\ req \in Requests /\ req.kind \in Edits
      /\ before = disk[Char(w)] /\ before \in Records
  BY <1>1, InSection DEF Remembers
<1>3. CASE Accepts(before, req)
  <2>1. worker' = [worker EXCEPT ![w].step = "writing", ![w].mem = after]
        /\ Remark(Char(w), before, after) /\ UNCHANGED <<lock, disk, temp>>
    BY <1>3 DEF Apply
  <2>2. after \in Records
    BY <1>2, <1>3, AppliedTyped
  <2> HIDE DEF before, req, after
  <2>3. /\ worker' \in [Workers -> Jobs \cup {NoCall}]
        /\ \A x \in Workers \ {w} : worker'[x] = worker[x]
        /\ worker'[w] # NoCall /\ worker'[w].req = worker[w].req
        /\ worker'[w].step = "writing" /\ worker'[w].answer = worker[w].answer
        /\ worker'[w].mem = after
    BY <1>1, <1>2, <2>1, <2>2, TakeEffectOnJob DEF Steps
  <2>4. marks' \in [Receipts -> BOOLEAN] /\ torn' \subseteq Receipts
    BY <1>2, <2>1, RemarkTyped
  <2>5. TypeOK'
    BY <1>2, <2>1, <2>3, <2>4 DEF TypeOK
  <2>6. Char(w)' = Char(w)
    BY <2>3 DEF Char
  <2>7. Accepts(disk[Char(w)], worker[w].req) /\ after = Applied(disk[Char(w)], worker[w].req)
        /\ disk[Char(w)] \in Records /\ worker[w].req.kind \in Edits
    BY <1>2, <1>3 DEF before, req, after
  <2>8. Sound(w)'
    BY <1>2, <2>1, <2>3, <2>6, <2>7 DEF Sound, Remembers, Saving
  <2> QED BY <1>2, <2>1, <2>3, <2>5, <2>8, StepKeeps
<1>4. CASE ~Accepts(before, req)
  <2>1. Leave(w, Answer("refused", NoRecord)) /\ UNCHANGED <<marks, torn, disk, temp>>
    BY <1>4 DEF Apply
  <2> QED BY <1>1, <1>2, <2>1, AnswerTyped, LeaveKeeps DEF TypeOK
<1> QED BY <1>3, <1>4

(* The three steps of save_record.                                         *)
LEMMA SaveKeeps ==
  ASSUME StoreInv, NEW w \in Workers, OpenTemp(w) \/ CloseTemp(w) \/ Replace(w)
  PROVE  StoreInv'
<1>1. worker[w] # NoCall /\ worker[w].step \in Saving /\ worker[w].step \in Locked
  BY DEF OpenTemp, CloseTemp, Replace, At, Saving, Locked, Steps
<1>2. /\ TypeOK /\ Char(w) \in Characters /\ lock[Char(w)] = w
      /\ worker[w].answer = Unanswered /\ worker[w].req \in Requests
      /\ Remembers(worker[w], Char(w))
  BY <1>1, InSection
<1>3. worker[w].mem \in Records
  BY <1>1, <1>2, FreshTyped, AppliedTyped DEF Remembers
<1>4. ASSUME NEW step \in Steps, Goto(w, step),
             disk' \in [Characters -> Records \cup {NoRecord}],
             temp' \in [Characters -> Records \cup {NoRecord, Partial}],
             UNCHANGED <<marks, lock, torn>>,
             \A c \in Characters \ {Char(w)} : disk'[c] = disk[c] /\ temp'[c] = temp[c],
             \/ /\ step \in Saving /\ disk' = disk
                /\ step = "replacing" => temp'[Char(w)] = worker[w].mem
             \/ step = "reading" /\ disk'[Char(w)] = worker[w].mem
      PROVE  StoreInv'
  <2>1. /\ worker' \in [Workers -> Jobs \cup {NoCall}]
        /\ \A x \in Workers \ {w} : worker'[x] = worker[x]
        /\ worker'[w] # NoCall /\ worker'[w].req = worker[w].req
        /\ worker'[w].step = step /\ worker'[w].answer = worker[w].answer
        /\ worker'[w].mem = worker[w].mem
    BY <1>1, <1>2, <1>4, GotoEffect
  <2>2. TypeOK'
    BY <1>2, <1>4, <2>1 DEF TypeOK
  <2>3. Char(w)' = Char(w)
    BY <2>1 DEF Char
  <2>4. Remembers(worker[w], Char(w))'
    <3>1. CASE step \in Saving /\ disk' = disk
      BY <1>1, <1>2, <1>4, <2>1, <2>3, <3>1 DEF Remembers, Saving
    <3>2. CASE step = "reading"
      BY <1>3, <1>4, <2>1, <2>3, <3>2 DEF Remembers, Saving
    <3> QED BY <1>4, <3>1, <3>2
  <2>5. Sound(w)'
    BY <1>2, <1>4, <2>1, <2>3, <2>4 DEF Sound
  <2> QED BY <1>2, <1>4, <2>1, <2>2, <2>5, StepKeeps
<1>5. CASE OpenTemp(w)
  <2>1. temp' \in [Characters -> Records \cup {NoRecord, Partial}]
        /\ \A c \in Characters \ {Char(w)} : temp'[c] = temp[c]
    BY <1>2, <1>5 DEF OpenTemp, TypeOK
  <2> QED BY <1>2, <1>4, <1>5, <2>1 DEF OpenTemp, Steps, Saving, TypeOK
<1>6. CASE CloseTemp(w)
  <2>1. temp' \in [Characters -> Records \cup {NoRecord, Partial}]
        /\ \A c \in Characters \ {Char(w)} : temp'[c] = temp[c]
        /\ temp'[Char(w)] = worker[w].mem
    BY <1>2, <1>3, <1>6 DEF CloseTemp, TypeOK
  <2> QED BY <1>2, <1>4, <1>6, <2>1 DEF CloseTemp, Steps, Saving, TypeOK
<1>7. CASE Replace(w)
  <2>1. temp[Char(w)] = worker[w].mem
    BY <1>2, <1>7 DEF Replace, At, Remembers
  <2>2. /\ disk' \in [Characters -> Records \cup {NoRecord}]
        /\ temp' \in [Characters -> Records \cup {NoRecord, Partial}]
        /\ \A c \in Characters \ {Char(w)} : disk'[c] = disk[c] /\ temp'[c] = temp[c]
        /\ disk'[Char(w)] = worker[w].mem
    BY <1>2, <1>3, <1>7, <2>1 DEF Replace, TypeOK
  <2> QED BY <1>2, <1>4, <1>7, <2>2 DEF Replace, Steps
<1> QED BY <1>5, <1>6, <1>7

(* Every step keeps the invariant, a failure and a crash among them.       *)
LEMMA InvStep == StoreInv /\ [Next]_vars => StoreInv'
<1> SUFFICES ASSUME StoreInv, [Next]_vars PROVE StoreInv'
  OBVIOUS
<1>1. ASSUME NEW w \in Workers, ReadRaw(w) PROVE StoreInv'
  <2>1. worker[w] # NoCall /\ worker[w].step = "reading" /\ worker[w].step \in Locked
    BY <1>1 DEF ReadRaw, At, Locked, Steps
  <2>2. TypeOK /\ disk[Char(w)] \in Records \cup {NoRecord}
    BY <2>1, InSection DEF TypeOK
  <2> QED BY <1>1, <2>1, <2>2, AnswerTyped, LeaveKeeps DEF ReadRaw, TypeOK
<1>2. ASSUME NEW w \in Workers, Fail(w) PROVE StoreInv'
  <2>1. TypeOK /\ Unanswered \in Answers
    BY AnswerTyped DEF StoreInv, Unanswered
  <2>2. torn' \subseteq Receipts
    BY <1>2, <2>1 DEF Fail, TypeOK, Touched
  <2> QED BY <1>2, <2>1, <2>2, LeaveKeeps DEF Fail, TypeOK
<1>3. ASSUME NEW w \in Workers, Return(w) PROVE StoreInv'
  <2>1. worker' = [worker EXCEPT ![w] = NoCall] /\ TypeOK
    BY <1>3 DEF Return, StoreInv
  <2>2. worker'[w] = NoCall /\ \A x \in Workers \ {w} : worker'[x] = worker[x]
    BY <2>1 DEF TypeOK
  <2>3. TypeOK'
    BY <1>3, <2>1 DEF Return, TypeOK
  <2>4. Sound(w)'
    BY <2>2 DEF Sound
  <2> QED BY <1>3, <2>2, <2>3, <2>4, StepKeeps DEF Return
<1>4. CASE Crash
  <2>1. TypeOK'
    BY <1>4 DEF Crash, StoreInv, TypeOK, Touched
  <2>2. \A w \in Workers : Sound(w)'
    BY <1>4 DEF Crash, Sound
  <2> QED BY <2>1, <2>2 DEF StoreInv
<1>5. CASE UNCHANGED vars
  BY <1>5 DEF vars, StoreInv, TypeOK, Sound, Remembers, Char
<1> QED
  BY <1>1, <1>2, <1>3, <1>4, <1>5, ArriveKeeps, AcquireKeeps, LoadKeeps, ApplyKeeps,
     SaveKeeps DEF Next, Advance

(* Every record file is whole and every variable well formed, whenever a   *)
(* step fails and whenever the process is killed.                          *)
THEOREM StoreTypeCorrect == Spec => []TypeOK
<1>1. StoreInv => TypeOK
  BY DEF StoreInv
<1> QED BY <1>1, InvInit, InvStep, PTL DEF Spec

(***************************************************************************)
(* The locks.  Sound says that a worker in its section holds the lock; the *)
(* other half is that a lock is held only by such a worker.                *)
(***************************************************************************)
Works(w, c) == worker[w] # NoCall /\ worker[w].step \in Locked /\ Char(w) = c

Held == \A w \in Workers, c \in Characters : lock[c] = w => Works(w, c)

(* A step of worker w that gives no lock to another keeps Held, if w works *)
(* on what it holds afterwards.                                            *)
LEMMA HeldByOne ==
  ASSUME Held, NEW w \in Workers,
         \A x \in Workers \ {w} : worker'[x] = worker[x],
         \A c \in Characters : lock'[c] \in {lock[c], w, NoWorker},
         \A c \in Characters : lock'[c] = w => Works(w, c)'
  PROVE  Held'
<1> SUFFICES ASSUME NEW x \in Workers, NEW c \in Characters, lock'[c] = x
             PROVE  Works(x, c)'
  BY DEF Held
<1>1. CASE x = w
  BY <1>1
<1>2. CASE x # w
  <2>1. lock[c] = x /\ worker'[x] = worker[x]
    BY <1>2, StoreAssumption
  <2>2. Works(x, c)
    BY <2>1 DEF Held
  <2> QED BY <2>1, <2>2 DEF Works, Char
<1> QED BY <1>1, <1>2

(* Steps inside the section leave the lock with the worker.                *)
LEMMA HeldInside ==
  ASSUME Held, NEW w \in Workers, lock' = lock,
         \A x \in Workers \ {w} : worker'[x] = worker[x],
         worker'[w] # NoCall, worker'[w].req = worker[w].req, worker'[w].step \in Locked
  PROVE  Held'
<1>1. \A c \in Characters : lock'[c] = w => Works(w, c)'
  BY DEF Held, Works, Char
<1> QED BY <1>1, HeldByOne

(* Leaving the section gives the lock back, and the worker held no other.  *)
LEMMA HeldLeaving ==
  ASSUME StoreInv, Held, NEW w \in Workers, worker[w] # NoCall, NEW answer \in Answers,
         Leave(w, answer)
  PROVE  Held'
<1>1. /\ \A x \in Workers \ {w} : worker'[x] = worker[x]
      /\ \A c \in Characters \ {Char(w)} : lock'[c] = lock[c]
      /\ lock'[Char(w)] = NoWorker
  BY LeaveEffect DEF StoreInv
<1>2. \A c \in Characters : lock'[c] # w
  BY <1>1, StoreAssumption DEF Held, Works
<1> QED BY <1>1, <1>2, HeldByOne

(* Taking the lock is entering the section.                                *)
LEMMA HeldAcquired ==
  ASSUME StoreInv, Held, NEW w \in Workers, Acquire(w)
  PROVE  Held'
<1>1. worker[w] # NoCall /\ worker[w].step = "queued" /\ TypeOK
  BY DEF Acquire, At, StoreInv
<1>2. /\ \A x \in Workers \ {w} : worker'[x] = worker[x]
      /\ worker'[w] # NoCall /\ worker'[w].req = worker[w].req
      /\ worker'[w].step \in {"writing", "loading"}
  <2>1. CASE Kind(w) = "create"
    BY <1>1, <2>1, FreshTyped, TakeEffectOnJob DEF Acquire, Steps
  <2>2. CASE Kind(w) # "create"
    BY <1>1, <2>2, GotoEffect DEF Acquire, Steps
  <2> QED BY <2>1, <2>2
<1>3. \A c \in Characters : lock[c] # w
  BY <1>1 DEF Held, Works, Locked
<1>4. \A c \in Characters : lock'[c] = IF c = Char(w) THEN w ELSE lock[c]
  BY <1>1 DEF Acquire, TypeOK
<1>5. \A c \in Characters : lock'[c] = w => Works(w, c)'
  BY <1>2, <1>3, <1>4 DEF Works, Char, Locked, Steps
<1> QED BY <1>2, <1>4, <1>5, HeldByOne

(* Loading and applying end inside the section or leave it.                *)
LEMMA HeldServing ==
  ASSUME StoreInv, Held, NEW w \in Workers, Load(w) \/ Apply(w)
  PROVE  Held'
<1>1. /\ worker[w] # NoCall /\ worker[w].step \in {"loading", "applying"}
      /\ worker[w].step \in Locked
  BY DEF Load, Apply, At, Locked, Steps
<1>2. TypeOK /\ Char(w) \in Characters
  BY <1>1, InSection
<1>3. PICK answer \in Answers, step \in {"reading", "applying", "writing"}, rec \in Records :
        \/ Leave(w, answer)
        \/ worker' = [worker EXCEPT ![w].step = step, ![w].mem = rec] /\ lock' = lock
  <2>1. CASE Load(w) /\ disk[Char(w)] = NoRecord
    BY <2>1, AnswerTyped, FreshTyped DEF Load
  <2>2. CASE Load(w) /\ disk[Char(w)] # NoRecord
    <3>1. disk[Char(w)] \in Records
      BY <1>2, <2>2 DEF TypeOK
    <3>2. CASE Kind(w) = "read"
      BY <2>2, <3>1, <3>2, AnswerTyped DEF Load
    <3>3. CASE Kind(w) # "read"
      BY <2>2, <3>1, <3>3, AnswerTyped DEF Load
    <3> QED BY <3>2, <3>3
  <2>3. CASE Apply(w) /\ ~ Accepts(worker[w].mem, worker[w].req)
    BY <2>3, AnswerTyped, FreshTyped DEF Apply
  <2>4. CASE Apply(w) /\ Accepts(worker[w].mem, worker[w].req)
    <3>1. worker[w].mem \in Records /\ worker[w].req.kind \in Edits /\ worker[w].req \in Requests
      BY <1>1, <2>4, InSection DEF Apply, At, Remembers
    <3>2. Applied(worker[w].mem, worker[w].req) \in Records
      BY <2>4, <3>1, AppliedTyped
    <3> QED BY <2>4, <3>2, AnswerTyped DEF Apply
  <2> QED BY <2>1, <2>2, <2>3, <2>4
<1>4. CASE Leave(w, answer)
  BY <1>1, <1>4, HeldLeaving
<1>5. CASE worker' = [worker EXCEPT ![w].step = step, ![w].mem = rec] /\ lock' = lock
  <2>1. step \in Steps /\ step \in Locked
    BY DEF Steps, Locked
  <2>2. /\ \A x \in Workers \ {w} : worker'[x] = worker[x]
        /\ worker'[w] # NoCall /\ worker'[w].req = worker[w].req
        /\ worker'[w].step = step
    BY <1>1, <1>2, <1>5, <2>1, TakeEffectOnJob
  <2> QED BY <1>5, <2>1, <2>2, HeldInside
<1> QED BY <1>3, <1>4, <1>5

(* Saving goes on inside the section.                                      *)
LEMMA HeldSaving ==
  ASSUME StoreInv, Held, NEW w \in Workers, OpenTemp(w) \/ CloseTemp(w) \/ Replace(w)
  PROVE  Held'
<1>1. worker[w] # NoCall /\ TypeOK /\ lock' = lock
  BY DEF OpenTemp, CloseTemp, Replace, At, StoreInv
<1>2. PICK step \in {"closing", "replacing", "reading"} : Goto(w, step)
  BY DEF OpenTemp, CloseTemp, Replace
<1>3. step \in Steps /\ step \in Locked
  BY DEF Steps, Locked
<1> QED BY <1>1, <1>2, <1>3, GotoEffect, HeldInside

(* Every step keeps the locks with those who work under them.              *)
LEMMA HeldStep == StoreInv /\ Held /\ [Next]_vars => Held'
<1> SUFFICES ASSUME StoreInv, Held, [Next]_vars PROVE Held'
  OBVIOUS
<1>1. ASSUME NEW w \in Workers, NEW req \in Requests, Arrive(w, req) PROVE Held'
  <2>1. /\ worker[w] = NoCall /\ lock' = lock
        /\ \A x \in Workers \ {w} : worker'[x] = worker[x]
    BY <1>1 DEF Arrive, StoreInv, TypeOK
  <2> QED BY <2>1, HeldByOne DEF Held, Works
<1>2. ASSUME NEW w \in Workers, Return(w) PROVE Held'
  <2>1. /\ worker[w].step = "answering" /\ lock' = lock
        /\ \A x \in Workers \ {w} : worker'[x] = worker[x]
    BY <1>2 DEF Return, At, StoreInv, TypeOK
  <2> QED BY <2>1, HeldByOne DEF Held, Works, Locked
<1>3. ASSUME NEW w \in Workers, ReadRaw(w) PROVE Held'
  <2>1. worker[w] # NoCall /\ worker[w].step = "reading" /\ worker[w].step \in Locked
    BY <1>3 DEF ReadRaw, At, Locked, Steps
  <2>2. disk[Char(w)] \in Records \cup {NoRecord}
    BY <2>1, InSection DEF TypeOK
  <2> QED BY <1>3, <2>1, <2>2, AnswerTyped, HeldLeaving DEF ReadRaw
<1>4. ASSUME NEW w \in Workers, Fail(w) PROVE Held'
  BY <1>4, AnswerTyped, HeldLeaving DEF Fail, Unanswered
<1>5. CASE Crash
  <2>1. \A c \in Characters : lock'[c] = NoWorker
    BY <1>5 DEF Crash
  <2> QED BY <2>1, StoreAssumption DEF Held
<1>6. CASE UNCHANGED vars
  BY <1>6 DEF vars, Held, Works, Char
<1> QED
  BY <1>1, <1>2, <1>3, <1>4, <1>5, <1>6, HeldAcquired, HeldServing, HeldSaving
  DEF Next, Advance

(* A lock is held by the one worker in its section on that character: for  *)
(* any number of workers two calls never read and write one record at a    *)
(* time, and neither a failure nor a crash leaves a lock behind.           *)
THEOREM LocksAreWorked == Spec => []LockIsWorked
<1>1. Init => Held
  BY StoreAssumption DEF Init, Held
<1>2. StoreInv /\ Held => LockIsWorked
  BY DEF StoreInv, Sound, Held, Works, LockIsWorked
<1> QED
  BY <1>1, <1>2, InvInit, InvStep, HeldStep, PTL DEF Spec

(***************************************************************************)
(* The refinement: every step of the store is a step of AtomicStore, or    *)
(* none.  A call takes effect when its file is put in place.               *)
(***************************************************************************)

(* The abstract store speaks of the same calls, records and answers.       *)
LEMMA SameCalls ==
  /\ Atomic!Requests = Requests /\ Atomic!Answers = Answers /\ Atomic!Fresh = Fresh
  /\ Atomic!StoredRecords = StoredRecords
  /\ \A status, rec : Atomic!Answer(status, rec) = Answer(status, rec)
  /\ \A rec, req : Atomic!Accepts(rec, req) <=> Accepts(rec, req)
  /\ \A rec, req : Atomic!Applied(rec, req) = Applied(rec, req)
BY DEF Atomic!Requests, Requests, Atomic!Answers, Answers, Atomic!Records, Records,
       Atomic!Edits, Edits, Atomic!Fresh, Fresh, Atomic!StoredRecords, StoredRecords,
       Atomic!Answer, Answer, Atomic!Accepts, Accepts, Atomic!Applied, Applied

(* What the mapping makes of a worker.                                     *)
LEMMA BarOf ==
  ASSUME StoreInv, NEW w \in Workers, worker[w] # NoCall
  PROVE  /\ callBar[w] = CallBar(w) /\ callBar[w] # NoCall
         /\ callBar[w].req = worker[w].req
         /\ (worker[w].step = "answering" \/ (worker[w].step = "reading" /\ Kind(w) # "read"))
              => callBar[w].stage = "done"
         /\ (worker[w].step # "answering" /\ ~(worker[w].step = "reading" /\ Kind(w) # "read"))
              => callBar[w] = Atomic!Waiting(worker[w].req) /\ callBar[w].stage = "waiting"
         /\ worker[w].step = "answering" =>
              callBar[w] = Atomic!Done(worker[w].req, worker[w].answer)
         /\ (worker[w].step = "reading" /\ Kind(w) # "read") =>
              callBar[w] = Atomic!Done(worker[w].req, Answer("ok", worker[w].mem))
<1>1. TypeOK /\ Sound(w)
  BY DEF StoreInv
<1>2. /\ worker[w].req \in Requests /\ worker[w].answer \in Answers
      /\ worker[w].mem \in Records \cup {NoRecord}
  BY <1>1, JobTyped
<1>3. callBar[w] = CallBar(w)
  BY DEF callBar
<1>4. CallBar(w) \in Atomic!Calls
  BY <1>2, AnswerTyped, SameCalls DEF CallBar, Atomic!Calls
<1>5. worker[w].step # "answering" => worker[w].answer = Unanswered
  BY <1>1 DEF Sound
<1> QED
  BY <1>3, <1>4, <1>5, BarAssumption, SameCalls
  DEF CallBar, Kind, Atomic!Waiting, Atomic!Done, Unanswered

(* A step of worker w changes the mapping at w only.                       *)
LEMMA BarStep ==
  ASSUME NEW w \in Workers, \A x \in Workers \ {w} : worker'[x] = worker[x]
  PROVE  callBar' = [callBar EXCEPT ![w] = callBar'[w]]
<1>1. \A x \in Workers \ {w} : callBar'[x] = callBar[x]
  BY DEF callBar, CallBar
<1>2. callBar = [x \in Workers |-> callBar[x]] /\ callBar' = [x \in Workers |-> callBar'[x]]
  BY DEF callBar
<1> QED BY <1>1, <1>2

(* The store starts as the abstract store does.                            *)
LEMMA RefinesInit == Init => Atomic!Init
BY SameCalls DEF Init, Atomic!Init, callBar, CallBar

(* The mapping of a worker that has left with an answer.                   *)
LEMMA LeaveBar ==
  ASSUME StoreInv, StoreInv', NEW w \in Workers, worker[w] # NoCall,
         NEW answer \in Answers, Leave(w, answer)
  PROVE  callBar' = [callBar EXCEPT ![w] = Atomic!Done(worker[w].req, answer)]
<1>1. /\ \A x \in Workers \ {w} : worker'[x] = worker[x]
      /\ worker'[w] # NoCall /\ worker'[w].req = worker[w].req
      /\ worker'[w].step = "answering" /\ worker'[w].answer = answer
  BY LeaveEffect DEF StoreInv
<1>2. callBar'[w] = Atomic!Done(worker[w].req, answer)
  BY <1>1 DEF callBar, CallBar, Atomic!Done
<1> QED BY <1>1, <1>2, BarStep

(* A call takes effect in one step: its outcome on the record of that      *)
(* moment is the record put in place and the answer to be given.           *)
LEMMA EffectStep ==
  ASSUME StoreInv, NEW w \in Workers, worker[w] # NoCall,
         callBar[w] = Atomic!Waiting(worker[w].req), callBar[w].stage = "waiting",
         NEW answer, NEW rec,
         Atomic!Outcome(worker[w].req, disk[Char(w)]) = <<answer, rec>>,
         disk' = [disk EXCEPT ![Char(w)] = rec],
         callBar' = [callBar EXCEPT ![w] = Atomic!Done(worker[w].req, answer)]
  PROVE  Atomic!TakeEffect(w)
<1>1. callBar[w] # NoCall /\ callBar[w].req = worker[w].req
  BY BarOf
<1>2. callBar[w].req.char = Char(w)
  BY <1>1 DEF Char
<1>3. Atomic!Outcome(callBar[w].req, disk[callBar[w].req.char]) = <<answer, rec>>
  BY <1>1, <1>2
<1>4. Atomic!Finish(w, answer)
  BY <1>1 DEF Atomic!Finish
<1>5. <<answer, rec>>[1] = answer /\ <<answer, rec>>[2] = rec
  OBVIOUS
<1>6. /\ disk' = [disk EXCEPT ![callBar[w].req.char] = <<answer, rec>>[2]]
      /\ Atomic!Finish(w, <<answer, rec>>[1])
  BY <1>2, <1>4, <1>5
<1> QED BY <1>1, <1>3, <1>6, Zenon DEF Atomic!TakeEffect

(* A record found missing is the effect of the call; loading one is none.  *)
LEMMA LoadRefines ==
  ASSUME StoreInv, StoreInv', NEW w \in Workers, Load(w)
  PROVE  Atomic!TakeEffect(w) \/ UNCHANGED <<disk, callBar>>
<1>1. worker[w] # NoCall /\ worker[w].step = "loading" /\ worker[w].step \in Locked
  BY DEF Load, At, Locked, Steps
<1>2. TypeOK /\ Char(w) \in Characters /\ Kind(w) # "create"
  BY <1>1, InSection DEF Remembers, Kind
<1>3. callBar[w] = Atomic!Waiting(worker[w].req) /\ callBar[w].stage = "waiting"
  BY <1>1, BarOf
<1>4. CASE disk[Char(w)] = NoRecord
  <2> DEFINE missing == Answer("missing", NoRecord)
  <2>1. Atomic!Outcome(worker[w].req, disk[Char(w)]) = <<missing, NoRecord>>
    BY <1>2, <1>4, SameCalls DEF Atomic!Outcome, Kind
  <2>2. disk' = [disk EXCEPT ![Char(w)] = NoRecord]
    BY <1>2, <1>4 DEF Load, TypeOK
  <2>3. callBar' = [callBar EXCEPT ![w] = Atomic!Done(worker[w].req, missing)]
    BY <1>1, <1>4, AnswerTyped, LeaveBar DEF Load
  <2> QED BY <1>1, <1>3, <2>1, <2>2, <2>3, EffectStep
<1>5. CASE disk[Char(w)] # NoRecord
  <2> DEFINE next == IF Kind(w) = "read" THEN "reading" ELSE "applying"
  <2>1. worker' = [worker EXCEPT ![w].step = next, ![w].mem = disk[Char(w)]] /\ disk' = disk
    BY <1>5 DEF Load
  <2>2. worker'[w] = [worker[w] EXCEPT !.step = next, !.mem = disk[Char(w)]]
        /\ \A x \in Workers \ {w} : worker'[x] = worker[x]
    BY <1>2, <2>1 DEF TypeOK
  <2>3. worker[w] \in Jobs
    BY <1>1, <1>2, JobTyped
  <2>4. worker'[w].req = worker[w].req /\ worker'[w].step = next
        /\ worker'[w].answer = worker[w].answer
    BY <2>2, <2>3 DEF Jobs
  <2>5. worker'[w] # NoCall
    <3>1. disk[Char(w)] \in Records \cup {NoRecord} /\ next \in Steps
      BY <1>2 DEF TypeOK, Steps
    <3> HIDE DEF next
    <3>2. worker'[w] \in Jobs
      BY <2>2, <2>3, <3>1 DEF Jobs
    <3> QED BY <3>2, StoreAssumption
  <2>6. callBar'[w] = callBar[w]
    BY <1>1, <2>4, <2>5 DEF callBar, CallBar, Kind
  <2>7. callBar' = callBar
    BY <2>2, <2>6, BarStep DEF callBar
  <2> QED BY <2>1, <2>7
<1> QED BY <1>4, <1>5

(* A refusal is the effect of the call; an accepted edit in memory is none.*)
LEMMA ApplyRefines ==
  ASSUME StoreInv, StoreInv', NEW w \in Workers, Apply(w)
  PROVE  Atomic!TakeEffect(w) \/ UNCHANGED <<disk, callBar>>
<1>1. worker[w] # NoCall /\ worker[w].step = "applying" /\ worker[w].step \in Locked
  BY DEF Apply, At, Locked, Steps
<1>2. /\ TypeOK /\ Char(w) \in Characters /\ Kind(w) \in Edits
      /\ worker[w].mem = disk[Char(w)] /\ disk[Char(w)] \in Records
  BY <1>1, InSection DEF Remembers, Kind
<1>3. callBar[w] = Atomic!Waiting(worker[w].req) /\ callBar[w].stage = "waiting"
  BY <1>1, BarOf
<1>4. CASE ~Accepts(worker[w].mem, worker[w].req)
  <2> DEFINE refused == Answer("refused", NoRecord)
  <2>1. Atomic!Outcome(worker[w].req, disk[Char(w)]) = <<refused, disk[Char(w)]>>
    BY <1>2, <1>4, SameCalls, CallsAssumption DEF Atomic!Outcome, Kind, Edits
  <2>2. disk' = [disk EXCEPT ![Char(w)] = disk[Char(w)]]
    BY <1>2, <1>4 DEF Apply, TypeOK
  <2>3. callBar' = [callBar EXCEPT ![w] = Atomic!Done(worker[w].req, refused)]
    BY <1>1, <1>4, AnswerTyped, LeaveBar DEF Apply
  <2> QED BY <1>1, <1>3, <2>1, <2>2, <2>3, EffectStep
<1>5. CASE Accepts(worker[w].mem, worker[w].req)
  <2> DEFINE after == Applied(worker[w].mem, worker[w].req)
  <2>1. worker' = [worker EXCEPT ![w].step = "writing", ![w].mem = after] /\ disk' = disk
    BY <1>5 DEF Apply
  <2> HIDE DEF after
  <2>2. worker'[w] = [worker[w] EXCEPT !.step = "writing", !.mem = after]
        /\ \A x \in Workers \ {w} : worker'[x] = worker[x]
    BY <1>2, <2>1 DEF TypeOK
  <2>3. worker[w] \in Jobs
    BY <1>1, <1>2, JobTyped
  <2>4. worker'[w].req = worker[w].req /\ worker'[w].step = "writing"
        /\ worker'[w].answer = worker[w].answer
    BY <2>2, <2>3 DEF Jobs
  <2>5. callBar'[w] = callBar[w]
    <3>1. after \in Records
      BY <1>2, <1>5, AppliedTyped, JobTyped, <1>1 DEF after, Kind
    <3>2. worker'[w] # NoCall
      BY <1>1, <1>2, <2>1, <3>1, TakeEffectOnJob DEF Steps
    <3> QED BY <1>1, <2>4, <3>2 DEF callBar, CallBar, Kind
  <2>6. callBar' = callBar
    BY <2>2, <2>5, BarStep DEF callBar
  <2> QED BY <2>1, <2>6
<1> QED BY <1>4, <1>5

(* A step to another step of the same kind of job is no step of the        *)
(* abstract store.                                                         *)
LEMMA SilentStep ==
  ASSUME StoreInv, NEW w \in Workers, worker[w] # NoCall,
         worker[w].step \notin {"reading", "answering"},
         \A x \in Workers \ {w} : worker'[x] = worker[x],
         worker'[w] # NoCall, worker'[w].req = worker[w].req,
         worker'[w].answer = worker[w].answer,
         worker'[w].step \notin {"reading", "answering"}
  PROVE  callBar' = callBar
<1>1. callBar'[w] = callBar[w]
  BY DEF callBar, CallBar
<1> QED BY <1>1, BarStep DEF callBar

(* Taking the lock is no effect.                                           *)
LEMMA AcquireRefines ==
  ASSUME StoreInv, NEW w \in Workers, Acquire(w)
  PROVE  UNCHANGED <<disk, callBar>>
<1>1. worker[w] # NoCall /\ worker[w].step = "queued" /\ TypeOK
  BY DEF Acquire, At, StoreInv
<1>2. CASE Kind(w) = "create"
  BY <1>1, <1>2, FreshTyped, TakeEffectOnJob, SilentStep DEF Acquire, Steps
<1>3. CASE Kind(w) # "create"
  BY <1>1, <1>3, GotoEffect, SilentStep DEF Acquire, Steps
<1> QED BY <1>2, <1>3

(* os.replace is the effect of a mutation and of a creation; writing the   *)
(* temporary file is none.                                                 *)
LEMMA SaveRefines ==
  ASSUME StoreInv, NEW w \in Workers, OpenTemp(w) \/ CloseTemp(w) \/ Replace(w)
  PROVE  Atomic!TakeEffect(w) \/ UNCHANGED <<disk, callBar>>
<1>1. /\ worker[w] # NoCall /\ worker[w].step \in Saving /\ worker[w].step \in Locked
      /\ TypeOK
  BY DEF OpenTemp, CloseTemp, Replace, At, Saving, Locked, Steps, StoreInv
<1>2. CASE OpenTemp(w)
  BY <1>1, <1>2, GotoEffect, SilentStep DEF OpenTemp, Steps, Saving
<1>3. CASE CloseTemp(w)
  BY <1>1, <1>3, GotoEffect, SilentStep DEF CloseTemp, Steps, Saving
<1>4. CASE Replace(w)
  <2> DEFINE req == worker[w].req
             mem == worker[w].mem
  <2>1. Remembers(worker[w], Char(w)) /\ Char(w) \in Characters
    BY <1>1, InSection
  <2>2. temp[Char(w)] = mem
    BY <1>4, <2>1 DEF Replace, At, Remembers
  <2>3. disk' = [disk EXCEPT ![Char(w)] = mem]
    BY <1>4, <2>2 DEF Replace
  <2>4. Atomic!Outcome(req, disk[Char(w)]) = <<Answer("ok", mem), mem>>
    <3>1. CASE req.kind = "create" /\ mem = Fresh
      BY <3>1, SameCalls DEF Atomic!Outcome
    <3>2. CASE /\ req.kind \in Edits
               /\ disk[Char(w)] \in Records /\ Accepts(disk[Char(w)], req)
               /\ mem = Applied(disk[Char(w)], req)
      BY <3>2, SameCalls, CallsAssumption DEF Atomic!Outcome, Edits
    <3> QED BY <1>1, <2>1, <3>1, <3>2 DEF Remembers
  <2>5. req.kind # "read"
    BY <1>1, <2>1 DEF Remembers, Edits
  <2>6. /\ \A x \in Workers \ {w} : worker'[x] = worker[x]
        /\ worker'[w] # NoCall /\ worker'[w].req = req
        /\ worker'[w].step = "reading" /\ worker'[w].mem = mem
    BY <1>1, <1>4, GotoEffect DEF Replace, Steps
  <2>7. callBar'[w] = Atomic!Done(req, Answer("ok", mem))
    BY <2>5, <2>6 DEF callBar, CallBar, Atomic!Done
  <2>8. callBar' = [callBar EXCEPT ![w] = Atomic!Done(req, Answer("ok", mem))]
    BY <2>6, <2>7, BarStep
  <2>9. callBar[w] = Atomic!Waiting(req) /\ callBar[w].stage = "waiting"
    BY <1>1, BarOf DEF Saving
  <2> HIDE DEF mem
  <2> QED BY <1>1, <2>3, <2>4, <2>8, <2>9, EffectStep
<1> QED BY <1>2, <1>3, <1>4

(* Serving the file is the effect of a read; after a mutation it serves what*)
(* the mutation saved.                                                     *)
LEMMA ReadRawRefines ==
  ASSUME StoreInv, StoreInv', NEW w \in Workers, ReadRaw(w)
  PROVE  Atomic!TakeEffect(w) \/ UNCHANGED <<disk, callBar>>
<1> DEFINE req == worker[w].req
           rec == disk[Char(w)]
<1>1. worker[w] # NoCall /\ worker[w].step = "reading" /\ worker[w].step \in Locked
  BY DEF ReadRaw, At, Locked, Steps
<1>2. /\ TypeOK /\ Char(w) \in Characters
      /\ worker[w].mem = rec /\ rec \in Records
  BY <1>1, InSection DEF Remembers
<1>3. Leave(w, Answer("ok", rec)) /\ disk' = disk
  BY DEF ReadRaw
<1>4. callBar' = [callBar EXCEPT ![w] = Atomic!Done(req, Answer("ok", rec))]
  BY <1>1, <1>2, <1>3, AnswerTyped, LeaveBar
<1>5. CASE req.kind = "read"
  <2>1. Atomic!Outcome(req, rec) = <<Answer("ok", rec), rec>>
    BY <1>2, <1>5, SameCalls, CallsAssumption DEF Atomic!Outcome
  <2>2. disk' = [disk EXCEPT ![Char(w)] = rec]
    BY <1>2, <1>3 DEF TypeOK
  <2>3. callBar[w] = Atomic!Waiting(req) /\ callBar[w].stage = "waiting"
    BY <1>1, <1>5, BarOf DEF Kind
  <2> QED BY <1>1, <1>4, <2>1, <2>2, <2>3, EffectStep
<1>6. CASE req.kind # "read"
  <2>1. callBar[w] = Atomic!Done(req, Answer("ok", rec))
    BY <1>1, <1>2, <1>6, BarOf DEF Kind
  <2>2. callBar' = callBar
    BY <1>4, <2>1 DEF callBar
  <2> QED BY <1>3, <2>2
<1> QED BY <1>5, <1>6

(* Every step of the store is a step of the abstract store or none.        *)
LEMMA StoreStepRefines ==
  StoreInv /\ StoreInv' /\ [Next]_vars => [Atomic!Next]_<<disk, callBar>>
<1> SUFFICES ASSUME StoreInv, StoreInv', [Next]_vars
             PROVE  [Atomic!Next]_<<disk, callBar>>
  OBVIOUS
<1>1. ASSUME NEW w \in Workers, NEW req \in Requests, Arrive(w, req)
      PROVE  Atomic!Arrive(w, req)
  <2> DEFINE job == [req |-> req, step |-> "queued", mem |-> NoRecord, answer |-> Unanswered]
  <2>1. job \in Jobs /\ worker' = [worker EXCEPT ![w] = job] /\ worker[w] = NoCall
    BY <1>1, AnswerTyped DEF Arrive, Jobs, Steps, Unanswered
  <2>2. worker'[w] = job /\ job # NoCall /\ \A x \in Workers \ {w} : worker'[x] = worker[x]
    BY <2>1, StoreAssumption DEF StoreInv, TypeOK
  <2>3. callBar[w] = NoCall /\ callBar'[w] = Atomic!Waiting(req)
    BY <2>1, <2>2, SameCalls DEF callBar, CallBar, Atomic!Waiting, Unanswered
  <2>4. callBar' = [callBar EXCEPT ![w] = Atomic!Waiting(req)]
    BY <2>2, <2>3, BarStep
  <2>5. ASSUME req.kind = "create" PROVE Atomic!Unused(req.char)
    <3>1. Unused(req.char)
      BY <1>1, <2>5 DEF Arrive
    <3>2. ASSUME NEW x \in Workers, callBar[x] # NoCall PROVE callBar[x].req.char # req.char
      <4>1. worker[x] # NoCall
        BY <3>2 DEF callBar, CallBar
      <4> QED BY <3>1, <4>1, BarOf DEF Unused, Char
    <3> QED BY <3>1, <3>2 DEF Unused, Atomic!Unused
  <2> QED BY <1>1, <2>3, <2>4, <2>5 DEF Arrive, Atomic!Arrive
<1>2. ASSUME NEW w \in Workers, Fail(w) PROVE Atomic!Fail(w)
  <2>1. worker[w] # NoCall /\ Leave(w, Unanswered) /\ disk' = disk
    BY <1>2 DEF Fail
  <2>2. callBar' = [callBar EXCEPT ![w] = Atomic!Done(worker[w].req, Unanswered)]
    BY <2>1, AnswerTyped, LeaveBar DEF Unanswered
  <2>3. callBar[w] # NoCall /\ callBar[w].req = worker[w].req
    BY <2>1, BarOf
  <2> QED BY <2>1, <2>2, <2>3, SameCalls DEF Atomic!Fail, Atomic!Finish, Unanswered
<1>3. ASSUME NEW w \in Workers, Return(w) PROVE Atomic!Return(w)
  <2>1. worker[w] # NoCall /\ worker[w].step = "answering"
        /\ worker' = [worker EXCEPT ![w] = NoCall] /\ disk' = disk
    BY <1>3 DEF Return, At
  <2>2. worker'[w] = NoCall /\ \A x \in Workers \ {w} : worker'[x] = worker[x]
    BY <2>1 DEF StoreInv, TypeOK
  <2>3. callBar'[w] = NoCall
    BY <2>2 DEF callBar, CallBar
  <2>4. callBar[w] # NoCall /\ callBar[w].stage = "done"
    BY <2>1, BarOf
  <2> QED BY <2>1, <2>2, <2>3, <2>4, BarStep DEF Atomic!Return
<1>4. ASSUME Crash PROVE Atomic!Crash
  BY <1>4 DEF Crash, Atomic!Crash, callBar, CallBar
<1>5. ASSUME UNCHANGED vars PROVE UNCHANGED <<disk, callBar>>
  BY <1>5 DEF vars, callBar, CallBar
<1>6. ASSUME NEW w \in Workers, Acquire(w) \/ Advance(w)
      PROVE  Atomic!TakeEffect(w) \/ UNCHANGED <<disk, callBar>>
  BY <1>6, AcquireRefines, LoadRefines, ApplyRefines, SaveRefines, ReadRawRefines
  DEF Advance
<1>7. \A w \in Workers : Atomic!TakeEffect(w) => Atomic!Next
  BY DEF Atomic!Next
<1>8. \A w \in Workers : Atomic!Fail(w) \/ Atomic!Return(w) => Atomic!Next
  BY DEF Atomic!Next
<1>9. \A w \in Workers : \A req \in Requests : Atomic!Arrive(w, req) => Atomic!Next
  BY SameCalls DEF Atomic!Next
<1>10. Atomic!Crash => Atomic!Next
  BY DEF Atomic!Next
<1> QED
  BY <1>1, <1>2, <1>3, <1>4, <1>5, <1>6, <1>7, <1>8, <1>9, <1>10 DEF Next

(* The store implements atomic calls, for any number of workers and        *)
(* characters: no edit is lost, no answer shows a record between two       *)
(* calls, and what was answered survives a crash.                          *)
THEOREM StoreIsAtomic == Spec => ImplementsAtomicStore
<1>1. StoreInv /\ StoreInv' /\ [Next]_vars => [Atomic!Next]_<<disk, callBar>>
  BY StoreStepRefines
<1> QED
  BY <1>1, InvInit, InvStep, RefinesInit, PTL DEF Spec, ImplementsAtomicStore, Atomic!Spec

(***************************************************************************)
(* The markers.  While an edit is being saved its marker is the edited     *)
(* record's; otherwise it is the file's.                                   *)
(***************************************************************************)
Saves(w, c) == worker[w] # NoCall /\ worker[w].step \in Saving /\ Char(w) = c

PersonaOnly(r) == Mentions[r] \subseteq {"persona"}

MarkTrue(r) ==
  PersonaOnly(r) /\ r \notin torn =>
    /\ \A w \in Workers : Saves(w, OwnerOf[r]) => (marks[r] <=> Mismatch(r, worker[w].mem))
    /\ (\A w \in Workers : ~ Saves(w, OwnerOf[r])) => (marks[r] <=> Mismatch(r, disk[OwnerOf[r]]))

(* A character with receipts has a file, and nobody is creating it.        *)
Owned ==
  /\ \A r \in Receipts : disk[OwnerOf[r]] # NoRecord
  /\ \A w \in Workers : worker[w] # NoCall =>
       (Kind(w) = "create" => \A r \in Receipts : OwnerOf[r] # Char(w))

MarkInv == Owned /\ \A r \in Receipts : MarkTrue(r)

(* A receipt of the persona cannot tell two records of one persona apart.  *)
LEMMA SamePersona ==
  ASSUME NEW r \in Receipts, PersonaOnly(r), NEW a, NEW b,
         "persona" \in Mentions[r] => a.persona = b.persona
  PROVE  Mismatch(r, a) <=> Mismatch(r, b)
BY DEF Mismatch, PersonaOnly

(* The lock leaves room for one saver.                                     *)
LEMMA Alone ==
  ASSUME StoreInv, NEW w \in Workers, worker[w] # NoCall, worker[w].step \in Locked,
         NEW x \in Workers, x # w
  PROVE  ~ Saves(x, Char(w))
BY DEF StoreInv, Sound, Saves, Saving, Locked, Steps

(* A step that neither begins nor ends a save, nor writes a marker.        *)
LEMMA QuietMarks ==
  ASSUME NEW r \in Receipts, MarkTrue(r), UNCHANGED <<disk, marks>>, torn \subseteq torn',
         \A w \in Workers : /\ Saves(w, OwnerOf[r])' <=> Saves(w, OwnerOf[r])
                            /\ Saves(w, OwnerOf[r]) => worker'[w].mem = worker[w].mem
  PROVE  MarkTrue(r)'
<1> DEFINE c == OwnerOf[r]
<1> SUFFICES ASSUME PersonaOnly(r), r \notin torn'
             PROVE  /\ \A w \in Workers : Saves(w, c)' => (marks'[r] <=> Mismatch(r, worker'[w].mem))
                    /\ (\A w \in Workers : ~ Saves(w, c)') => (marks'[r] <=> Mismatch(r, disk'[c]))
  BY DEF MarkTrue, PersonaOnly, Mismatch
<1>1. /\ \A w \in Workers : Saves(w, c) => (marks[r] <=> Mismatch(r, worker[w].mem))
      /\ (\A w \in Workers : ~ Saves(w, c)) => (marks[r] <=> Mismatch(r, disk[c]))
  BY DEF MarkTrue
<1>2. marks' = marks /\ disk' = disk
  OBVIOUS
<1>3. ASSUME NEW w \in Workers, Saves(w, c)'
      PROVE  marks'[r] <=> Mismatch(r, worker'[w].mem)
  <2>1. Saves(w, c) /\ worker'[w].mem = worker[w].mem
    BY <1>3
  <2> QED BY <1>1, <1>2, <2>1
<1>4. (\A w \in Workers : ~ Saves(w, c)') => (marks'[r] <=> Mismatch(r, disk'[c]))
  BY <1>1, <1>2
<1> QED BY <1>3, <1>4

(* Nobody saves the character after the step.                              *)
LEMMA RestMarks ==
  ASSUME NEW r \in Receipts, \A x \in Workers : ~ Saves(x, OwnerOf[r])',
         PersonaOnly(r) /\ r \notin torn' => (marks'[r] <=> Mismatch(r, disk'[OwnerOf[r]]))
  PROVE  MarkTrue(r)'
<1>1. Mismatch(r, disk[OwnerOf[r]])' <=> Mismatch(r, disk'[OwnerOf[r]])
  BY DEF Mismatch
<1>2. PersonaOnly(r)' <=> PersonaOnly(r)
  BY DEF PersonaOnly
<1> QED BY <1>1, <1>2 DEF MarkTrue

(* One worker saves it.                                                    *)
LEMMA SavedMarks ==
  ASSUME NEW r \in Receipts, NEW w \in Workers, NEW rec,
         \A x \in Workers \ {w} : ~ Saves(x, OwnerOf[r])', Saves(w, OwnerOf[r])',
         worker'[w].mem = rec,
         PersonaOnly(r) /\ r \notin torn' => (marks'[r] <=> Mismatch(r, rec))
  PROVE  MarkTrue(r)'
<1>1. Mismatch(r, worker[w].mem)' <=> Mismatch(r, rec)
  BY DEF Mismatch
<1>2. PersonaOnly(r)' <=> PersonaOnly(r)
  BY DEF PersonaOnly
<1> QED BY <1>1, <1>2 DEF MarkTrue

(* The step of a worker on another character.                              *)
LEMMA AwayMarks ==
  ASSUME NEW w \in Workers, NEW r \in Receipts, MarkTrue(r),
         ~ Saves(w, OwnerOf[r]), ~ Saves(w, OwnerOf[r])',
         \A x \in Workers \ {w} : worker'[x] = worker[x],
         marks'[r] = marks[r], r \in torn => r \in torn',
         disk'[OwnerOf[r]] = disk[OwnerOf[r]]
  PROVE  MarkTrue(r)'
<1> DEFINE c == OwnerOf[r]
<1>1. \A x \in Workers \ {w} : Saves(x, c)' <=> Saves(x, c)
  BY DEF Saves, Char
<1> SUFFICES ASSUME PersonaOnly(r), r \notin torn'
             PROVE  /\ \A x \in Workers : Saves(x, c)' => (marks'[r] <=> Mismatch(r, worker'[x].mem))
                    /\ (\A x \in Workers : ~ Saves(x, c)') => (marks'[r] <=> Mismatch(r, disk'[c]))
  BY DEF MarkTrue, PersonaOnly, Mismatch
<1>2. /\ \A x \in Workers : Saves(x, c) => (marks[r] <=> Mismatch(r, worker[x].mem))
      /\ (\A x \in Workers : ~ Saves(x, c)) => (marks[r] <=> Mismatch(r, disk[c]))
  BY DEF MarkTrue
<1> QED BY <1>1, <1>2

(* An edit given up before it is saved leaves the marker of the file,      *)
(* unless it was torn.                                                     *)
LEMMA GivenUp ==
  ASSUME StoreInv, Owned, NEW w \in Workers, NEW r \in Receipts, PersonaOnly(r),
         Saves(w, OwnerOf[r]), ~ (Unsaved(w) /\ r \in Touched(Char(w)))
  PROVE  Mismatch(r, worker[w].mem) <=> Mismatch(r, disk[OwnerOf[r]])
<1>1. worker[w] # NoCall /\ worker[w].step \in Locked /\ worker[w].step \in Saving
      /\ Char(w) = OwnerOf[r]
  BY DEF Saves, Saving, Locked, Steps
<1>2. Remembers(worker[w], Char(w)) /\ worker[w].req \in Requests
  BY <1>1, InSection
<1>3. worker[w].req.kind # "create"
  BY <1>1 DEF Owned, Kind
<1>4. /\ worker[w].req.kind \in Edits /\ disk[Char(w)] \in Records
      /\ worker[w].mem = Applied(disk[Char(w)], worker[w].req)
  BY <1>1, <1>2, <1>3 DEF Remembers
<1>5. CASE worker[w].req.kind = "edit_persona"
  <2>1. "persona" \in Mentions[r] => worker[w].mem.persona = disk[Char(w)].persona
    BY <1>1, <1>5 DEF Unsaved, Touched, Kind
  <2> QED BY <1>1, <2>1, SamePersona
<1>6. CASE worker[w].req.kind # "edit_persona"
  <2>1. worker[w].mem.persona = disk[Char(w)].persona
    BY <1>4, <1>6 DEF Applied, Edits, Records
  <2> QED BY <1>1, <2>1, SamePersona
<1> QED BY <1>5, <1>6

(* Files never go away, and a call is created only for an unused name.     *)
LEMMA OwnedKept ==
  ASSUME StoreInv, Owned, [Next]_vars
  PROVE  Owned'
<1>1. ASSUME \A w \in Workers : worker'[w] # NoCall =>
               worker[w] # NoCall /\ worker'[w].req = worker[w].req,
             \A r \in Receipts : disk'[OwnerOf[r]] # NoRecord
      PROVE  Owned'
  BY <1>1 DEF Owned, Kind, Char
<1>2. TypeOK /\ worker \in [Workers -> Jobs \cup {NoCall}]
  BY DEF StoreInv, TypeOK
<1>3. ASSUME NEW w \in Workers, NEW req \in Requests, Arrive(w, req)
      PROVE  Owned'
  <2>1. /\ worker'[w].req = req /\ disk' = disk
        /\ \A x \in Workers \ {w} : worker'[x] = worker[x]
    BY <1>2, <1>3 DEF Arrive
  <2>2. req.kind = "create" => disk[req.char] = NoRecord
    BY <1>3 DEF Arrive, Unused
  <2> QED BY <2>1, <2>2 DEF Owned, Kind, Char
<1>4. ASSUME NEW w \in Workers, Acquire(w) \/ Advance(w) \/ Fail(w)
      PROVE  \A x \in Workers : worker'[x] # NoCall =>
               worker[x] # NoCall /\ worker'[x].req = worker[x].req
  BY <1>4, SameRequest
<1>5. ASSUME NEW w \in Workers, Acquire(w) \/ Load(w) \/ Apply(w) \/ OpenTemp(w) \/ CloseTemp(w)
                                 \/ ReadRaw(w) \/ Fail(w)
      PROVE  Owned'
  <2>1. disk' = disk
    BY <1>5 DEF Acquire, Load, Apply, OpenTemp, CloseTemp, ReadRaw, Fail
  <2> QED BY <1>1, <1>4, <1>5, <2>1 DEF Owned, Advance
<1>6. ASSUME NEW w \in Workers, Replace(w)
      PROVE  Owned'
  <2>1. worker[w] # NoCall /\ worker[w].step = "replacing" /\ worker[w].step \in Locked
        /\ worker[w].step \in Saving
    BY <1>6 DEF Replace, At, Locked, Steps, Saving
  <2>2. Remembers(worker[w], Char(w)) /\ worker[w].req \in Requests
    BY <2>1, InSection
  <2>3. temp[Char(w)] \in Records
    BY <2>1, <2>2, FreshTyped, AppliedTyped DEF Remembers
  <2>4. \A r \in Receipts : disk'[OwnerOf[r]] # NoRecord
    BY <1>2, <1>6, <2>3, CallsAssumption, StoreAssumption DEF Replace, Owned, TypeOK
  <2> QED BY <1>1, <1>4, <1>6, <2>4 DEF Advance
<1>7. ASSUME NEW w \in Workers, Return(w)
      PROVE  Owned'
  <2>1. \A x \in Workers : worker'[x] # NoCall => worker'[x] = worker[x]
    BY <1>2, <1>7 DEF Return
  <2>2. disk' = disk
    BY <1>7 DEF Return
  <2> QED BY <1>1, <2>1, <2>2 DEF Owned
<1>8. CASE Crash
  BY <1>8 DEF Crash, Owned
<1>9. CASE UNCHANGED vars
  BY <1>9 DEF vars, Owned, Kind, Char
<1> QED
  BY <1>3, <1>5, <1>6, <1>7, <1>8, <1>9 DEF Next, Advance

(* Calls that come and go, take the lock, load or answer leave the markers *)
(* as they are.                                                            *)
LEMMA IdleMarks ==
  ASSUME StoreInv, MarkInv, NEW w \in Workers, NEW r \in Receipts,
         UNCHANGED <<disk, marks>>, torn \subseteq torn',
         \A x \in Workers \ {w} : worker'[x] = worker[x],
         ~ Saves(w, OwnerOf[r]), ~ Saves(w, OwnerOf[r])'
  PROVE  MarkTrue(r)'
<1>1. MarkTrue(r)
  BY DEF MarkInv
<1>2. marks'[r] = marks[r] /\ disk'[OwnerOf[r]] = disk[OwnerOf[r]]
  OBVIOUS
<1>3. r \in torn => r \in torn'
  OBVIOUS
<1> QED BY <1>1, <1>2, <1>3, AwayMarks

(* An accepted edit is marked with the record it makes.                    *)
LEMMA ApplyMarks ==
  ASSUME StoreInv, MarkInv, NEW w \in Workers, Apply(w), NEW r \in Receipts
  PROVE  MarkTrue(r)'
<1> DEFINE c == Char(w)
           before == worker[w].mem
           after == Applied(before, worker[w].req)
<1>1. worker[w] # NoCall /\ worker[w].step = "applying" /\ worker[w].step \in Locked
  BY DEF Apply, At, Locked, Steps
<1>2. /\ TypeOK /\ c \in Characters /\ worker[w].req.kind \in Edits
      /\ before = disk[c] /\ before \in Records
  BY <1>1, InSection DEF Remembers
<1>3. \A d : ~ Saves(w, d)
  BY <1>1 DEF Saves, Saving
<1>4. MarkTrue(r)
  BY DEF MarkInv
<1>5. CASE ~ Accepts(before, worker[w].req)
  <2>1. Leave(w, Answer("refused", NoRecord)) /\ UNCHANGED <<marks, torn, disk>>
    BY <1>5 DEF Apply
  <2>2. /\ \A x \in Workers \ {w} : worker'[x] = worker[x]
        /\ worker'[w].step = "answering"
    BY <1>1, <1>2, <2>1, LeaveEffect, AnswerTyped
  <2>3. ~ Saves(w, OwnerOf[r])'
    BY <2>2 DEF Saves, Saving
  <2> QED BY <1>3, <2>1, <2>2, <2>3, IdleMarks
<1>6. CASE Accepts(before, worker[w].req)
  <2>1. /\ worker' = [worker EXCEPT ![w].step = "writing", ![w].mem = after]
        /\ Remark(c, before, after) /\ disk' = disk
    BY <1>6 DEF Apply
  <2>2. after \in Records
    BY <1>2, <1>6, AppliedTyped, InSection, <1>1
  <2> HIDE DEF after
  <2>3. /\ \A x \in Workers \ {w} : worker'[x] = worker[x]
        /\ worker'[w] # NoCall /\ worker'[w].req = worker[w].req
        /\ worker'[w].step = "writing" /\ worker'[w].mem = after
    BY <1>1, <1>2, <2>1, <2>2, TakeEffectOnJob DEF Steps
  <2>4. Char(w)' = c
    BY <2>3 DEF Char
  <2>5. CASE OwnerOf[r] # c
    <3>1. ~ Saves(w, OwnerOf[r])'
      BY <2>4, <2>5 DEF Saves
    <3>2. r \notin Touched(c)
      BY <2>5 DEF Touched
    <3>3. marks'[r] = marks[r] /\ (r \in torn => r \in torn')
      BY <2>1, <3>2 DEF Remark
    <3>4. disk'[OwnerOf[r]] = disk[OwnerOf[r]]
      BY <2>1
    <3> QED BY <1>3, <1>4, <2>3, <3>1, <3>3, <3>4, AwayMarks
  <2>6. CASE OwnerOf[r] = c
    <3> SUFFICES ASSUME PersonaOnly(r), r \notin torn'
                 PROVE  marks'[r] <=> Mismatch(r, after)
      <4>1. \A x \in Workers \ {w} : ~ Saves(x, OwnerOf[r])'
        BY <1>1, <2>3, <2>6, Alone DEF Saves, Char
      <4>2. Saves(w, OwnerOf[r])'
        BY <2>3, <2>4, <2>6 DEF Saves, Saving
      <4> QED BY <2>3, <4>1, <4>2, SavedMarks
    <3>1. r \notin torn => (marks[r] <=> Mismatch(r, before))
      <4>1. \A x \in Workers : ~ Saves(x, c)
        BY <1>1, <1>3, Alone
      <4> QED BY <1>2, <1>4, <2>6, <4>1 DEF MarkTrue
    <3>2. CASE before.persona = after.persona
      <4>1. UNCHANGED <<marks, torn>>
        BY <2>1, <3>2 DEF Remark
      <4>2. Mismatch(r, before) <=> Mismatch(r, after)
        BY <3>2, SamePersona
      <4> QED BY <3>1, <4>1, <4>2
    <3>3. CASE before.persona # after.persona
      <4>1. /\ marks' = [s \in Receipts |-> IF s \in Touched(c) THEN Mismatch(s, after) ELSE marks[s]]
            /\ torn' = torn \ Touched(c)
        BY <2>1, <3>3 DEF Remark
      <4>2. CASE r \in Touched(c)
        BY <4>1, <4>2
      <4>3. CASE r \notin Touched(c)
        <5>1. "persona" \notin Mentions[r]
          BY <2>6, <4>3 DEF Touched
        <5>2. Mismatch(r, before) <=> Mismatch(r, after)
          BY <5>1, SamePersona
        <5> QED BY <3>1, <4>1, <4>3, <5>2
      <4> QED BY <4>2, <4>3
    <3> QED BY <3>2, <3>3
  <2> QED BY <2>5, <2>6
<1> QED BY <1>5, <1>6

(* The file takes over the record its marker was made for.                 *)
LEMMA SaveMarks ==
  ASSUME StoreInv, MarkInv, NEW w \in Workers, OpenTemp(w) \/ CloseTemp(w) \/ Replace(w),
         NEW r \in Receipts
  PROVE  MarkTrue(r)'
<1> DEFINE c == Char(w)
<1>1. worker[w] # NoCall /\ worker[w].step \in Saving /\ worker[w].step \in Locked /\ TypeOK
      /\ UNCHANGED <<marks, torn>>
  BY DEF OpenTemp, CloseTemp, Replace, At, Saving, Locked, Steps, StoreInv
<1>2. MarkTrue(r) /\ Saves(w, c) /\ c \in Characters
  BY <1>1, InSection DEF MarkInv, Saves
<1>3. PICK step \in {"closing", "replacing", "reading"} :
        /\ Goto(w, step)
        /\ step # "reading" => disk' = disk
        /\ step = "reading" => Replace(w)
  BY DEF OpenTemp, CloseTemp, Replace
<1>4. /\ \A x \in Workers \ {w} : worker'[x] = worker[x]
      /\ worker'[w] # NoCall /\ worker'[w].req = worker[w].req
      /\ worker'[w].step = step /\ worker'[w].mem = worker[w].mem
  BY <1>1, <1>3, GotoEffect DEF Steps
<1>5. Char(w)' = c
  BY <1>4 DEF Char
<1>6. \A x \in Workers \ {w} : /\ Saves(x, OwnerOf[r])' <=> Saves(x, OwnerOf[r])
                               /\ worker'[x].mem = worker[x].mem
  BY <1>4 DEF Saves, Char
<1>7. CASE step # "reading"
  <2>1. Saves(w, OwnerOf[r])' <=> Saves(w, OwnerOf[r])
    BY <1>1, <1>4, <1>5, <1>7 DEF Saves, Saving
  <2> QED BY <1>1, <1>2, <1>3, <1>4, <1>6, <1>7, <2>1, QuietMarks
<1>8. CASE step = "reading"
  <2>1. Replace(w) /\ worker[w].step = "replacing"
    BY <1>3, <1>8 DEF Replace, At
  <2>2. temp[c] = worker[w].mem
    BY <1>1, <2>1, InSection DEF Remembers
  <2>3. disk' = [disk EXCEPT ![c] = worker[w].mem]
    BY <2>1, <2>2 DEF Replace
  <2>4. ~ Saves(w, OwnerOf[r])'
    BY <1>4, <1>8 DEF Saves, Saving
  <2>5. CASE OwnerOf[r] # c
    <3>1. disk'[OwnerOf[r]] = disk[OwnerOf[r]]
      BY <1>1, <2>3, <2>5 DEF TypeOK
    <3>2. ~ Saves(w, OwnerOf[r])
      BY <2>5 DEF Saves
    <3> QED BY <1>1, <1>2, <1>4, <2>4, <3>1, <3>2, AwayMarks
  <2>6. CASE OwnerOf[r] = c
    <3>1. disk'[c] = worker[w].mem
      BY <1>1, <1>2, <2>3 DEF TypeOK
    <3>2. \A x \in Workers : ~ Saves(x, OwnerOf[r])'
      <4>1. \A x \in Workers \ {w} : ~ Saves(x, OwnerOf[r])
        BY <1>1, <2>6, Alone
      <4> QED BY <1>6, <2>4, <4>1
    <3>3. PersonaOnly(r) /\ r \notin torn => (marks[r] <=> Mismatch(r, worker[w].mem))
      BY <1>2, <2>6 DEF MarkTrue
    <3>4. PersonaOnly(r) /\ r \notin torn' => (marks'[r] <=> Mismatch(r, disk'[OwnerOf[r]]))
      BY <1>1, <2>6, <3>1, <3>3
    <3> QED BY <3>2, <3>4, RestMarks
  <2> QED BY <2>5, <2>6
<1> QED BY <1>7, <1>8

(* A failure in the middle of a save leaves a torn marker, or one the file *)
(* agrees with.                                                            *)
LEMMA FailMarks ==
  ASSUME StoreInv, MarkInv, NEW w \in Workers, Fail(w), NEW r \in Receipts
  PROVE  MarkTrue(r)'
<1> DEFINE c == Char(w)
<1>1. /\ worker[w] # NoCall /\ worker[w].step \in Locked /\ Leave(w, Unanswered)
      /\ torn' = (IF Unsaved(w) THEN torn \cup Touched(c) ELSE torn)
      /\ UNCHANGED <<disk, marks>>
  BY DEF Fail
<1>2. TypeOK /\ Unanswered \in Answers /\ MarkTrue(r)
  BY AnswerTyped DEF StoreInv, Unanswered, MarkInv
<1>3. /\ \A x \in Workers \ {w} : worker'[x] = worker[x]
      /\ worker'[w].step = "answering"
  BY <1>1, <1>2, LeaveEffect
<1>4. ~ Saves(w, OwnerOf[r])'
  BY <1>3 DEF Saves, Saving
<1>5. CASE ~ Saves(w, OwnerOf[r])
  <2>1. torn \subseteq torn'
    BY <1>1
  <2> QED BY <1>1, <1>3, <1>4, <1>5, <2>1, IdleMarks
<1>6. CASE Saves(w, OwnerOf[r])
  <2>1. OwnerOf[r] = c
    BY <1>6 DEF Saves
  <2>2. \A x \in Workers : ~ Saves(x, OwnerOf[r])'
    BY <1>1, <1>3, <1>4, <2>1, Alone DEF Saves, Char
  <2> SUFFICES ASSUME PersonaOnly(r), r \notin torn'
               PROVE  marks[r] <=> Mismatch(r, disk[OwnerOf[r]])
    BY <1>1, <2>2 DEF MarkTrue, PersonaOnly, Mismatch
  <2>3. r \notin torn /\ ~ (Unsaved(w) /\ r \in Touched(c))
    BY <1>1
  <2>4. marks[r] <=> Mismatch(r, worker[w].mem)
    BY <1>2, <1>6, <2>3 DEF MarkTrue
  <2> QED BY <1>6, <2>3, <2>4, GivenUp DEF MarkInv
<1> QED BY <1>5, <1>6

(* So does a crash.                                                        *)
LEMMA CrashMarks ==
  ASSUME StoreInv, MarkInv, Crash, NEW r \in Receipts
  PROVE  MarkTrue(r)'
<1>1. /\ worker' = [w \in Workers |-> NoCall]
      /\ torn' = torn \cup UNION {Touched(Char(w)) : w \in {x \in Workers : Unsaved(x)}}
      /\ UNCHANGED <<disk, marks>>
  BY DEF Crash
<1>2. \A w \in Workers : ~ Saves(w, OwnerOf[r])'
  BY <1>1 DEF Saves
<1> SUFFICES ASSUME PersonaOnly(r), r \notin torn'
             PROVE  marks[r] <=> Mismatch(r, disk[OwnerOf[r]])
  BY <1>1, <1>2 DEF MarkTrue, PersonaOnly, Mismatch
<1>3. r \notin torn /\ MarkTrue(r)
  BY <1>1 DEF MarkInv
<1>4. CASE \A w \in Workers : ~ Saves(w, OwnerOf[r])
  BY <1>3, <1>4 DEF MarkTrue
<1>5. ASSUME NEW w \in Workers, Saves(w, OwnerOf[r])
      PROVE  marks[r] <=> Mismatch(r, disk[OwnerOf[r]])
  <2>1. ~ (Unsaved(w) /\ r \in Touched(Char(w)))
    BY <1>1
  <2>2. marks[r] <=> Mismatch(r, worker[w].mem)
    BY <1>3, <1>5 DEF MarkTrue
  <2> QED BY <1>5, <2>1, <2>2, GivenUp DEF MarkInv
<1> QED BY <1>4, <1>5

(* Every step keeps the markers' invariant.                                *)
LEMMA MarksStep == StoreInv /\ MarkInv /\ [Next]_vars => MarkInv'
<1> SUFFICES ASSUME StoreInv, MarkInv, [Next]_vars, NEW r \in Receipts
             PROVE  MarkTrue(r)'
  BY OwnedKept DEF MarkInv
<1>1. TypeOK /\ Owned /\ MarkTrue(r)
  BY DEF StoreInv, MarkInv
<1>2. ASSUME NEW w \in Workers, NEW req \in Requests, Arrive(w, req) PROVE MarkTrue(r)'
  <2>1. /\ UNCHANGED <<disk, marks, torn>> /\ worker[w] = NoCall
        /\ worker'[w].step = "queued"
        /\ \A x \in Workers \ {w} : worker'[x] = worker[x]
    BY <1>1, <1>2 DEF Arrive, TypeOK
  <2>2. ~ Saves(w, OwnerOf[r]) /\ ~ Saves(w, OwnerOf[r])'
    BY <2>1 DEF Saves, Saving
  <2> QED BY <2>1, <2>2, IdleMarks
<1>3. ASSUME NEW w \in Workers, Acquire(w) PROVE MarkTrue(r)'
  <2>1. /\ worker[w] # NoCall /\ worker[w].step = "queued" /\ worker[w] \in Jobs
        /\ UNCHANGED <<disk, marks, torn>>
        /\ \A x \in Workers \ {w} : worker'[x] = worker[x]
    BY <1>1, <1>3 DEF Acquire, At, Goto, TypeOK
  <2>2. ~ Saves(w, OwnerOf[r])
    BY <2>1 DEF Saves, Saving
  <2>3. ~ Saves(w, OwnerOf[r])'
    <3>1. CASE Kind(w) = "create"
      <4>1. worker' = [worker EXCEPT ![w].step = "writing", ![w].mem = Fresh]
        BY <1>3, <3>1 DEF Acquire
      <4>2. worker'[w].req = worker[w].req
        BY <1>1, <2>1, <4>1, FreshTyped, TakeEffectOnJob DEF Steps
      <4>3. OwnerOf[r] # Char(w)
        BY <1>1, <2>1, <3>1 DEF Owned
      <4> QED BY <4>2, <4>3 DEF Saves, Char
    <3>2. CASE Kind(w) # "create"
      <4>1. worker'[w].step = "loading"
        BY <1>1, <1>3, <2>1, <3>2, GotoEffect DEF Acquire, Steps
      <4> QED BY <4>1 DEF Saves, Saving
    <3> QED BY <3>1, <3>2
  <2> QED BY <2>1, <2>2, <2>3, IdleMarks
<1>4. ASSUME NEW w \in Workers, Load(w) PROVE MarkTrue(r)'
  <2>1. /\ worker[w] # NoCall /\ worker[w].step = "loading" /\ worker[w] \in Jobs
        /\ UNCHANGED <<disk, marks, torn>>
        /\ \A x \in Workers \ {w} : worker'[x] = worker[x]
    BY <1>1, <1>4 DEF Load, At, Leave, TypeOK
  <2>2. worker'[w].step \in {"answering", "reading", "applying"}
    <3>1. CASE disk[Char(w)] = NoRecord
      BY <1>1, <1>4, <2>1, <3>1, LeaveEffect, AnswerTyped DEF Load
    <3>2. CASE disk[Char(w)] # NoRecord
      <4> DEFINE next == IF Kind(w) = "read" THEN "reading" ELSE "applying"
      <4>1. worker' = [worker EXCEPT ![w].step = next, ![w].mem = disk[Char(w)]]
        BY <1>4, <3>2 DEF Load
      <4>2. next \in {"reading", "applying"}
        OBVIOUS
      <4> HIDE DEF next
      <4>3. worker'[w] = [worker[w] EXCEPT !.step = next, !.mem = disk[Char(w)]]
        BY <1>1, <4>1 DEF TypeOK
      <4> QED BY <2>1, <4>2, <4>3 DEF Jobs
    <3> QED BY <3>1, <3>2
  <2>3. ~ Saves(w, OwnerOf[r]) /\ ~ Saves(w, OwnerOf[r])'
    BY <2>1, <2>2 DEF Saves, Saving
  <2> QED BY <2>1, <2>3, IdleMarks
<1>5. ASSUME NEW w \in Workers, ReadRaw(w) PROVE MarkTrue(r)'
  <2>1. /\ worker[w] # NoCall /\ worker[w].step = "reading" /\ worker[w].step \in Locked
        /\ UNCHANGED <<disk, marks, torn>>
        /\ Leave(w, Answer("ok", disk[Char(w)]))
    BY <1>5 DEF ReadRaw, At, Locked, Steps
  <2>2. disk[Char(w)] \in Records \cup {NoRecord}
    BY <2>1, InSection DEF Remembers
  <2>3. /\ \A x \in Workers \ {w} : worker'[x] = worker[x]
        /\ worker'[w].step = "answering"
    BY <1>1, <2>1, <2>2, LeaveEffect, AnswerTyped
  <2>4. ~ Saves(w, OwnerOf[r]) /\ ~ Saves(w, OwnerOf[r])'
    BY <2>1, <2>3 DEF Saves, Saving
  <2> QED BY <2>1, <2>3, <2>4, IdleMarks
<1>6. ASSUME NEW w \in Workers, Return(w) PROVE MarkTrue(r)'
  <2>1. /\ worker[w] # NoCall /\ worker[w].step = "answering"
        /\ UNCHANGED <<disk, marks, torn>> /\ worker'[w] = NoCall
        /\ \A x \in Workers \ {w} : worker'[x] = worker[x]
    BY <1>1, <1>6 DEF Return, At, TypeOK
  <2>2. ~ Saves(w, OwnerOf[r]) /\ ~ Saves(w, OwnerOf[r])'
    BY <2>1 DEF Saves, Saving
  <2> QED BY <2>1, <2>2, IdleMarks
<1>7. CASE UNCHANGED vars
  BY <1>1, <1>7, QuietMarks DEF vars, Saves, Char
<1> QED
  BY <1>2, <1>3, <1>4, <1>5, <1>6, <1>7, ApplyMarks, SaveMarks, FailMarks, CrashMarks
  DEF Next, Advance

(* A persona receipt's marker agrees with the record file whenever nobody  *)
(* edits the character, for any number of workers and characters, unless   *)
(* the last edit it was marked for was never saved.                        *)
THEOREM MarkersAlwaysTrue == Spec => []MarkersTrue
<1>1. Init => MarkInv
  <2> SUFFICES ASSUME Init PROVE MarkInv
    OBVIOUS
  <2>1. \A w \in Workers : worker[w] = NoCall
    BY DEF Init
  <2>2. Owned
    BY <2>1 DEF Init, Owned
  <2>3. \A r \in Receipts : marks[r] = Mismatch(r, disk[OwnerOf[r]])
    BY DEF Init
  <2> QED BY <2>1, <2>2, <2>3 DEF MarkInv, MarkTrue, Saves
<1>2. StoreInv /\ MarkInv => MarkersTrue
  <2> SUFFICES ASSUME StoreInv, MarkInv, NEW r \in Receipts, PersonaOnly(r),
                      lock[OwnerOf[r]] = NoWorker, r \notin torn
               PROVE  marks[r] = Mismatch(r, disk[OwnerOf[r]])
    BY DEF MarkersTrue, PersonaOnly
  <2>1. \A w \in Workers : ~ Saves(w, OwnerOf[r])
    BY StoreAssumption DEF StoreInv, Sound, Saves, Saving, Locked, Steps
  <2>2. MarkTrue(r) /\ marks[r] \in BOOLEAN
    BY DEF MarkInv, StoreInv, TypeOK
  <2>3. Mismatch(r, disk[OwnerOf[r]]) \in BOOLEAN
    BY DEF Mismatch
  <2> QED BY <2>1, <2>2, <2>3 DEF MarkTrue
<1> QED
  BY <1>1, <1>2, InvInit, InvStep, MarksStep, PTL DEF Spec

(***************************************************************************)
(* The files.  What a file holds is what the calls made of it, one whole   *)
(* mutation at a time.                                                     *)
(***************************************************************************)

(* A process may be started on every file the store leaves behind.         *)
FilesStored == \A c \in Characters : disk[c] \in StoredRecords \cup {NoRecord}

(* A character under creation has no file, and one creator.                *)
Creates(w) == worker[w] # NoCall /\ worker[w].req.kind = "create"

Newborn ==
  \A w \in Workers : Creates(w) =>
    /\ worker[w].step \in {"queued"} \cup Saving => disk[Char(w)] = NoRecord
    /\ \A x \in Workers : Creates(x) /\ Char(x) = Char(w) => x = w

FileInv == FilesStored /\ Newborn

(* The next state's file of a character is the record its last one becomes *)
(* by a creation or by one accepted mutation.                              *)
Mutated(c) ==
  \/ disk[c] = NoRecord /\ disk'[c] = Fresh
  \/ \E req \in Requests :
       /\ req.kind \in Edits /\ req.char = c /\ disk[c] # NoRecord
       /\ Accepts(disk[c], req) /\ disk'[c] = Applied(disk[c], req)

(* Every change of a record file is one creation or one accepted mutation. *)
ChangesAreMutations == [][\A c \in Characters : disk'[c] # disk[c] => Mutated(c)]_vars

(* No step removes a record file or leaves a committed record uncommitted. *)
NothingErased ==
  [][\A c \in Characters : disk[c] # NoRecord =>
       /\ disk'[c] # NoRecord
       /\ disk[c].live # NoVersion => disk'[c].live # NoVersion]_vars

(* An accepted edit of a record one may start on leaves such a record, and *)
(* never leaves a record that has a live version without one.              *)
LEMMA AppliedStored ==
  ASSUME NEW rec \in StoredRecords, NEW req \in Requests, req.kind \in Edits, Accepts(rec, req)
  PROVE  /\ Applied(rec, req) \in StoredRecords
         /\ rec.live # NoVersion => Applied(rec, req).live # NoVersion
<1>1. rec \in Records /\ (rec.live = NoVersion => rec.draft # Closed)
  BY DEF StoredRecords
<1>2. Applied(rec, req) \in Records
  BY <1>1, AppliedTyped
<1>3. CASE req.kind = "edit_persona"
  <2>1. Applied(rec, req).live = rec.live /\ Applied(rec, req).draft = rec.draft
    BY <1>1, <1>3 DEF Applied, Records
  <2> QED BY <1>1, <1>2, <2>1 DEF StoredRecords
<1>4. CASE req.kind = "edit_draft"
  <2>1. Applied(rec, req).live = rec.live /\ Applied(rec, req).draft = req.value
    BY <1>1, <1>4 DEF Applied, Records
  <2>2. req.value # Closed
    BY CallsAssumption DEF Requests
  <2> QED BY <1>1, <1>2, <2>1, <2>2 DEF StoredRecords
<1>5. CASE req.kind = "open_draft"
  <2>1. Applied(rec, req).live = rec.live /\ Applied(rec, req).draft = rec.live
    BY <1>1, <1>5 DEF Applied, Records
  <2>2. rec.live # NoVersion
    BY <1>5 DEF Accepts
  <2> QED BY <1>2, <2>1, <2>2 DEF StoredRecords
<1>6. CASE req.kind = "finalize"
  <2>1. Applied(rec, req).live = rec.draft /\ rec.draft \in Values \cup {NoValue}
    BY <1>1, <1>6, CallsAssumption DEF Applied, Accepts, Records
  <2>2. rec.draft # NoVersion
    BY <2>1, CallsAssumption
  <2> QED BY <1>2, <2>1, <2>2 DEF StoredRecords
<1> QED BY <1>3, <1>4, <1>5, <1>6 DEF Edits

(* Only os.replace changes a file, and it puts a mutation in place.        *)
LEMMA FileChanges ==
  ASSUME StoreInv, FileInv, [Next]_vars
  PROVE  \/ disk' = disk
         \/ \E w \in Workers :
              /\ worker[w] # NoCall /\ worker[w].step = "replacing" /\ Goto(w, "reading")
              /\ Char(w) \in Characters /\ Mutated(Char(w))
              /\ disk' = [disk EXCEPT ![Char(w)] = disk'[Char(w)]]
<1>1. ASSUME NEW w \in Workers, Replace(w)
      PROVE  /\ worker[w] # NoCall /\ worker[w].step = "replacing" /\ Goto(w, "reading")
             /\ Char(w) \in Characters /\ Mutated(Char(w))
             /\ disk' = [disk EXCEPT ![Char(w)] = disk'[Char(w)]]
  <2>1. /\ worker[w] # NoCall /\ worker[w].step = "replacing" /\ Goto(w, "reading")
        /\ worker[w].step \in Locked /\ worker[w].step \in Saving
        /\ disk' = [disk EXCEPT ![Char(w)] = temp[Char(w)]]
    BY <1>1 DEF Replace, At, Locked, Steps, Saving
  <2>2. /\ TypeOK /\ Char(w) \in Characters /\ Remembers(worker[w], Char(w))
        /\ worker[w].req \in Requests
    BY <2>1, InSection
  <2>3. disk'[Char(w)] = worker[w].mem
    BY <2>1, <2>2 DEF Remembers, TypeOK
  <2>4. Mutated(Char(w))
    <3>1. CASE worker[w].req.kind = "create" /\ worker[w].mem = Fresh
      <4>1. disk[Char(w)] = NoRecord
        BY <2>1, <3>1 DEF FileInv, Newborn, Creates
      <4> QED BY <2>3, <3>1, <4>1 DEF Mutated
    <3>2. CASE /\ worker[w].req.kind \in Edits
               /\ disk[Char(w)] \in Records /\ Accepts(disk[Char(w)], worker[w].req)
               /\ worker[w].mem = Applied(disk[Char(w)], worker[w].req)
      BY <2>2, <2>3, <3>2, CallsAssumption DEF Mutated, Char
    <3> QED BY <2>1, <2>2, <3>1, <3>2 DEF Remembers
  <2>5. disk' = [disk EXCEPT ![Char(w)] = disk'[Char(w)]]
    BY <2>1, <2>2 DEF TypeOK
  <2> QED BY <2>1, <2>2, <2>4, <2>5
<1>2. (\A w \in Workers : ~ Replace(w)) => disk' = disk
  BY DEF Next, Advance, Arrive, Acquire, Load, Apply, OpenTemp, CloseTemp, ReadRaw, Fail,
         Return, Crash, vars
<1> QED BY <1>1, <1>2

(* A mutation of a file one may start on leaves one to start on.           *)
LEMMA MutatedStored ==
  ASSUME FilesStored, NEW c \in Characters, Mutated(c)
  PROVE  /\ disk'[c] \in StoredRecords
         /\ disk[c] # NoRecord /\ disk[c].live # NoVersion => disk'[c].live # NoVersion
<1>1. CASE disk[c] = NoRecord /\ disk'[c] = Fresh
  <2>1. Fresh \in StoredRecords
    BY FreshTyped, CallsAssumption DEF Fresh, StoredRecords
  <2> QED BY <1>1, <2>1
<1>2. ASSUME NEW req \in Requests, req.kind \in Edits, disk[c] # NoRecord,
             Accepts(disk[c], req), disk'[c] = Applied(disk[c], req)
      PROVE  /\ disk'[c] \in StoredRecords
             /\ disk[c].live # NoVersion => disk'[c].live # NoVersion
  BY <1>2, AppliedStored DEF FilesStored
<1> QED BY <1>1, <1>2 DEF Mutated

(* A step that brings no creation, and takes no creator back to a step     *)
(* before its file is in place, keeps the newborn without a file.          *)
LEMMA NewbornKept ==
  ASSUME Newborn, disk' = disk, NEW w \in Workers,
         \A x \in Workers \ {w} : worker'[x] = worker[x],
         worker'[w] # NoCall => worker[w] # NoCall /\ worker'[w].req = worker[w].req,
         Creates(w) /\ worker'[w] # NoCall /\ worker'[w].step \in {"queued"} \cup Saving =>
           worker[w].step \in {"queued"} \cup Saving
  PROVE  Newborn'
<1>1. ASSUME NEW x \in Workers, Creates(x)'
      PROVE  Creates(x) /\ Char(x)' = Char(x)
  BY <1>1 DEF Creates, Char
<1>2. ASSUME NEW x \in Workers, Creates(x)', worker'[x].step \in {"queued"} \cup Saving
      PROVE  worker[x].step \in {"queued"} \cup Saving
  BY <1>2 DEF Creates
<1> QED BY <1>1, <1>2 DEF Newborn

(* The newborn have no file until their creator puts it in place.          *)
LEMMA NewbornStep ==
  ASSUME StoreInv, FileInv, [Next]_vars
  PROVE  Newborn'
<1>1. TypeOK /\ Newborn
  BY DEF StoreInv, FileInv
<1>2. ASSUME NEW w \in Workers, NEW req \in Requests, Arrive(w, req) PROVE Newborn'
  <2>1. /\ worker[w] = NoCall /\ worker'[w].req = req /\ disk' = disk
        /\ \A x \in Workers \ {w} : worker'[x] = worker[x]
        /\ req.kind = "create" => Unused(req.char)
    BY <1>1, <1>2 DEF Arrive, TypeOK
  <2>2. \A x \in Workers \ {w} : (Creates(x)' <=> Creates(x)) /\ Char(x)' = Char(x)
    BY <2>1 DEF Creates, Char
  <2>3. Creates(w)' => Unused(Char(w)')
    BY <2>1 DEF Creates, Char
  <2> QED BY <1>1, <2>1, <2>2, <2>3 DEF Newborn, Unused, Creates
<1>3. ASSUME NEW w \in Workers,
             Acquire(w) \/ OpenTemp(w) \/ CloseTemp(w)
      PROVE  Newborn'
  <2>1. disk' = disk /\ worker[w].step \in {"queued"} \cup Saving
    BY <1>3 DEF Acquire, OpenTemp, CloseTemp, At, Saving
  <2> QED BY <1>1, <1>3, <2>1, SameRequest, NewbornKept DEF Advance
<1>4. ASSUME NEW w \in Workers, Load(w) \/ Apply(w)
      PROVE  Newborn'
  <2>1. /\ worker[w] # NoCall /\ worker[w].step \in {"loading", "applying"}
        /\ worker[w].step \in Locked /\ disk' = disk
    BY <1>4 DEF Load, Apply, At, Locked, Steps
  <2>2. ~ Creates(w)
    BY <2>1, InSection DEF Creates, Remembers, Edits
  <2> QED BY <1>1, <1>4, <2>1, <2>2, SameRequest, NewbornKept DEF Advance
<1>5. ASSUME NEW w \in Workers, ReadRaw(w) \/ Fail(w)
      PROVE  Newborn'
  <2>1. /\ worker[w] # NoCall /\ disk' = disk
        /\ \E answer \in Answers : Leave(w, answer)
    <3>1. CASE ReadRaw(w)
      <4>1. worker[w] # NoCall /\ worker[w].step \in Locked
        BY <3>1 DEF ReadRaw, At, Locked, Steps
      <4>2. disk[Char(w)] \in Records \cup {NoRecord}
        BY <4>1, InSection DEF TypeOK
      <4> QED BY <3>1, <4>1, <4>2, AnswerTyped DEF ReadRaw
    <3>2. CASE Fail(w)
      BY <3>2, AnswerTyped DEF Fail, Unanswered
    <3> QED BY <1>5, <3>1, <3>2
  <2>2. worker'[w].step = "answering"
    BY <1>1, <2>1, LeaveEffect
  <2> QED BY <1>1, <1>5, <2>1, <2>2, SameRequest, NewbornKept DEF Advance, Saving
<1>6. ASSUME NEW w \in Workers, Return(w) PROVE Newborn'
  <2>1. /\ worker'[w] = NoCall /\ disk' = disk
        /\ \A x \in Workers \ {w} : worker'[x] = worker[x]
    BY <1>1, <1>6 DEF Return, TypeOK
  <2> QED BY <1>1, <2>1, NewbornKept
<1>7. ASSUME NEW w \in Workers, Replace(w) PROVE Newborn'
  <2>1. /\ worker[w] # NoCall /\ worker[w].step = "replacing" /\ worker[w].step \in Locked
        /\ worker[w].step \in Saving
        /\ disk' = [disk EXCEPT ![Char(w)] = temp[Char(w)]]
    BY <1>7 DEF Replace, At, Locked, Steps, Saving
  <2>2. /\ worker'[w].req = worker[w].req /\ worker'[w].step = "reading"
        /\ \A x \in Workers \ {w} : worker'[x] = worker[x]
    BY <1>1, <1>7, <2>1, GotoEffect DEF Replace, Steps
  <2>3. ASSUME NEW x \in Workers, Creates(x)'
        PROVE  Creates(x) /\ Char(x)' = Char(x)
    BY <2>1, <2>2, <2>3 DEF Creates, Char
  <2>4. ASSUME NEW x \in Workers, Creates(x)', worker'[x].step \in {"queued"} \cup Saving
        PROVE  disk'[Char(x)] = NoRecord
    <3>1. x # w
      BY <2>2, <2>4 DEF Saving
    <3>2. Creates(x) /\ worker[x].step \in {"queued"} \cup Saving /\ disk[Char(x)] = NoRecord
      BY <1>1, <2>2, <2>3, <2>4, <3>1 DEF Newborn
    <3>3. Char(x) # Char(w)
      <4>1. CASE worker[w].req.kind = "create"
        BY <1>1, <2>1, <3>1, <3>2, <4>1 DEF Newborn, Creates
      <4>2. CASE worker[w].req.kind # "create"
        <5>1. disk[Char(w)] \in Records
          BY <2>1, <4>2, InSection DEF Remembers
        <5> QED BY <3>2, <5>1, CallsAssumption
      <4> QED BY <4>1, <4>2
    <3> QED BY <1>1, <2>1, <3>2, <3>3 DEF TypeOK
  <2> QED BY <1>1, <2>3, <2>4 DEF Newborn
<1>8. CASE Crash
  BY <1>8 DEF Crash, Newborn, Creates
<1>9. CASE UNCHANGED vars
  BY <1>1, <1>9 DEF vars, Newborn, Creates, Char
<1> QED
  BY <1>2, <1>3, <1>4, <1>5, <1>6, <1>7, <1>8, <1>9 DEF Next, Advance

(* The files' invariant holds throughout.                                  *)
LEMMA FileInvInductive ==
  /\ Init => FileInv
  /\ StoreInv /\ FileInv /\ [Next]_vars => FileInv'
<1>1. Init => FileInv
  BY DEF Init, FileInv, FilesStored, Newborn, Creates
<1>2. ASSUME StoreInv, FileInv, [Next]_vars PROVE FilesStored'
  <2>1. CASE disk' = disk
    BY <1>2, <2>1 DEF FileInv, FilesStored
  <2>2. ASSUME NEW w \in Workers, Char(w) \in Characters, Mutated(Char(w)),
               disk' = [disk EXCEPT ![Char(w)] = disk'[Char(w)]]
        PROVE  FilesStored'
    <3>1. disk'[Char(w)] \in StoredRecords
      BY <1>2, <2>2, MutatedStored DEF FileInv
    <3>2. \A c \in Characters \ {Char(w)} : disk'[c] = disk[c]
      BY <1>2, <2>2 DEF StoreInv, TypeOK
    <3> QED BY <1>2, <3>1, <3>2 DEF FileInv, FilesStored
  <2> QED BY <1>2, <2>1, <2>2, FileChanges
<1> QED BY <1>1, <1>2, NewbornStep DEF FileInv

(* Whatever is killed and whenever, the store leaves only files that a     *)
(* process may be started on: the ones the initial states are drawn from.  *)
THEOREM FilesAlwaysStored == Spec => []FilesStored
<1>1. StoreInv /\ FileInv => FilesStored
  BY DEF FileInv
<1> QED
  BY <1>1, InvInit, InvStep, FileInvInductive, PTL DEF Spec

(* Every change of a record file is one whole mutation of the record that  *)
(* was in it, accepted on that record, or the creation of one that was not *)
(* there: no failure, no crash and no other call ever writes over an edit. *)
THEOREM EveryChangeIsMutation == Spec => ChangesAreMutations
<1>1. ASSUME StoreInv, FileInv, [Next]_vars, NEW c \in Characters, disk'[c] # disk[c]
      PROVE  Mutated(c)
  <2>1. PICK w \in Workers :
          Mutated(Char(w)) /\ disk' = [disk EXCEPT ![Char(w)] = disk'[Char(w)]]
    BY <1>1, FileChanges
  <2>2. Char(w) = c
    BY <1>1, <2>1 DEF StoreInv, TypeOK
  <2> QED BY <2>1, <2>2
<1>2. StoreInv /\ FileInv /\ [Next]_vars =>
        [\A c \in Characters : disk'[c] # disk[c] => Mutated(c)]_vars
  BY <1>1
<1> QED
  BY <1>2, InvInit, InvStep, FileInvInductive, PTL DEF Spec, ChangesAreMutations

(* A record that was once saved stays, and once it has a live version it   *)
(* always has one.                                                         *)
THEOREM SavedRecordsStay == Spec => NothingErased
<1>1. ASSUME StoreInv, FileInv, [Next]_vars, NEW c \in Characters, disk[c] # NoRecord
      PROVE  /\ disk'[c] # NoRecord
             /\ disk[c].live # NoVersion => disk'[c].live # NoVersion
  <2>1. CASE disk'[c] = disk[c]
    BY <1>1, <2>1
  <2>2. CASE disk'[c] # disk[c]
    <3>1. PICK w \in Workers :
            Mutated(Char(w)) /\ disk' = [disk EXCEPT ![Char(w)] = disk'[Char(w)]]
      BY <1>1, <2>2, FileChanges
    <3>2. Char(w) = c
      BY <1>1, <2>2, <3>1 DEF StoreInv, TypeOK
    <3> QED BY <1>1, <3>1, <3>2, MutatedStored, CallsAssumption DEF FileInv, StoredRecords
  <2> QED BY <2>1, <2>2
<1>2. StoreInv /\ FileInv /\ [Next]_vars =>
        [\A c \in Characters : disk[c] # NoRecord =>
            /\ disk'[c] # NoRecord
            /\ disk[c].live # NoVersion => disk'[c].live # NoVersion]_vars
  BY <1>1
<1> QED
  BY <1>2, InvInit, InvStep, FileInvInductive, PTL DEF Spec, NothingErased

=============================================================================

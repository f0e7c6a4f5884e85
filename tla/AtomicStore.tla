----------------------------- MODULE AtomicStore -----------------------------
(***************************************************************************)
(* What the record store promises its callers: every call takes effect at  *)
(* one instant between its arrival and its answer, on the record as it is  *)
(* at that instant, and the answer shows the record that instant left.  A  *)
(* call that fails has had its effect or has had none.  A crash forgets    *)
(* the calls under way and no effect.                                      *)
(***************************************************************************)
EXTENDS RecordCalls

CONSTANTS Workers, NoCall

VARIABLES
  records,   \* the record of each character, NoRecord while there is none
  call       \* the call each worker serves, NoCall when idle

Waiting(req) == [req |-> req, stage |-> "waiting", answer |-> Answer("failed", NoRecord)]

(* The calls under way.                                                    *)
Calls == [req : Requests, stage : {"waiting", "done"}, answer : Answers]

Done(req, answer) == [req |-> req, stage |-> "done", answer |-> answer]

Init ==
  /\ records \in [Characters -> StoredRecords \cup {NoRecord}]
  /\ call = [w \in Workers |-> NoCall]

(* A new character's id is one no record has and no call uses.             *)
Unused(c) == records[c] = NoRecord /\ \A w \in Workers : call[w] # NoCall => call[w].req.char # c

Arrive(w, req) ==
  /\ call[w] = NoCall
  /\ req.kind = "create" => Unused(req.char)
  /\ call' = [call EXCEPT ![w] = Waiting(req)]
  /\ UNCHANGED records

Finish(w, answer) == call' = [call EXCEPT ![w] = Done(call[w].req, answer)]

(* The answer and the record after the request takes effect on rec.        *)
Outcome(req, rec) ==
  IF req.kind = "create" THEN <<Answer("ok", Fresh), Fresh>>
  ELSE IF rec = NoRecord THEN <<Answer("missing", NoRecord), NoRecord>>
  ELSE IF req.kind = "read" THEN <<Answer("ok", rec), rec>>
  ELSE IF ~Accepts(rec, req) THEN <<Answer("refused", NoRecord), rec>>
  ELSE <<Answer("ok", Applied(rec, req)), Applied(rec, req)>>

TakeEffect(w) ==
  /\ call[w] # NoCall
  /\ call[w].stage = "waiting"
  /\ LET req == call[w].req
         out == Outcome(req, records[req.char])
     IN  /\ records' = [records EXCEPT ![req.char] = out[2]]
         /\ Finish(w, out[1])

Fail(w) ==
  /\ call[w] # NoCall
  /\ Finish(w, Answer("failed", NoRecord))
  /\ UNCHANGED records

Return(w) ==
  /\ call[w] # NoCall
  /\ call[w].stage = "done"
  /\ call' = [call EXCEPT ![w] = NoCall]
  /\ UNCHANGED records

Crash ==
  /\ call' = [w \in Workers |-> NoCall]
  /\ UNCHANGED records

Next ==
  \/ \E w \in Workers : \/ \E req \in Requests : Arrive(w, req)
                        \/ TakeEffect(w)
                        \/ Fail(w)
                        \/ Return(w)
  \/ Crash

Spec == Init /\ [][Next]_<<records, call>>

==============================================================================

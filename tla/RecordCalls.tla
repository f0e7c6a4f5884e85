----------------------------- MODULE RecordCalls -----------------------------
(***************************************************************************)
(* The calls the spine serves on character records, and what each of them  *)
(* means for one record.  CharacterRecord says in full what a mutation     *)
(* accepts; here a record is cut to the three values the store and the     *)
(* ledger tell apart: the live identity, the draft of the next one and the *)
(* persona block.                                                          *)
(***************************************************************************)
EXTENDS Naturals

CONSTANTS
  Characters,
  Values,     \* the values a call submits
  Lawful,     \* those the construction gate accepts
  Complete,   \* pairs of a draft and a persona value that may be committed
  NoValue,    \* nothing selected
  NoVersion,  \* no version is committed
  Closed,     \* no draft is open
  NoRecord    \* no file of that character

Records == [live : Values \cup {NoValue, NoVersion},
            draft : Values \cup {NoValue, Closed},
            persona : Values \cup {NoValue}]

ASSUME CallsAssumption ==
  /\ Lawful \subseteq Values
  /\ Complete \subseteq (Values \cup {NoValue}) \X (Values \cup {NoValue})
  /\ NoValue \notin Values
  /\ NoVersion \notin Values \cup {NoValue}
  /\ Closed \notin Values \cup {NoValue}
  /\ NoRecord \notin Records

(* What CharacterRecord.create returns: a draft open, nothing live.        *)
Fresh == [live |-> NoVersion, draft |-> NoValue, persona |-> NoValue]

(* The record files a process may find: without a live version a draft is  *)
(* open (NeverStranded).                                                   *)
StoredRecords == {rec \in Records : rec.live = NoVersion => rec.draft # Closed}

Edits == {"edit_persona", "edit_draft", "open_draft", "finalize"}

Requests ==
  {req \in [kind : Edits \cup {"create", "read"}, char : Characters,
            value : Values \cup {NoValue}] :
     req.kind \notin {"edit_persona", "edit_draft"} => req.value = NoValue}

(* The mutation function the route hands to the store accepts the record.  *)
(* NoValue clears; clearing is always accepted.  A draft with nothing in   *)
(* it is committed where no group is required.  open_draft asserts that    *)
(* there is a version to copy.                                             *)
Accepts(rec, req) ==
  CASE req.kind = "edit_persona" -> req.value \in Lawful \cup {NoValue}
    [] req.kind = "edit_draft"   -> rec.draft # Closed
                                      /\ req.value \in Lawful \cup {NoValue}
    [] req.kind = "open_draft"   -> rec.draft = Closed /\ rec.live # NoVersion
    [] req.kind = "finalize"     -> <<rec.draft, rec.persona>> \in Complete

(* The record it leaves behind when it does.                               *)
Applied(rec, req) ==
  CASE req.kind = "edit_persona" -> [rec EXCEPT !.persona = req.value]
    [] req.kind = "edit_draft"   -> [rec EXCEPT !.draft = req.value]
    [] req.kind = "open_draft"   -> [rec EXCEPT !.draft = rec.live]
    [] req.kind = "finalize"     -> [rec EXCEPT !.live = rec.draft, !.draft = Closed]

(* What a caller is told.                                                  *)
Answers == [status : {"ok", "refused", "missing", "failed"},
            record : Records \cup {NoRecord}]

Answer(status, rec) == [status |-> status, record |-> rec]

==============================================================================

------------------------- MODULE RecordCallsProofs -------------------------
(***************************************************************************)
(* RecordCalls cuts a record to three values and the store is built on     *)
(* that cut; CharacterRecord has the record in full.  The theorem here is  *)
(* that the cut is a true one: seen through the selections of its live     *)
(* version, its draft and its persona block, a record does nothing that    *)
(* RecordCalls does not say of it.                                         *)
(***************************************************************************)
EXTENDS CharacterRecordProofs

(* What stands in the three fields where there are no selections.          *)
NothingLive == CHOOSE v : v \notin Selections
NothingOpen == CHOOSE v : v \notin Selections
NothingFiled == CHOOSE v : v \notin [live : Selections \cup {NothingLive},
                                     draft : Selections \cup {NothingOpen},
                                     persona : Selections]

(* The pairs of layers some catalog, age and rating would let through      *)
(* finalization's full check.                                              *)
Committable ==
  {pair \in Selections \X Selections :
     \E cat \in Catalogs, a \in AGE_FLOOR .. AGE_CEILING, r \in Ratings :
       CheckFullState(cat, a, r, pair[1], pair[2])}

Picked == Selections \ {NoSelections}

Calls == INSTANCE RecordCalls WITH
  Characters <- {"this"},
  Values     <- Picked,
  Lawful     <- Picked,
  Complete   <- Committable,
  NoValue    <- NoSelections,
  NoVersion  <- NothingLive,
  Closed     <- NothingOpen,
  NoRecord   <- NothingFiled

(* The record as the store's calls see it.                                 *)
Seen ==
  [live    |-> IF activeVersion = 0 THEN NothingLive ELSE versions[activeVersion].selections,
   draft   |-> IF Open THEN draft.selections ELSE NothingOpen,
   persona |-> persona.selections]

(* The step is the accepted edit req.                                      *)
Serves(req) ==
  /\ req \in Calls!Requests /\ req.kind \in Calls!Edits
  /\ Calls!Accepts(Seen, req)
  /\ Seen' = Calls!Applied(Seen, req)

EditsAreCalls == [][\E req \in Calls!Requests : Serves(req)]_Seen

(***************************************************************************)
(* The cut is lawful: its values are as RecordCalls assumes them to be.    *)
(***************************************************************************)

(* The marks for nothing are no selections.                                *)
LEMMA MarksApart ==
  /\ NoSelections \in Selections
  /\ NothingLive \notin Selections /\ NothingOpen \notin Selections
<1>1. NoSelections \in Selections
  BY DEF NoSelections, Selections
<1>2. \E v : v \notin Selections
  BY NoSetContainsEverything
<1> QED BY <1>1, <1>2 DEF NothingLive, NothingOpen

(* The values RecordCalls submits or clears with are the selections.       *)
LEMMA PickedValues == Picked \cup {NoSelections} = Selections
BY MarksApart DEF Picked

(* RecordCalls' assumption on its constants holds of this instance.        *)
LEMMA CutLawful == Calls!CallsAssumption
<1>1. Calls!Records = [live : Selections \cup {NothingLive},
                       draft : Selections \cup {NothingOpen}, persona : Selections]
  <2>1. Picked \cup {NoSelections, NothingLive} = Selections \cup {NothingLive}
    BY PickedValues
  <2>2. Picked \cup {NoSelections, NothingOpen} = Selections \cup {NothingOpen}
    BY PickedValues
  <2> QED BY <2>1, <2>2, PickedValues DEF Calls!Records
<1>2. NothingFiled \notin Calls!Records
  BY <1>1, NoSetContainsEverything DEF NothingFiled
<1>3. Committable \subseteq Selections \X Selections
  BY DEF Committable
<1> QED BY <1>2, <1>3, MarksApart, PickedValues DEF Calls!CallsAssumption, Picked

(***************************************************************************)
(* The record seen is one RecordCalls knows.                               *)
(***************************************************************************)

(* The live version of a record that has one.                              *)
LEMMA LiveTyped ==
  ASSUME Structure, activeVersion # 0
  PROVE  /\ activeVersion \in DOMAIN versions
         /\ versions[activeVersion] \in Version
         /\ versions[activeVersion].selections \in Selections
<1>1. activeVersion \in 1 .. Len(versions) /\ versions \in Seq(Version)
  BY LenProperties DEF Structure, TypeOK, NeverStranded
<1>2. versions[activeVersion] \in Version
  BY <1>1, ElementOfSeq
<1> QED BY <1>1, <1>2, LenProperties DEF Version

(* The three values, and that nothing stands only where nothing is.        *)
LEMMA SeenTyped ==
  ASSUME Structure
  PROVE  /\ Seen \in Calls!StoredRecords
         /\ Seen.draft = NothingOpen <=> ~Open
         /\ Seen.live = NothingLive <=> activeVersion = 0
<1>1. persona.selections \in Selections /\ (Open => draft.selections \in Selections)
  BY DEF Structure, TypeOK, Persona, Draft, Open
<1>2. activeVersion # 0 => versions[activeVersion].selections \in Selections
  BY LiveTyped
<1>3. /\ Seen.draft = NothingOpen <=> ~Open
      /\ Seen.live = NothingLive <=> activeVersion = 0
  BY <1>1, <1>2, MarksApart DEF Seen
<1>4. Seen \in Calls!Records
  BY <1>1, <1>2, PickedValues DEF Seen, Calls!Records
<1> QED BY <1>3, <1>4 DEF Calls!StoredRecords, Structure, NeverStranded

(* A created record is seen as the fresh one.                              *)
LEMMA SeenFresh == Init => Seen = Calls!Fresh
<1> SUFFICES ASSUME Init PROVE Seen = Calls!Fresh
  OBVIOUS
<1>1. Open /\ activeVersion = 0
  BY InitStructure DEF Init, Structure, NeverStranded
<1> QED BY <1>1 DEF Init, Seen, EmptyDraft, EmptyPersona, Calls!Fresh

(***************************************************************************)
(* Every step is a call.  Only a write, a clearing, a reopening and a      *)
(* commit change what is seen (SelectionsChange).                          *)
(***************************************************************************)

(* The call that submits value, or clears.                                 *)
CallOf(kind, value) == [kind |-> kind, char |-> "this", value |-> value]

(* It is a request RecordCalls knows.                                      *)
LEMMA CallTyped ==
  ASSUME NEW kind \in Calls!Edits, NEW value \in Selections,
         kind \notin {"edit_persona", "edit_draft"} => value = NoSelections
  PROVE  /\ CallOf(kind, value) \in Calls!Requests
         /\ CallOf(kind, value).kind = kind /\ CallOf(kind, value).value = value
BY PickedValues DEF CallOf, Calls!Requests

(* What is seen while the history stands still: the live field stays.      *)
LEMMA LiveKept ==
  ASSUME Structure, Structure', versions' = versions
  PROVE  Seen'.live = Seen.live /\ activeVersion' = activeVersion
<1>1. activeVersion' = activeVersion
  BY DEF Structure, NeverStranded
<1> QED BY <1>1 DEF Seen

(* A write or a clearing of a pick edits the layer its home stands for.    *)
LEMMA PickIsCall ==
  ASSUME Structure, Structure', NEW g \in GroupIds, NEW ids \in SUBSET OptionIds,
         WritePick(g, ids), Writable(g), versions' = versions
  PROVE  \E req \in Calls!Requests : Serves(req)
<1> USE DEF Structure
<1>1. CASE catalog[g].home = "identity"
  <2> DEFINE req == CallOf("edit_draft", draft'.selections)
  <2>1. /\ Open /\ Open' /\ persona' = persona
        /\ draft'.selections \in Selections
    BY <1>1, WritePickEffect DEF Open, Draft
  <2>2. req \in Calls!Requests /\ req.kind = "edit_draft" /\ req.value = draft'.selections
    BY <2>1, CallTyped DEF Calls!Edits
  <2>3. Calls!Accepts(Seen, req)
    BY <2>1, <2>2, SeenTyped, PickedValues DEF Calls!Accepts
  <2>4. Seen' = Calls!Applied(Seen, req)
    <3>1. Calls!Applied(Seen, req) = [Seen EXCEPT !.draft = draft'.selections]
      BY <2>2 DEF Calls!Applied
    <3>2. Seen' = [live |-> Seen.live, draft |-> draft'.selections, persona |-> Seen.persona]
      BY <2>1, LiveKept DEF Seen
    <3> QED BY <3>1, <3>2 DEF Seen
  <2> QED BY <2>2, <2>3, <2>4 DEF Serves, Calls!Edits
<1>2. CASE catalog[g].home # "identity"
  <2> DEFINE req == CallOf("edit_persona", persona'.selections)
  <2>1. draft' = draft /\ persona'.selections \in Selections
    BY <1>2, WritePickEffect DEF Persona
  <2>2. req \in Calls!Requests /\ req.kind = "edit_persona" /\ req.value = persona'.selections
    BY <2>1, CallTyped DEF Calls!Edits
  <2>3. Calls!Accepts(Seen, req)
    BY <2>1, <2>2, PickedValues DEF Calls!Accepts
  <2>4. Seen' = Calls!Applied(Seen, req)
    <3>1. Calls!Applied(Seen, req) = [Seen EXCEPT !.persona = persona'.selections]
      BY <2>2 DEF Calls!Applied
    <3>2. Seen' = [live |-> Seen.live, draft |-> Seen.draft, persona |-> persona'.selections]
      BY <2>1, LiveKept DEF Seen, Open
    <3> QED BY <3>1, <3>2 DEF Seen
  <2> QED BY <2>2, <2>3, <2>4 DEF Serves, Calls!Edits
<1> QED BY <1>1, <1>2

(* Reopening copies the live value into the draft.                         *)
LEMMA OpenDraftIsCall ==
  ASSUME Structure, Structure', OpenDraft
  PROVE  \E req \in Calls!Requests : Serves(req)
<1> DEFINE req == CallOf("open_draft", NoSelections)
<1>1. /\ ~Open /\ Open' /\ activeVersion # 0
      /\ draft'.selections = versions[activeVersion].selections
      /\ versions' = versions /\ persona' = persona
  <2>1. ~Open /\ activeVersion # 0
    BY DEF OpenDraft, Structure, NeverStranded
  <2>2. draft' \in Draft /\ draft'.selections = versions[activeVersion].selections
    BY <2>1, LiveTyped DEF OpenDraft, Draft, Version
  <2> QED BY <2>1, <2>2, RecordAssumption DEF OpenDraft, Open
<1>2. req \in Calls!Requests /\ req.kind = "open_draft"
  BY CallTyped, MarksApart DEF Calls!Edits
<1>3. Calls!Accepts(Seen, req)
  BY <1>1, <1>2, SeenTyped DEF Calls!Accepts
<1>4. Seen' = Calls!Applied(Seen, req)
  <2>1. Calls!Applied(Seen, req) = [Seen EXCEPT !.draft = Seen.live]
    BY <1>2 DEF Calls!Applied
  <2>2. Seen' = [live |-> Seen.live, draft |-> Seen.live, persona |-> Seen.persona]
    BY <1>1, LiveKept DEF Seen
  <2> QED BY <2>1, <2>2 DEF Seen
<1> QED BY <1>2, <1>3, <1>4 DEF Serves, Calls!Edits

(* A commit makes the draft live, if the pair of layers is committable.    *)
LEMMA FinalizeIsCall ==
  ASSUME Structure, Structure', NEW installed \in BOOLEAN, Finalize(installed)
  PROVE  \E req \in Calls!Requests : Serves(req)
<1> USE DEF Structure, TypeOK
<1> DEFINE req == CallOf("finalize", NoSelections)
<1>1. Open /\ draft \in Draft /\ draft' = NoDraft /\ ~Open'
  BY DEF Finalize, Open
<1>2. persona'.selections = persona.selections
  BY DEF Finalize, Revalidated, Persona
<1>3. /\ activeVersion' = Len(versions) + 1 /\ activeVersion' # 0
      /\ versions'[activeVersion'].selections = draft.selections
  <2>1. Committed \in Version /\ Committed.selections = draft.selections
    BY <1>1 DEF Committed, Draft, Version
  <2> QED BY <2>1, AppendProperties, LenProperties DEF Finalize
<1>4. req \in Calls!Requests /\ req.kind = "finalize"
  BY CallTyped, MarksApart DEF Calls!Edits
<1>5. <<draft.selections, persona.selections>> \in Committable
  <2>1. draft.selections \in Selections /\ persona.selections \in Selections
    BY <1>1 DEF Draft, Persona
  <2>2. CheckFullState(catalog, age, rating, draft.selections, persona.selections)
    BY DEF Finalize
  <2> QED BY <2>1, <2>2 DEF Committable
<1>6. Calls!Accepts(Seen, req)
  BY <1>1, <1>4, <1>5 DEF Calls!Accepts, Seen
<1>7. Seen' = Calls!Applied(Seen, req)
  <2>1. Calls!Applied(Seen, req) = [Seen EXCEPT !.live = Seen.draft, !.draft = NothingOpen]
    BY <1>4 DEF Calls!Applied
  <2>2. Seen' = [live |-> Seen.draft, draft |-> NothingOpen, persona |-> Seen.persona]
    BY <1>1, <1>2, <1>3 DEF Seen
  <2> QED BY <2>1, <2>2 DEF Seen
<1> QED BY <1>4, <1>6, <1>7 DEF Serves, Calls!Edits

(* A step of the record changes nothing that is seen or is a call.         *)
LEMMA StepIsCall ==
  ASSUME Structure, [Next]_vars
  PROVE  Seen' = Seen \/ \E req \in Calls!Requests : Serves(req)
<1>1. Structure'
  BY StructureStep
<1>2. ASSUME NEW g \in GroupIds, NEW ids \in SUBSET OptionIds,
             SetSelection(g, ids) \/ (ClearSelection(g) /\ ids = {})
      PROVE  \E req \in Calls!Requests : Serves(req)
  BY <1>1, <1>2, PickIsCall DEF SetSelection, ClearSelection
<1>3. ASSUME versions' = versions, persona'.selections = persona.selections,
             \/ draft' = draft
             \/ Open /\ draft' # NoDraft /\ draft'.selections = draft.selections
      PROVE  Seen' = Seen
  BY <1>1, <1>3, LiveKept DEF Seen, Open
<1> QED
  BY <1>1, <1>2, <1>3, SelectionsChange, VersionsKept, OpenDraftIsCall, FinalizeIsCall

(* A record is created as the fresh record of RecordCalls, is always one   *)
(* RecordCalls would find on a disk, and changes only as an accepted edit  *)
(* of RecordCalls changes it: what the store is shown to do with such      *)
(* records it does with the program's.                                     *)
THEOREM RecordServesCalls ==
  Spec => Seen = Calls!Fresh /\ [](Seen \in Calls!StoredRecords) /\ EditsAreCalls
<1>1. Structure => Seen \in Calls!StoredRecords
  BY SeenTyped
<1>2. Structure /\ [Next]_vars => [\E req \in Calls!Requests : Serves(req)]_Seen
  BY StepIsCall
<1> QED
  BY <1>1, <1>2, SeenFresh, StructureInvariant, PTL DEF Spec, EditsAreCalls

==============================================================================

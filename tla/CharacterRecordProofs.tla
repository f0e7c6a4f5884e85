----------------------- MODULE CharacterRecordProofs -----------------------
(***************************************************************************)
(* Theorems about CharacterRecord, for every catalog, filter and bound.    *)
(***************************************************************************)
EXTENDS CharacterRecord, TLAPS, SequenceTheorems

(***************************************************************************)
(* Lemmas about ratings, the filter and selections.                        *)
(***************************************************************************)

(* What is admissible at a rating stays admissible at a higher one.        *)
LEMMA AtMostTransitive ==
  ASSUME NEW r \in Ratings, NEW s \in Ratings, NEW t \in Ratings,
         AtMost(r, s), AtMost(s, t)
  PROVE  AtMost(r, t)
BY DEF AtMost, RatingOrder, Ratings

(* The filter is monotone: a text that passes at a rating passes, in the   *)
(* same context, at every higher one.                                      *)
LEMMA CheckMonotone ==
  ASSUME NEW t \in Texts, NEW context, NEW r \in Ratings, NEW s \in Ratings,
         AtMost(r, s), Check(t, context, r)
  PROVE  Check(t, context, s)
<1>1. \A l \in WordLists : Unlocked(l, r) => Unlocked(l, s)
  BY AtMostTransitive, FilterAssumption DEF Unlocked
<1> QED BY <1>1 DEF Check, Blocks

(* A write to one group of a selection block keeps the block well formed.  *)
LEMMA WriteTyped ==
  ASSUME NEW s \in Selections, NEW g \in GroupIds, NEW ids \in SUBSET OptionIds
  PROVE  [s EXCEPT ![g] = ids] \in Selections
BY DEF Selections

(* What a write to group g does: to the draft when g is an identity group, *)
(* to the persona block otherwise, and to nothing else of either.          *)
LEMMA WritePickEffect ==
  ASSUME TypeOK, NEW g \in GroupIds, NEW ids \in SUBSET OptionIds,
         WritePick(g, ids), Writable(g)
  PROVE  /\ catalog[g].home = "identity" =>
              /\ draft \in Draft /\ Open /\ draft' \in Draft /\ draft' # NoDraft
              /\ draft'.selections = [draft.selections EXCEPT ![g] = ids]
              /\ draft'.looks = draft.looks /\ draft'.edit = draft.edit
              /\ persona' = persona
         /\ catalog[g].home # "identity" =>
              /\ persona' \in Persona
              /\ persona'.selections = [persona.selections EXCEPT ![g] = ids]
              /\ persona'.story = persona.story
              /\ persona'.name = persona.name
              /\ persona'.nameSafety = persona.nameSafety
              /\ draft' = draft
<1> USE DEF TypeOK
<1>1. ASSUME catalog[g].home = "identity"
      PROVE  /\ draft \in Draft /\ Open /\ draft' \in Draft /\ draft' # NoDraft
             /\ draft'.selections = [draft.selections EXCEPT ![g] = ids]
             /\ draft'.looks = draft.looks /\ draft'.edit = draft.edit
             /\ persona' = persona
  <2>1. draft \in Draft /\ Open
    BY <1>1 DEF Writable, Open
  <2>2. draft.selections \in Selections
    BY <2>1 DEF Draft
  <2>3. /\ draft' = [draft EXCEPT !.selections = [draft.selections EXCEPT ![g] = ids]]
        /\ persona' = persona
    BY <1>1, <2>1 DEF WritePick, Draft
  <2>4. draft' \in Draft
    BY <2>1, <2>2, <2>3, WriteTyped DEF Draft
  <2> QED BY <2>1, <2>3, <2>4, RecordAssumption DEF Draft
<1>2. ASSUME catalog[g].home # "identity"
      PROVE  /\ persona' \in Persona
             /\ persona'.selections = [persona.selections EXCEPT ![g] = ids]
             /\ persona'.story = persona.story
             /\ persona'.name = persona.name
             /\ persona'.nameSafety = persona.nameSafety
             /\ draft' = draft
  <2>1. persona.selections \in Selections
    BY DEF Persona
  <2>2. /\ persona' = [persona EXCEPT !.selections = [persona.selections EXCEPT ![g] = ids]]
        /\ draft' = draft
    BY <1>2 DEF WritePick, Persona
  <2> QED BY <2>1, <2>2, WriteTyped DEF Persona
<1> QED BY <1>1, <1>2

(***************************************************************************)
(* The type invariant, strengthened by what the types rest on: the live    *)
(* pointer, and the mark of the name.                                      *)
(***************************************************************************)

(* A name carries a mark exactly when there is one.                        *)
NameMarked == (persona.name = NoText) <=> (persona.nameSafety = "none")

Structure == TypeOK /\ NeverStranded /\ NameMarked

(* A freshly created record has its structure: an open draft, no version.  *)
LEMMA InitStructure == Init => Structure
<1> SUFFICES ASSUME Init PROVE Structure
  OBVIOUS
<1>1. NoSelections \in Selections
  BY DEF NoSelections, Selections
<1>2. EmptyDraft \in Draft /\ EmptyPersona \in Persona
  BY <1>1 DEF EmptyDraft, EmptyPersona, Draft, Persona
<1>3. draft # NoDraft
  BY <1>2, RecordAssumption DEF Init
<1>4. versions \in Seq(Version) /\ Len(versions) = 0
  BY DEF Init
<1>5. TypeOK
  <2>1. age \in AGE_FLOOR .. AGE_CEILING
    BY DEF Init, CheckAge
  <2>2. rating \in Ratings /\ catalog \in Catalogs /\ activeVersion \in Nat
    BY DEF Init, Ratings
  <2>3. draft \in Draft /\ persona \in Persona
    BY <1>2 DEF Init
  <2> QED BY <1>4, <2>1, <2>2, <2>3 DEF TypeOK
<1>6. NeverStranded
  BY <1>3, <1>4 DEF Init, NeverStranded, Open
<1>7. NameMarked
  BY DEF Init, EmptyPersona, NameMarked
<1> QED BY <1>5, <1>6, <1>7 DEF Structure

(* Every call of the mutation surface keeps the structure: one step per    *)
(* action, and under it what the action can disturb.                       *)
LEMMA StructureStep == Structure /\ [Next]_vars => Structure'
<1> SUFFICES ASSUME Structure, [Next]_vars PROVE Structure'
  OBVIOUS
<1> USE DEF Structure, TypeOK, NeverStranded, NameMarked, Open
<1>1. ASSUME NEW a \in Ages, SetAge(a) PROVE Structure'
  BY <1>1 DEF SetAge, CheckAge
<1>2. ASSUME NEW r \in Ratings, RaiseRating(r) PROVE Structure'
  BY <1>2 DEF RaiseRating
<1>3. ASSUME NEW g \in GroupIds, NEW ids \in SUBSET OptionIds,
             WritePick(g, ids), Writable(g),
             UNCHANGED <<catalog, age, rating, versions, activeVersion>>
      PROVE  Structure'
  BY <1>3, WritePickEffect, RecordAssumption
<1>4. ASSUME NEW g \in GroupIds, NEW ids \in SUBSET OptionIds, SetSelection(g, ids)
      PROVE  Structure'
  BY <1>3, <1>4 DEF SetSelection
<1>5. ASSUME NEW g \in GroupIds, ClearSelection(g) PROVE Structure'
  BY <1>3, <1>5 DEF ClearSelection
<1>6. ASSUME Open, draft' \in Draft,
             UNCHANGED <<catalog, age, rating, versions, activeVersion, persona>>
      PROVE  Structure'
  BY <1>6, RecordAssumption
<1>7. ASSUME NEW t \in Texts, SetLooksText(t) PROVE Structure'
  BY <1>6, <1>7 DEF SetLooksText, Draft
<1>8. ASSUME ClearLooksText PROVE Structure'
  BY <1>6, <1>8 DEF ClearLooksText, Draft
<1>9. ASSUME NEW t \in Texts, EditAppearanceParagraph(t) PROVE Structure'
  BY <1>6, <1>9 DEF EditAppearanceParagraph, Draft
<1>10. ASSUME NEW t \in Texts, SetStoryText(t) PROVE Structure'
  BY <1>10 DEF SetStoryText, Persona
<1>11. ASSUME ClearStoryText PROVE Structure'
  BY <1>11 DEF ClearStoryText, Persona
<1>12. ASSUME NEW t \in Texts, NEW installed \in BOOLEAN, SetName(t, installed)
       PROVE  Structure'
  BY <1>12, RecordAssumption DEF SetName, Persona
<1>13. Revalidated \in Persona
         /\ (Revalidated.name = NoText <=> Revalidated.nameSafety = "none")
  BY DEF Revalidated, Persona
<1>14. ASSUME RevalidateName PROVE Structure'
  BY <1>13, <1>14 DEF RevalidateName
<1>15. ASSUME OpenDraft PROVE Structure'
  <2>1. activeVersion \in 1 .. Len(versions)
    BY <1>15, LenProperties DEF OpenDraft
  <2>2. versions[activeVersion] \in Version
    BY <2>1, ElementOfSeq
  <2>3. draft' \in Draft
    BY <1>15, <2>2 DEF OpenDraft, Draft, Version
  <2> QED BY <1>15, <2>3, RecordAssumption DEF OpenDraft
<1>16. ASSUME NEW installed \in BOOLEAN, Finalize(installed) PROVE Structure'
  <2>1. draft \in Draft
    BY <1>16 DEF Finalize
  <2>2. Committed \in Version
    BY <2>1 DEF Committed, Draft, Version
  <2>3. versions' \in Seq(Version) /\ Len(versions') = Len(versions) + 1
    BY <1>16, <2>2, AppendProperties DEF Finalize
  <2>4. Len(versions) \in Nat
    BY LenProperties
  <2>5. persona' \in Persona /\ (persona'.name = NoText <=> persona'.nameSafety = "none")
    BY <1>13, <1>16 DEF Finalize
  <2> QED BY <1>16, <2>3, <2>4, <2>5 DEF Finalize
<1>17. ASSUME NEW cat \in Catalogs, Restart(cat) PROVE Structure'
  BY <1>17 DEF Restart
<1>18. ASSUME UNCHANGED vars PROVE Structure'
  BY <1>18 DEF vars
<1> QED
  BY <1>1, <1>2, <1>4, <1>5, <1>7, <1>8, <1>9, <1>10, <1>11, <1>12, <1>14, <1>15,
     <1>16, <1>17, <1>18 DEF Next

(* The inductive invariant the other theorems rest on: declared forms, the *)
(* live pointer at the newest version or a draft open, and a mark on a name*)
(* exactly when there is a name.                                           *)
THEOREM StructureInvariant == Spec => []Structure
BY InitStructure, StructureStep, PTL DEF Spec

(* Every stored field keeps its declared form under every sequence of      *)
(* calls: the record layer never stores an ill-formed draft, version or    *)
(* persona block.                                                          *)
THEOREM TypeCorrect == Spec => []TypeOK
<1>1. Structure => TypeOK
  BY DEF Structure
<1> QED BY <1>1, StructureInvariant, PTL

(* The live version is the newest, and one exists whenever no draft is     *)
(* open: the assertion in open_draft never fails.                          *)
THEOREM NeverStrandedAlways == Spec => []NeverStranded
<1>1. Structure => NeverStranded
  BY DEF Structure
<1> QED BY <1>1, StructureInvariant, PTL

(***************************************************************************)
(* The filtered texts.  Each text was checked at the rating of its own     *)
(* time; the rating only rises, and CheckMonotone carries the check along. *)
(***************************************************************************)

(* A new record holds no text and no name.                                 *)
LEMMA TextsInit == Init => StoredTextsPass /\ ClearNamePasses
<1> SUFFICES ASSUME Init PROVE StoredTextsPass /\ ClearNamePasses
  OBVIOUS
<1>1. StoredTexts = {NoText}
  BY DEF Init, StoredTexts, EmptyDraft, EmptyPersona, Open
<1>2. persona.nameSafety = "none"
  BY DEF Init, EmptyPersona
<1> QED BY <1>1, <1>2 DEF StoredTextsPass, ClearNamePasses

(* A text enters the record only past the filter; everything else moves    *)
(* texts that passed, and the rating only rises.                           *)
LEMMA StoredTextsStep ==
  Structure /\ StoredTextsPass /\ [Next]_vars => StoredTextsPass'
<1> SUFFICES ASSUME Structure, StoredTextsPass, [Next]_vars,
                    NEW t \in StoredTexts' \ {NoText}
             PROVE  Check(t, "freetext", rating')
  BY DEF StoredTextsPass
<1> USE DEF Structure, TypeOK
<1>1. t \in StoredTexts /\ rating' = rating => Check(t, "freetext", rating')
  BY DEF StoredTextsPass
<1>2. ASSUME NEW r \in Ratings, RaiseRating(r) PROVE Check(t, "freetext", rating')
  <2>1. t \in StoredTexts
    BY <1>2 DEF RaiseRating, StoredTexts, Open
  <2>2. Check(t, "freetext", rating)
    BY <2>1 DEF StoredTextsPass
  <2>3. t \in Texts
    <3>1. \A i \in DOMAIN versions : versions[i] \in Version
      BY ElementOfSeq, LenProperties
    <3>2. \A i \in DOMAIN versions :
            versions[i].looks \in Texts \cup {NoText} /\ versions[i].paragraph \in Texts \cup {NoText}
      BY <3>1 DEF Version
    <3>3. Open => {draft.looks, draft.edit} \subseteq Texts \cup {NoText}
      BY DEF Open, Draft
    <3>4. persona.story \in Texts \cup {NoText}
      BY DEF Persona
    <3> QED BY <2>1, <3>2, <3>3, <3>4 DEF StoredTexts
  <2> QED BY <1>2, <2>2, <2>3, CheckMonotone DEF RaiseRating
<1>3. ASSUME NEW a \in Ages, SetAge(a) PROVE Check(t, "freetext", rating')
  BY <1>1, <1>3 DEF SetAge, StoredTexts, Open
<1>4. ASSUME NEW g \in GroupIds, NEW ids \in SUBSET OptionIds,
             WritePick(g, ids), Writable(g),
             UNCHANGED <<catalog, age, rating, versions, activeVersion>>
      PROVE  Check(t, "freetext", rating')
  BY <1>1, <1>4, WritePickEffect DEF StoredTexts, Open
<1>5. ASSUME NEW g \in GroupIds, NEW ids \in SUBSET OptionIds, SetSelection(g, ids)
      PROVE  Check(t, "freetext", rating')
  BY <1>4, <1>5 DEF SetSelection
<1>6. ASSUME NEW g \in GroupIds, ClearSelection(g)
      PROVE  Check(t, "freetext", rating')
  BY <1>4, <1>6 DEF ClearSelection
<1>7. ASSUME NEW u \in Texts, SetLooksText(u) PROVE Check(t, "freetext", rating')
  <2>1. draft'.looks = u /\ draft'.edit = draft.edit
    BY <1>7 DEF SetLooksText, Open, Draft
  <2>2. t \in StoredTexts \/ t = u
    BY <1>7, <2>1 DEF SetLooksText, StoredTexts, Open
  <2> QED BY <1>1, <1>7, <2>2 DEF SetLooksText, CheckFreeText
<1>8. ASSUME ClearLooksText PROVE Check(t, "freetext", rating')
  <2>1. draft'.looks = NoText /\ draft'.edit = draft.edit
    BY <1>8 DEF ClearLooksText, Open, Draft
  <2> QED BY <1>1, <1>8, <2>1 DEF ClearLooksText, StoredTexts, Open
<1>9. ASSUME NEW u \in Texts, EditAppearanceParagraph(u)
      PROVE  Check(t, "freetext", rating')
  <2>1. draft'.edit = u /\ draft'.looks = draft.looks
    BY <1>9 DEF EditAppearanceParagraph, Open, Draft
  <2>2. t \in StoredTexts \/ t = u
    BY <1>9, <2>1 DEF EditAppearanceParagraph, StoredTexts, Open
  <2> QED BY <1>1, <1>9, <2>2 DEF EditAppearanceParagraph, CheckFreeText
<1>10. ASSUME NEW u \in Texts, SetStoryText(u) PROVE Check(t, "freetext", rating')
  <2>1. persona'.story = u
    BY <1>10 DEF SetStoryText, Persona
  <2>2. t \in StoredTexts \/ t = u
    BY <1>10, <2>1 DEF SetStoryText, StoredTexts, Open
  <2> QED BY <1>1, <1>10, <2>2 DEF SetStoryText, CheckFreeText
<1>11. ASSUME ClearStoryText PROVE Check(t, "freetext", rating')
  <2>1. persona'.story = NoText
    BY <1>11 DEF ClearStoryText, Persona
  <2> QED BY <1>1, <1>11, <2>1 DEF ClearStoryText, StoredTexts, Open
<1>12. ASSUME persona'.story = persona.story,
              UNCHANGED <<rating, versions, draft>>
       PROVE  Check(t, "freetext", rating')
  BY <1>1, <1>12 DEF StoredTexts, Open
<1>13. Revalidated.story = persona.story
  BY DEF Revalidated, Persona
<1>14. ASSUME NEW u \in Texts, NEW installed \in BOOLEAN, SetName(u, installed)
       PROVE  Check(t, "freetext", rating')
  BY <1>12, <1>14 DEF SetName, Persona
<1>15. ASSUME RevalidateName PROVE Check(t, "freetext", rating')
  BY <1>12, <1>13, <1>15 DEF RevalidateName
<1>16. ASSUME OpenDraft PROVE Check(t, "freetext", rating')
  <2>1. activeVersion \in DOMAIN versions
    BY <1>16, LenProperties DEF OpenDraft, NeverStranded
  <2>2. draft'.looks = versions[activeVersion].looks /\ draft'.edit = NoText
    BY <1>16 DEF OpenDraft
  <2> QED BY <1>1, <1>16, <2>1, <2>2 DEF OpenDraft, StoredTexts, Open
<1>17. ASSUME NEW installed \in BOOLEAN, Finalize(installed)
       PROVE  Check(t, "freetext", rating')
  <2>1. persona'.story = persona.story
    BY <1>13, <1>17 DEF Finalize
  <2>2. Committed \in Version
    BY <1>17 DEF Finalize, Open, Committed, Draft, Version
  <2>3. \A i \in DOMAIN versions' :
          \/ i \in DOMAIN versions /\ versions'[i] = versions[i]
          \/ versions'[i] = Committed
    BY <1>17, <2>2, AppendProperties, LenProperties DEF Finalize
  <2>4. Committed.looks = draft.looks /\ Committed.paragraph = draft.edit
    BY DEF Committed
  <2>5. t \in StoredTexts
    BY <1>17, <2>1, <2>3, <2>4 DEF Finalize, StoredTexts, Open
  <2> QED BY <1>1, <1>17, <2>5 DEF Finalize
<1>18. ASSUME NEW cat \in Catalogs, Restart(cat) PROVE Check(t, "freetext", rating')
  BY <1>12, <1>18 DEF Restart
<1>19. ASSUME UNCHANGED vars PROVE Check(t, "freetext", rating')
  BY <1>12, <1>19 DEF vars
<1> QED
  BY <1>2, <1>3, <1>5, <1>6, <1>7, <1>8, <1>9, <1>10, <1>11, <1>14, <1>15,
     <1>16, <1>17, <1>18, <1>19 DEF Next

(* Every text a record holds, in its slots or in its history, passes the   *)
(* filter at the record's present rating, whatever the lists are and       *)
(* whenever they unlock.                                                   *)
THEOREM StoredTextsAlwaysPass == Spec => []StoredTextsPass
<1>1. Init => StoredTextsPass
  BY TextsInit
<1> QED BY <1>1, StructureInvariant, StoredTextsStep, PTL DEF Spec

(* A name is marked clear only when the filter passed it, and a rise of the*)
(* rating never takes that back.                                           *)
LEMMA ClearNameStep ==
  Structure /\ ClearNamePasses /\ [Next]_vars => ClearNamePasses'
<1> SUFFICES ASSUME Structure, ClearNamePasses, [Next]_vars PROVE ClearNamePasses'
  OBVIOUS
<1> USE DEF Structure, TypeOK, ClearNamePasses
<1>1. ASSUME persona'.name = persona.name, persona'.nameSafety = persona.nameSafety,
             rating' = rating
      PROVE  ClearNamePasses'
  BY <1>1
<1>2. ASSUME NEW r \in Ratings, RaiseRating(r) PROVE ClearNamePasses'
  <2>1. persona' = persona /\ rating' = r /\ AtMost(rating, r)
    BY <1>2 DEF RaiseRating
  <2>2. persona.name # NoText => persona.name \in Texts
    BY DEF Persona
  <2> QED BY <2>1, <2>2, CheckMonotone DEF CheckName
<1>3. ASSUME NEW u \in Texts, NEW installed \in BOOLEAN, SetName(u, installed)
      PROVE  ClearNamePasses'
  <2>1. persona'.name = u
          /\ persona'.nameSafety = (IF installed THEN "clear" ELSE "pending")
    BY <1>3 DEF SetName, Persona
  <2> QED BY <1>3, <2>1, RecordAssumption DEF SetName
<1>4. ASSUME NamePasses, persona' = Revalidated, rating' = rating
      PROVE  ClearNamePasses'
  <2>1. CASE persona.name = NoText
    BY <1>4, <2>1 DEF Revalidated
  <2>2. CASE persona.name # NoText
    <3>1. persona'.name = persona.name
      BY <1>4, <2>2 DEF Revalidated, Persona
    <3>2. persona.nameSafety \in {"pending", "clear"}
      BY <2>2 DEF NameMarked, Persona
    <3> QED BY <1>4, <2>2, <3>1, <3>2 DEF NamePasses
  <2> QED BY <2>1, <2>2
<1>5. ASSUME RevalidateName PROVE ClearNamePasses'
  BY <1>4, <1>5 DEF RevalidateName
<1>6. ASSUME NEW installed \in BOOLEAN, Finalize(installed) PROVE ClearNamePasses'
  BY <1>1, <1>4, <1>6 DEF Finalize
<1>7. ASSUME NEW g \in GroupIds, NEW ids \in SUBSET OptionIds,
             WritePick(g, ids), Writable(g), rating' = rating
      PROVE  ClearNamePasses'
  BY <1>1, <1>7, WritePickEffect
<1>8. ASSUME NEW g \in GroupIds,
             ClearSelection(g) \/ \E ids \in SUBSET OptionIds : SetSelection(g, ids)
      PROVE  ClearNamePasses'
  BY <1>7, <1>8 DEF ClearSelection, SetSelection
<1>9. ASSUME ClearStoryText \/ \E t \in Texts : SetStoryText(t)
      PROVE  ClearNamePasses'
  BY <1>1, <1>9 DEF ClearStoryText, SetStoryText, Persona
<1>10. ASSUME UNCHANGED <<persona, rating>> PROVE ClearNamePasses'
  BY <1>1, <1>10
<1> QED
  BY <1>2, <1>3, <1>5, <1>6, <1>8, <1>9, <1>10 DEF Next, vars, SetAge, SetLooksText,
     ClearLooksText, EditAppearanceParagraph, OpenDraft, Restart

(* A clear mark is never left on a name the filter has not passed, nor on  *)
(* one it would refuse at the present rating.                              *)
THEOREM ClearNameAlwaysPasses == Spec => []ClearNamePasses
<1>1. Init => ClearNamePasses
  BY TextsInit
<1> QED BY <1>1, StructureInvariant, ClearNameStep, PTL DEF Spec

(***************************************************************************)
(* The refinement: the identity layer implements IdentityHistory.          *)
(***************************************************************************)

(* The mapped history is a sequence of snapshots, as long as versions.     *)
LEMMA HistoryBarSeq ==
  ASSUME NEW s \in Seq(Version)
  PROVE  LET bar == [i \in DOMAIN s |->
                       SnapshotOf(s[i].selections, s[i].looks, s[i].paragraph)]
         IN  /\ bar \in Seq(History!Snapshot)
             /\ Len(bar) = Len(s)
             /\ \A i \in 1 .. Len(s) : bar[i] =
                  SnapshotOf(s[i].selections, s[i].looks, s[i].paragraph)
<1> DEFINE bar == [i \in DOMAIN s |->
                     SnapshotOf(s[i].selections, s[i].looks, s[i].paragraph)]
<1>1. DOMAIN s = 1 .. Len(s) /\ Len(s) \in Nat
  BY LenProperties
<1>2. \A i \in 1 .. Len(s) : s[i] \in Version
  BY ElementOfSeq
<1>3. \A i \in 1 .. Len(s) : bar[i] \in History!Snapshot
  BY <1>1, <1>2 DEF SnapshotOf, Version, History!Snapshot
<1>4. bar \in Seq(History!Snapshot) /\ Len(bar) = Len(s)
  <2>1. bar = [i \in 1 .. Len(s) |-> bar[i]]
    BY <1>1
  <2>2. bar \in [1 .. Len(s) -> History!Snapshot]
    BY <1>3, <2>1
  <2>3. bar \in Seq(History!Snapshot)
    BY <1>1, <2>2, SeqDef
  <2> QED BY <1>1, <2>2, <2>3, LenProperties
<1> QED BY <1>1, <1>4

(* The mapped history of a longer sequence of versions is the longer        *)
(* mapped history.                                                         *)
LEMMA HistoryBarAppend ==
  ASSUME versions \in Seq(Version), NEW v \in Version, versions' = Append(versions, v)
  PROVE  historyBar' = Append(historyBar, SnapshotOf(v.selections, v.looks, v.paragraph))
<1> DEFINE snap == SnapshotOf(v.selections, v.looks, v.paragraph)
<1>1. /\ versions' \in Seq(Version) /\ Len(versions') = Len(versions) + 1
      /\ \A i \in 1 .. Len(versions) : versions'[i] = versions[i]
      /\ versions'[Len(versions) + 1] = v
  BY AppendProperties
<1>2. /\ historyBar \in Seq(History!Snapshot) /\ Len(historyBar) = Len(versions)
      /\ \A i \in 1 .. Len(versions) : historyBar[i] =
           SnapshotOf(versions[i].selections, versions[i].looks, versions[i].paragraph)
  BY HistoryBarSeq DEF historyBar
<1>3. /\ historyBar' \in Seq(History!Snapshot) /\ Len(historyBar') = Len(versions')
      /\ \A i \in 1 .. Len(versions') : historyBar'[i] =
           SnapshotOf(versions'[i].selections, versions'[i].looks, versions'[i].paragraph)
  BY <1>1, HistoryBarSeq DEF historyBar
<1>4. snap \in History!Snapshot
  BY DEF SnapshotOf, Version, History!Snapshot
<1>5. /\ Append(historyBar, snap) \in Seq(History!Snapshot)
      /\ Len(Append(historyBar, snap)) = Len(versions) + 1
      /\ \A i \in 1 .. Len(versions) : Append(historyBar, snap)[i] = historyBar[i]
      /\ Append(historyBar, snap)[Len(versions) + 1] = snap
  BY <1>2, <1>4, AppendProperties
<1>6. Len(versions) \in Nat
  BY LenProperties
<1>7. \A i \in 1 .. Len(versions) + 1 : historyBar'[i] = Append(historyBar, snap)[i]
  <2> TAKE i \in 1 .. Len(versions) + 1
  <2>1. historyBar'[i] =
          SnapshotOf(versions'[i].selections, versions'[i].looks, versions'[i].paragraph)
    BY <1>1, <1>3
  <2>2. CASE i \in 1 .. Len(versions)
    <3>1. versions'[i] = versions[i] /\ Append(historyBar, snap)[i] = historyBar[i]
      BY <1>1, <1>5, <2>2
    <3>2. historyBar[i] =
            SnapshotOf(versions[i].selections, versions[i].looks, versions[i].paragraph)
      BY <1>2, <2>2
    <3> QED BY <2>1, <3>1, <3>2
  <2>3. CASE i = Len(versions) + 1
    BY <1>1, <1>5, <2>1, <2>3
  <2>4. i \in 1 .. Len(versions) \/ i = Len(versions) + 1
    BY <1>6
  <2> QED BY <2>2, <2>3, <2>4
<1>8. Len(historyBar') = Len(Append(historyBar, snap))
  BY <1>1, <1>3, <1>5
<1>9. \A i \in 1 .. Len(historyBar') : historyBar'[i] = Append(historyBar, snap)[i]
  BY <1>1, <1>3, <1>7
<1> HIDE DEF snap
<1>10. historyBar' = Append(historyBar, snap)
  BY <1>3, <1>5, <1>8, <1>9, SeqEqual
<1> QED BY <1>10 DEF snap

(* A new record maps to an empty history with a working copy.              *)
LEMMA HistoryInit == Init => History!Init
<1> SUFFICES ASSUME Init PROVE History!Init
  OBVIOUS
<1>1. Structure
  BY InitStructure
<1>2. historyBar = <<>>
  <2>1. versions \in Seq(Version) /\ Len(versions) = 0
    BY <1>1 DEF Init, Structure, TypeOK
  <2>2. historyBar \in Seq(History!Snapshot) /\ Len(historyBar) = 0
    BY <2>1, HistoryBarSeq DEF historyBar
  <2> QED BY <2>2, EmptySeq
<1>3. workingBar = SnapshotOf(NoSelections, NoText, NoText)
  BY <1>1 DEF Init, workingBar, Structure, NeverStranded, EmptyDraft
<1>4. NoSelections \in Selections
  BY DEF NoSelections, Selections
<1>5. workingBar \in History!Snapshot /\ workingBar.paragraph = NoText
  BY <1>3, <1>4 DEF SnapshotOf, History!Snapshot
<1> QED BY <1>2, <1>5 DEF History!Init

(* A step of the record is an edit, a reopening, a commit or no step of the*)
(* abstract history.                                                       *)
LEMMA HistoryStep ==
  Structure /\ Structure' /\ [Next]_vars => [History!Next]_<<historyBar, workingBar>>
<1> SUFFICES ASSUME Structure, Structure', [Next]_vars
             PROVE  [History!Next]_<<historyBar, workingBar>>
  OBVIOUS
<1> USE DEF Structure, TypeOK
<1>1. ASSUME versions' = versions, Open, draft' # NoDraft
      PROVE  History!Edit
  <2>1. historyBar' = historyBar
    BY <1>1 DEF historyBar
  <2>2. draft \in Draft /\ draft' \in Draft
    BY <1>1 DEF Open
  <2>3. workingBar \in History!Snapshot /\ workingBar' \in History!Snapshot
    BY <1>1, <2>2 DEF workingBar, Open, SnapshotOf, Draft, History!Snapshot
  <2>4. workingBar # NoDraft
    BY <2>3, ClosedAssumption
  <2> QED BY <2>1, <2>3, <2>4 DEF History!Edit
<1>2. ASSUME UNCHANGED <<versions, draft>> PROVE UNCHANGED <<historyBar, workingBar>>
  BY <1>2 DEF historyBar, workingBar, Open
<1>3. ASSUME NEW g \in GroupIds, NEW ids \in SUBSET OptionIds,
             WritePick(g, ids), Writable(g), versions' = versions
      PROVE  [History!Next]_<<historyBar, workingBar>>
  <2>1. CASE catalog[g].home = "identity"
    BY <1>1, <1>3, <2>1, WritePickEffect DEF History!Next
  <2>2. CASE catalog[g].home # "identity"
    BY <1>2, <1>3, <2>2, WritePickEffect
  <2> QED BY <2>1, <2>2
<1>4. ASSUME NEW g \in GroupIds,
             ClearSelection(g) \/ \E ids \in SUBSET OptionIds : SetSelection(g, ids)
      PROVE  [History!Next]_<<historyBar, workingBar>>
  BY <1>3, <1>4 DEF ClearSelection, SetSelection
<1>5. ASSUME versions' = versions, Open, draft' \in Draft
      PROVE  [History!Next]_<<historyBar, workingBar>>
  BY <1>1, <1>5, RecordAssumption DEF History!Next
<1>6. ASSUME NEW u \in Texts, SetLooksText(u) \/ EditAppearanceParagraph(u)
      PROVE  [History!Next]_<<historyBar, workingBar>>
  BY <1>5, <1>6 DEF SetLooksText, EditAppearanceParagraph, Open, Draft
<1>7. ASSUME ClearLooksText PROVE [History!Next]_<<historyBar, workingBar>>
  BY <1>5, <1>7 DEF ClearLooksText, Open, Draft
<1>8. ASSUME OpenDraft PROVE History!Reopen
  <2>1. activeVersion = Len(versions) /\ Len(versions) \in 1 .. Len(versions)
    BY <1>8, LenProperties DEF OpenDraft, NeverStranded
  <2>2. historyBar \in Seq(History!Snapshot) /\ Len(historyBar) = Len(versions)
          /\ historyBar[Len(versions)] = SnapshotOf(versions[Len(versions)].selections,
               versions[Len(versions)].looks, versions[Len(versions)].paragraph)
    BY <2>1, HistoryBarSeq DEF historyBar
  <2>3. historyBar # <<>>
    BY <2>1, <2>2, EmptySeq
  <2>4. workingBar = NoDraft
    BY <1>8 DEF OpenDraft, workingBar
  <2>5. draft' # NoDraft
    <3>1. versions[activeVersion] \in Version
      BY <2>1, ElementOfSeq
    <3>2. draft' \in Draft
      BY <1>8, <3>1 DEF OpenDraft, Version, Draft
    <3> QED BY <3>2, RecordAssumption
  <2>6. workingBar' = [picture |-> historyBar[Len(historyBar)].picture, paragraph |-> NoText]
    BY <1>8, <2>1, <2>2, <2>5 DEF OpenDraft, workingBar, Open, SnapshotOf
  <2>7. historyBar' = historyBar
    BY <1>8 DEF OpenDraft, historyBar
  <2> QED BY <2>3, <2>4, <2>6, <2>7 DEF History!Reopen
<1>9. ASSUME NEW installed \in BOOLEAN, Finalize(installed) PROVE History!Commit
  <2>1. draft \in Draft
    BY <1>9 DEF Finalize, Open
  <2>2. Committed \in Version
    BY <2>1 DEF Committed, Draft, Version
  <2>3. workingBar = SnapshotOf(Committed.selections, Committed.looks, Committed.paragraph)
    BY <1>9 DEF Finalize, workingBar, Committed
  <2>4. historyBar' = Append(historyBar, workingBar)
    BY <1>9, <2>2, <2>3, HistoryBarAppend DEF Finalize
  <2>5. workingBar' = NoDraft
    BY <1>9 DEF Finalize, workingBar, Open
  <2>6. workingBar # NoDraft
    BY <2>2, <2>3, ClosedAssumption DEF SnapshotOf, Version, History!Snapshot
  <2> QED BY <2>4, <2>5, <2>6 DEF History!Commit
<1> QED
  BY <1>2, <1>4, <1>6, <1>7, <1>8, <1>9 DEF Next, vars, History!Next, SetAge, RaiseRating,
     SetStoryText, ClearStoryText, SetName, RevalidateName, Restart

(* The identity layer implements the abstract history: commits append the  *)
(* draft verbatim, nothing committed ever changes, and user-written        *)
(* paragraph text is committed only from the draft it was written in.      *)
THEOREM ImplementsHistoryAlways == Spec => ImplementsHistory
<1>1. Structure /\ Structure' /\ [Next]_vars => [History!Next]_<<historyBar, workingBar>>
  BY HistoryStep
<1> QED BY <1>1, HistoryInit, StructureInvariant, PTL DEF Spec, ImplementsHistory, History!Spec
(***************************************************************************)
(* Held picks: how a pick can enter the record.                            *)
(***************************************************************************)

(* A pick the record holds after a step was held before it, or the step    *)
(* wrote it through the gate; only then is a rating compared.              *)
LEMMA PicksEnterThroughGate ==
  ASSUME Structure, [Next]_vars,
         NEW s \in HeldSelections', NEW g \in GroupIds, NEW o \in s[g]
  PROVE  \/ \E h \in HeldSelections : o \in h[g]
         \/ /\ rating' = rating
            /\ ResolveGroup(catalog, g)
            /\ PickAllowed(catalog, g, o, rating, Previous(g), FALSE)
<1> DEFINE Held == \E h \in HeldSelections : o \in h[g]
<1> DEFINE Gated == /\ rating' = rating
                    /\ ResolveGroup(catalog, g)
                    /\ PickAllowed(catalog, g, o, rating, Previous(g), FALSE)
<1> USE DEF Structure, TypeOK
<1>1. s \in HeldSelections => Held
  OBVIOUS
<1>2. ASSUME UNCHANGED <<versions, draft>>, persona'.selections = persona.selections
      PROVE  Held
  BY <1>1, <1>2 DEF HeldSelections, Open
<1>3. ASSUME UNCHANGED <<versions, persona>>, Open, draft' # NoDraft,
             draft'.selections = draft.selections
      PROVE  Held
  BY <1>1, <1>3 DEF HeldSelections, Open
<1>4. ASSUME NEW k \in GroupIds, NEW ids \in SUBSET OptionIds,
             WritePick(k, ids), Writable(k), versions' = versions
      PROVE  Held \/ (k = g /\ o \in ids)
  <2>1. CASE catalog[k].home = "identity"
    <3>1. draft.selections \in Selections /\ draft.selections \in HeldSelections
      BY <1>4, <2>1, WritePickEffect DEF Draft, HeldSelections
    <3>2. s \in HeldSelections \/ s = [draft.selections EXCEPT ![k] = ids]
      BY <1>4, <2>1, WritePickEffect DEF HeldSelections, Open
    <3>3. s = [draft.selections EXCEPT ![k] = ids] => o \in draft.selections[g] \/ (k = g /\ o \in ids)
      BY <3>1 DEF Selections
    <3> QED BY <1>1, <3>1, <3>2, <3>3
  <2>2. CASE catalog[k].home # "identity"
    <3>1. persona.selections \in Selections /\ persona.selections \in HeldSelections
      BY DEF Persona, HeldSelections
    <3>2. s \in HeldSelections \/ s = [persona.selections EXCEPT ![k] = ids]
      BY <1>4, <2>2, WritePickEffect DEF HeldSelections, Open
    <3>3. s = [persona.selections EXCEPT ![k] = ids] => o \in persona.selections[g] \/ (k = g /\ o \in ids)
      BY <3>1 DEF Selections
    <3> QED BY <1>1, <3>1, <3>2, <3>3
  <2> QED BY <2>1, <2>2
<1>5. ASSUME NEW k \in GroupIds, NEW ids \in SUBSET OptionIds, SetSelection(k, ids)
      PROVE  Held \/ Gated
  BY <1>4, <1>5 DEF SetSelection, CheckSelection
<1>6. ASSUME NEW k \in GroupIds, ClearSelection(k) PROVE Held
  BY <1>4, <1>6 DEF ClearSelection
<1>7. ASSUME NEW u \in Texts, SetLooksText(u) \/ EditAppearanceParagraph(u) PROVE Held
  <2>1. draft \in Draft /\ draft' \in Draft /\ draft'.selections = draft.selections
    BY <1>7 DEF SetLooksText, EditAppearanceParagraph, Open, Draft
  <2> QED BY <1>3, <1>7, <2>1, RecordAssumption DEF SetLooksText, EditAppearanceParagraph
<1>8. ASSUME ClearLooksText PROVE Held
  <2>1. draft \in Draft /\ draft' \in Draft /\ draft'.selections = draft.selections
    BY <1>8 DEF ClearLooksText, Open, Draft
  <2> QED BY <1>3, <1>8, <2>1, RecordAssumption DEF ClearLooksText
<1>9. Revalidated.selections = persona.selections
  BY DEF Revalidated, Persona
<1>10. ASSUME \/ ClearStoryText \/ RevalidateName
              \/ \E u \in Texts : SetStoryText(u) \/ \E i \in BOOLEAN : SetName(u, i)
       PROVE  Held
  BY <1>2, <1>9, <1>10 DEF ClearStoryText, RevalidateName, SetStoryText, SetName, Persona
<1>11. ASSUME OpenDraft PROVE Held
  <2>1. activeVersion \in DOMAIN versions
    BY <1>11, LenProperties DEF OpenDraft, NeverStranded
  <2>2. draft'.selections = versions[activeVersion].selections
    BY <1>11 DEF OpenDraft
  <2> QED BY <1>1, <1>11, <2>1, <2>2 DEF OpenDraft, HeldSelections, Open
<1>12. ASSUME NEW i \in BOOLEAN, Finalize(i) PROVE Held
  <2>1. persona'.selections = persona.selections
    BY <1>9, <1>12 DEF Finalize
  <2>2. Committed \in Version
    BY <1>12 DEF Finalize, Open, Committed, Draft, Version
  <2>3. \A j \in DOMAIN versions' :
          \/ j \in DOMAIN versions /\ versions'[j] = versions[j]
          \/ versions'[j] = Committed
    BY <1>12, <2>2, AppendProperties, LenProperties DEF Finalize
  <2>4. Committed.selections = draft.selections
    BY DEF Committed
  <2> QED BY <1>1, <1>12, <2>1, <2>3, <2>4 DEF Finalize, HeldSelections, Open
<1>13. ASSUME \/ \E a \in Ages : SetAge(a)
              \/ \E r \in Ratings : RaiseRating(r)
              \/ \E cat \in Catalogs : Restart(cat)
              \/ UNCHANGED vars
       PROVE  Held
  BY <1>2, <1>13 DEF SetAge, RaiseRating, Restart, vars
<1> QED
  BY <1>5, <1>6, <1>7, <1>8, <1>10, <1>11, <1>12, <1>13 DEF Next

(* A new record holds no pick.                                             *)
LEMMA NothingHeldInitially == Init => \A s \in HeldSelections, g \in GroupIds : s[g] = {}
BY DEF Init, HeldSelections, EmptyDraft, EmptyPersona, NoSelections, Open

(* The rating only rises.                                                  *)
LEMMA RatingRises == Structure /\ [Next]_vars => AtMost(rating, rating')
<1> SUFFICES ASSUME Structure, [Next]_vars PROVE AtMost(rating, rating')
  OBVIOUS
<1>1. rating' = rating => AtMost(rating, rating')
  BY DEF Structure, TypeOK, AtMost, RatingOrder, Ratings
<1> QED BY <1>1 DEF Next, vars, SetAge, RaiseRating, ClearSelection, SetSelection, SetLooksText,
       SetStoryText, EditAppearanceParagraph, SetName, ClearLooksText, ClearStoryText,
       RevalidateName, OpenDraft, Finalize, Restart

(* The rating a catalog gives to an option it defines is a rating.         *)
LEMMA OptionRated ==
  ASSUME NEW c \in Catalogs, NEW g, NEW o, Defines(c, g, o)
  PROVE  c[g].options[o].rating \in Ratings
<1>1. IsGroup(c[g])
  BY CatalogAssumption DEF Defines, IsCatalog
<1>2. c[g].options[o] \in Option
  BY <1>1 DEF Defines, IsGroup
<1> QED BY <1>2 DEF Option

(* A held pick was admissible when written, and the rating only rises.     *)
LEMMA RatingCoveredStep == Structure /\ RatingCovered /\ [Next]_vars => RatingCovered'
<1> SUFFICES ASSUME Structure, RatingCovered, [Next]_vars,
                    NEW s \in HeldSelections', NEW g \in GroupIds, NEW o \in s[g],
                    NEW c \in Catalogs, Defines(c, g, o), ~ReRated(g, o)
             PROVE  AtMost(c[g].options[o].rating, rating')
  BY DEF RatingCovered
<1>1. rating \in Ratings /\ rating' \in Ratings /\ catalog \in Catalogs
  BY StructureStep DEF Structure, TypeOK
<1>2. c[g].options[o].rating \in Ratings
  BY OptionRated
<1>3. AtMost(c[g].options[o].rating, rating)
  <2>1. CASE \E h \in HeldSelections : o \in h[g]
    BY <2>1 DEF RatingCovered
  <2>2. CASE PickAllowed(catalog, g, o, rating, Previous(g), FALSE)
    BY <1>1, <2>2 DEF PickAllowed, ReRated
  <2> QED BY <2>1, <2>2, PicksEnterThroughGate
<1> QED BY <1>1, <1>2, <1>3, RatingRises, AtMostTransitive

(* No pick anywhere in a record is rated above the record's rating, for    *)
(* every set of catalogs the process may be restarted with.                *)
THEOREM RatingAlwaysCovered == Spec => []RatingCovered
<1>1. Init => RatingCovered
  BY NothingHeldInitially DEF RatingCovered
<1> QED BY <1>1, StructureInvariant, RatingCoveredStep, PTL DEF Spec

(* No release gives a group the record holds a pick of to the session.     *)
NoSessionHeld ==
  \A s \in HeldSelections : \A c \in Catalogs : NoSessionValues(c, s)

(* The gate never resolves a session group, so no call stores its picks.   *)
LEMMA NoSessionStep == Structure /\ NoSessionHeld /\ [Next]_vars => NoSessionHeld'
<1> SUFFICES ASSUME Structure, NoSessionHeld, [Next]_vars,
                    NEW s \in HeldSelections', NEW c \in Catalogs,
                    NEW g \in DOMAIN c, c[g].home = "session", s[g] # {}
             PROVE  FALSE
  BY DEF NoSessionHeld, NoSessionValues
<1>1. g \in GroupIds /\ catalog \in Catalogs
  BY CatalogAssumption DEF IsCatalog, Structure, TypeOK
<1>2. PICK o \in s[g] : TRUE
  OBVIOUS
<1>3. CASE \E h \in HeldSelections : o \in h[g]
  BY <1>3 DEF NoSessionHeld, NoSessionValues
<1>4. CASE ResolveGroup(catalog, g)
  BY <1>1, <1>4, StableShape DEF ResolveGroup
<1> QED BY <1>1, <1>3, <1>4, PicksEnterThroughGate

(* What one process saved, the strict loader of the next accepts, under    *)
(* any catalog that keeps a group's home.                                  *)
THEOREM RecordAlwaysReloads == Spec => []RecordReloads
<1>1. Init => NoSessionHeld
  <2> SUFFICES ASSUME Init, NEW c \in Catalogs, NEW g \in DOMAIN c, NEW s \in HeldSelections
               PROVE  s[g] = {}
    BY DEF NoSessionHeld, NoSessionValues
  <2>1. g \in GroupIds
    BY CatalogAssumption DEF IsCatalog
  <2> QED BY <2>1, NothingHeldInitially
<1>2. Structure /\ NoSessionHeld => RecordReloads
  <2> SUFFICES ASSUME Structure, NoSessionHeld, NEW c \in Catalogs PROVE LoadRecord(c)
    BY DEF RecordReloads
  <2>1. CheckAge(age) /\ rating \in Ratings
    BY DEF Structure, TypeOK, CheckAge
  <2>2. IF activeVersion = 0 THEN versions = <<>> ELSE activeVersion \in DOMAIN versions
    BY LenProperties, EmptySeq DEF Structure, TypeOK, NeverStranded
  <2>3. /\ \A i \in DOMAIN versions : NoSessionValues(c, versions[i].selections)
        /\ Open => NoSessionValues(c, draft.selections)
        /\ NoSessionValues(c, persona.selections)
    BY DEF NoSessionHeld, HeldSelections
  <2> QED BY <2>1, <2>2, <2>3 DEF LoadRecord, Structure, NameMarked
<1> QED BY <1>1, <1>2, StructureInvariant, NoSessionStep, PTL DEF Spec
(***************************************************************************)
(* Action properties.  Only a selection write, a reopened draft and a      *)
(* commit change a layer's selections.                                     *)
(***************************************************************************)

(* What may change the selections of a layer: the write of one pick, the   *)
(* clearing of one group, a reopening, a commit; nothing else does.        *)
LEMMA SelectionsChange ==
  ASSUME Structure, [Next]_vars
  PROVE  \/ /\ persona'.selections = persona.selections
            /\ \/ draft' = draft
               \/ /\ Open /\ draft' # NoDraft
                  /\ draft'.selections = draft.selections
         \/ \E g \in GroupIds, ids \in SUBSET OptionIds :
              SetSelection(g, ids) \/ (ClearSelection(g) /\ ids = {})
         \/ OpenDraft
         \/ \E installed \in BOOLEAN : Finalize(installed)
<1> USE DEF Structure, TypeOK
<1> DEFINE Same == persona'.selections = persona.selections
                     /\ \/ draft' = draft
                        \/ Open /\ draft' # NoDraft /\ draft'.selections = draft.selections
<1>1. ASSUME NEW u \in Texts, SetLooksText(u) \/ EditAppearanceParagraph(u) PROVE Same
  <2>1. draft' \in Draft /\ draft'.selections = draft.selections
    BY <1>1 DEF SetLooksText, EditAppearanceParagraph, Open, Draft
  <2> QED BY <1>1, <2>1, RecordAssumption DEF SetLooksText, EditAppearanceParagraph
<1>2. ASSUME ClearLooksText PROVE Same
  <2>1. draft' \in Draft /\ draft'.selections = draft.selections
    BY <1>2 DEF ClearLooksText, Open, Draft
  <2> QED BY <1>2, <2>1, RecordAssumption DEF ClearLooksText
<1>3. ASSUME \/ ClearStoryText \/ RevalidateName
             \/ \E u \in Texts : SetStoryText(u) \/ \E i \in BOOLEAN : SetName(u, i)
      PROVE  Same
  BY <1>3 DEF ClearStoryText, RevalidateName, Revalidated, SetStoryText, SetName, Persona
<1>4. ASSUME \/ \E a \in Ages : SetAge(a)
             \/ \E r \in Ratings : RaiseRating(r)
             \/ \E cat \in Catalogs : Restart(cat)
             \/ UNCHANGED vars
      PROVE  Same
  BY <1>4 DEF SetAge, RaiseRating, Restart, vars
<1> QED BY <1>1, <1>2, <1>3, <1>4 DEF Next

(* A write lets a retired option through only if its group holds it already.*)
LEMMA RetiredNeverNewStep ==
  ASSUME Structure, [Next]_vars, NEW g \in GroupIds, NEW o \in OptionIds,
         Retired(catalog, g, o)
  PROVE  /\ o \in persona'.selections[g] => o \in persona.selections[g]
         /\ draft' # NoDraft /\ o \in draft'.selections[g] => o \in IdentityValues(TRUE)[g]
<1> USE DEF Structure, TypeOK
<1>1. Open => IdentityValues(TRUE) = draft.selections
  BY DEF IdentityValues
<1>2. ASSUME NEW k \in GroupIds, NEW ids \in SUBSET OptionIds,
             WritePick(k, ids), Writable(k),
             k = g /\ o \in ids => o \in Previous(g)
      PROVE  /\ o \in persona'.selections[g] => o \in persona.selections[g]
             /\ draft' # NoDraft /\ o \in draft'.selections[g] => o \in IdentityValues(TRUE)[g]
  <2>1. CASE catalog[k].home = "identity"
    <3>1. draft.selections \in Selections /\ persona' = persona
            /\ draft'.selections = [draft.selections EXCEPT ![k] = ids] /\ Open
      BY <1>2, <2>1, WritePickEffect DEF Draft
    <3>2. o \in draft'.selections[g] => o \in draft.selections[g]
      BY <1>2, <2>1, <3>1 DEF Previous, Selections
    <3> QED BY <1>1, <3>1, <3>2
  <2>2. CASE catalog[k].home # "identity"
    <3>1. persona.selections \in Selections /\ draft' = draft
            /\ persona'.selections = [persona.selections EXCEPT ![k] = ids]
      BY <1>2, <2>2, WritePickEffect DEF Persona
    <3>2. o \in persona'.selections[g] => o \in persona.selections[g]
      BY <1>2, <2>2, <3>1 DEF Previous, Selections
    <3> QED BY <1>1, <3>1, <3>2 DEF Open
  <2> QED BY <2>1, <2>2
<1>3. ASSUME NEW k \in GroupIds, NEW ids \in SUBSET OptionIds,
             SetSelection(k, ids) \/ (ClearSelection(k) /\ ids = {})
      PROVE  /\ o \in persona'.selections[g] => o \in persona.selections[g]
             /\ draft' # NoDraft /\ o \in draft'.selections[g] => o \in IdentityValues(TRUE)[g]
  <2>1. WritePick(k, ids) /\ Writable(k)
    BY <1>3 DEF SetSelection, ClearSelection
  <2>2. k = g /\ o \in ids => o \in Previous(g)
    BY <1>3 DEF SetSelection, CheckSelection, PickAllowed
  <2> QED BY <1>2, <2>1, <2>2
<1>4. ASSUME OpenDraft
      PROVE  /\ persona' = persona
             /\ draft'.selections = IdentityValues(TRUE)
  BY <1>4 DEF OpenDraft, IdentityValues, NeverStranded, Open
<1>5. ASSUME NEW installed \in BOOLEAN, Finalize(installed)
      PROVE  persona'.selections = persona.selections /\ draft' = NoDraft
  BY <1>5 DEF Finalize, Revalidated, Persona
<1> QED BY <1>1, <1>3, <1>4, <1>5, SelectionsChange DEF Open

(* A retired option never newly enters a layer of a record, by any call,   *)
(* under any catalog.                                                      *)
THEOREM RetiredNeverEnters == Spec => RetiredNeverNew
<1>1. Structure /\ [Next]_vars =>
        [\A g \in GroupIds, o \in OptionIds : Retired(catalog, g, o) =>
           /\ o \in persona'.selections[g] => o \in persona.selections[g]
           /\ draft' # NoDraft /\ o \in draft'.selections[g]
                => o \in IdentityValues(TRUE)[g]]_vars
  BY RetiredNeverNewStep
<1> QED BY <1>1, StructureInvariant, PTL DEF Spec, RetiredNeverNew

(* A write resolves its group first, and a commit resolves every held one. *)
LEMMA OrphansInertStep ==
  ASSUME Structure, [Next]_vars, NEW g \in GroupIds \ DOMAIN catalog
  PROVE  /\ persona'.selections[g] = persona.selections[g]
         /\ Open /\ draft.selections[g] # {} =>
              draft' # NoDraft /\ draft'.selections[g] = draft.selections[g]
<1> USE DEF Structure, TypeOK
<1>1. ASSUME NEW k \in GroupIds, NEW ids \in SUBSET OptionIds,
             SetSelection(k, ids) \/ (ClearSelection(k) /\ ids = {})
      PROVE  /\ persona'.selections[g] = persona.selections[g]
             /\ Open => draft' # NoDraft /\ draft'.selections[g] = draft.selections[g]
  <2>1. WritePick(k, ids) /\ Writable(k) /\ k # g
    BY <1>1 DEF SetSelection, ClearSelection, ResolveGroup
  <2>2. CASE catalog[k].home = "identity"
    BY <2>1, <2>2, WritePickEffect DEF Draft, Selections
  <2>3. CASE catalog[k].home # "identity"
    BY <2>1, <2>3, WritePickEffect DEF Persona, Selections, Open
  <2> QED BY <2>2, <2>3
<1>2. ASSUME OpenDraft PROVE persona' = persona /\ ~Open
  BY <1>2 DEF OpenDraft
<1>3. ASSUME NEW installed \in BOOLEAN, Finalize(installed)
      PROVE  persona'.selections = persona.selections /\ draft.selections[g] = {}
  <2>1. persona'.selections = persona.selections
    BY <1>3 DEF Finalize, Revalidated, Persona
  <2>2. draft.selections[g] # {} => ResolveGroup(catalog, g)
    BY <1>3 DEF Finalize, CheckFullState, CheckSelection
  <2> QED BY <2>1, <2>2 DEF ResolveGroup
<1> QED BY <1>1, <1>2, <1>3, SelectionsChange DEF Open

(* The picks of a group the catalog does not know are never changed and    *)
(* never committed, whatever is called.                                    *)
THEOREM OrphansAlwaysInert == Spec => OrphansInert
<1>1. Structure /\ [Next]_vars =>
        [\A g \in GroupIds \ DOMAIN catalog :
           /\ persona'.selections[g] = persona.selections[g]
           /\ Open /\ draft.selections[g] # {} =>
                draft' # NoDraft /\ draft'.selections[g] = draft.selections[g]]_vars
  BY OrphansInertStep
<1> QED BY <1>1, StructureInvariant, PTL DEF Spec, OrphansInert

(* A combined state that passes the full check is whole.                   *)
LEMMA FullStateIsWhole ==
  ASSUME NEW cat \in Catalogs, NEW a, NEW r, NEW identity \in Selections,
         NEW layer \in Selections, CheckFullState(cat, a, r, identity, layer)
  PROVE  LET live == Overlay(identity, layer)
         IN  /\ \A g \in GroupIds : live[g] # {} =>
                  /\ g \in DOMAIN cat
                  /\ \A o \in live[g] : Defines(cat, g, o)
                  /\ VisibleNow(cat, g, live)
             /\ RequiredFilled(cat, live)
<1> DEFINE live == Overlay(identity, layer)
<1>1. RequiredFilled(cat, live)
  BY DEF CheckFullState
<1>2. ASSUME NEW g \in GroupIds, live[g] # {}
      PROVE  /\ g \in DOMAIN cat
             /\ \A o \in live[g] : Defines(cat, g, o)
             /\ VisibleNow(cat, g, live)
  <2>1. live[g] = IF layer[g] # {} THEN layer[g] ELSE identity[g]
    BY <1>2 DEF Overlay
  <2>2. \A l \in {identity, layer} : l[g] # {} => CheckSelection(cat, g, l[g], r, {}, live, TRUE)
    BY DEF CheckFullState
  <2>3. CheckSelection(cat, g, live[g], r, {}, live, TRUE)
    BY <1>2, <2>1, <2>2
  <2> QED BY <2>3 DEF CheckSelection, ResolveGroup, PickAllowed
<1> QED BY <1>1, <1>2

(* Only a commit touches the history.                                      *)
LEMMA VersionsKept ==
  ASSUME [Next]_vars
  PROVE  versions' = versions \/ \E installed \in BOOLEAN : Finalize(installed)
<1>1. ASSUME NEW g \in GroupIds,
             ClearSelection(g) \/ \E ids \in SUBSET OptionIds : SetSelection(g, ids)
      PROVE  versions' = versions
  BY <1>1 DEF ClearSelection, SetSelection
<1>2. ASSUME NEW t \in Texts,
             \/ SetLooksText(t) \/ SetStoryText(t) \/ EditAppearanceParagraph(t)
             \/ \E installed \in BOOLEAN : SetName(t, installed)
      PROVE  versions' = versions
  BY <1>2 DEF SetLooksText, SetStoryText, EditAppearanceParagraph, SetName
<1>3. ASSUME \/ ClearLooksText \/ ClearStoryText \/ RevalidateName \/ OpenDraft
             \/ \E a \in Ages : SetAge(a)
             \/ \E r \in Ratings : RaiseRating(r)
             \/ \E cat \in Catalogs : Restart(cat)
             \/ UNCHANGED vars
      PROVE  versions' = versions
  BY <1>3 DEF ClearLooksText, ClearStoryText, RevalidateName, OpenDraft, SetAge, RaiseRating,
     Restart, vars
<1> QED BY <1>1, <1>2, <1>3 DEF Next

(* Version i of the record is committed, and is v.                         *)
CommittedAs(i, v) == i \in 1 .. Len(versions) /\ versions[i] = v

(* A commit adds behind what is there.                                     *)
LEMMA CommittedStep ==
  ASSUME NEW i, NEW v, Structure, [Next]_vars, CommittedAs(i, v)
  PROVE  CommittedAs(i, v)'
<1>1. CASE versions' = versions
  BY <1>1 DEF CommittedAs
<1>2. ASSUME NEW installed \in BOOLEAN, Finalize(installed) PROVE CommittedAs(i, v)'
  <2>1. Committed \in Version
    BY <1>2 DEF Structure, TypeOK, Finalize, Open, Committed, Draft, Version
  <2>2. /\ Len(versions') = Len(versions) + 1
        /\ \A k \in 1 .. Len(versions) : versions'[k] = versions[k]
    BY <1>2, <2>1, AppendProperties DEF Structure, TypeOK, Finalize
  <2>3. Len(versions) \in Nat
    BY LenProperties DEF Structure, TypeOK
  <2> QED BY <2>2, <2>3 DEF CommittedAs
<1> QED BY <1>1, <1>2, VersionsKept

(* A committed identity version is there for good: no later edit, commit,  *)
(* reopened draft or reload under another catalog changes it, renumbers it *)
(* or takes it away (N1: identity versions are immutable).                 *)
THEOREM CommittedForGood ==
  ASSUME NEW i, NEW v
  PROVE  Spec => [](CommittedAs(i, v) => []CommittedAs(i, v))
<1>1. Structure /\ CommittedAs(i, v) /\ [Next]_vars => CommittedAs(i, v)'
  BY CommittedStep
<1> QED BY <1>1, StructureInvariant, PTL DEF Spec

(* What a record was rated for once, it is rated for ever: whatever was    *)
(* admissible under its rating stays so, across edits and reloads.         *)
THEOREM RatedForGood ==
  ASSUME NEW r \in Ratings
  PROVE  Spec => [](AtMost(r, rating) => []AtMost(r, rating))
<1>1. Structure /\ AtMost(r, rating) /\ [Next]_vars => AtMost(r, rating')
  <2> SUFFICES ASSUME Structure, AtMost(r, rating), [Next]_vars PROVE AtMost(r, rating')
    OBVIOUS
  <2>1. Structure'
    BY StructureStep
  <2>2. rating \in Ratings /\ rating' \in Ratings
    BY <2>1 DEF Structure, TypeOK
  <2> QED BY <2>2, RatingRises, AtMostTransitive
<1>2. AtMost(r, rating)' <=> AtMost(r, rating')
  BY DEF AtMost, RatingOrder
<1> QED BY <1>1, <1>2, StructureInvariant, PTL DEF Spec

(* What the full check accepted is what the commit makes live.             *)
LEMMA CommitStep ==
  ASSUME Structure, [Next]_vars, Len(versions') > Len(versions)
  PROVE  LiveWhole'
<1> USE DEF Structure, TypeOK
<1>1. Len(versions) \in Nat
  BY LenProperties
<1>2. PICK installed \in BOOLEAN : Finalize(installed)
  <2>1. versions' # versions
    BY <1>1
  <2> QED BY <2>1, VersionsKept
<1>3. draft.selections \in Selections /\ persona.selections \in Selections
  BY <1>2 DEF Finalize, Open, Draft, Persona
<1>4. Committed \in Version
  BY <1>2 DEF Finalize, Open, Committed, Draft, Version
<1>5. versions'[activeVersion'].selections = draft.selections
  BY <1>2, <1>4, AppendProperties DEF Finalize, Committed
<1>6. persona'.selections = persona.selections /\ catalog' = catalog
  BY <1>2 DEF Finalize, Revalidated, Persona
<1>7. CurrentValues(FALSE)' = Overlay(draft.selections, persona.selections)
  <2>1. activeVersion' # 0 /\ draft' = NoDraft
    BY <1>1, <1>2 DEF Finalize
  <2>2. IdentityValues(FALSE)' = draft.selections
    BY <1>5, <2>1 DEF IdentityValues, Open
  <2>3. CurrentValues(FALSE)' = Overlay(IdentityValues(FALSE)', persona'.selections)
    BY DEF CurrentValues, Overlay
  <2> QED BY <1>6, <2>2, <2>3
<1>8. CheckFullState(catalog, age, rating, draft.selections, persona.selections)
  BY <1>2 DEF Finalize
<1> DEFINE live == Overlay(draft.selections, persona.selections)
<1>9. /\ \A g \in GroupIds : live[g] # {} =>
           /\ g \in DOMAIN catalog
           /\ \A o \in live[g] : Defines(catalog, g, o)
           /\ VisibleNow(catalog, g, live)
      /\ RequiredFilled(catalog, live)
  BY <1>3, <1>8, FullStateIsWhole
<1> HIDE DEF live
<1>10. CurrentValues(FALSE)' = live
  BY <1>7 DEF live
<1> QED BY <1>6, <1>9, <1>10 DEF LiveWhole, Defines, VisibleNow, RequiredFilled

(* A commit makes the live character whole, for every catalog.             *)
THEOREM CommitAlwaysWhole == Spec => CommitIsWhole
<1>1. Structure /\ [Next]_vars => [Len(versions') > Len(versions) => LiveWhole']_vars
  BY CommitStep
<1> QED BY <1>1, StructureInvariant, PTL DEF Spec, CommitIsWhole
(***************************************************************************)
(* The two layers stay apart, and so a required group can be filled.       *)
(***************************************************************************)
IdentityLayers ==
  {versions[i].selections : i \in DOMAIN versions}
    \cup (IF Open THEN {draft.selections} ELSE {})

(* An identity layer holds picks of identity groups only.                  *)
LayersApart ==
  \A s \in IdentityLayers : \A c \in Catalogs : \A g \in DOMAIN c :
    s[g] # {} => c[g].home = "identity"

(* A new record holds no identity picks.                                   *)
LEMMA LayersApartInit == Init => LayersApart
<1> SUFFICES ASSUME Init, NEW s \in IdentityLayers, NEW c \in Catalogs, NEW g \in DOMAIN c
             PROVE  s[g] = {}
  BY DEF LayersApart
<1>1. g \in GroupIds
  BY CatalogAssumption DEF IsCatalog
<1>2. s \in HeldSelections
  BY DEF IdentityLayers, HeldSelections
<1> QED BY <1>1, <1>2, NothingHeldInitially

(* Only picks of identity groups enter the identity layer.                 *)
LEMMA LayersApartStep == Structure /\ LayersApart /\ [Next]_vars => LayersApart'
<1> SUFFICES ASSUME Structure, LayersApart, [Next]_vars, NEW s \in IdentityLayers',
                    NEW c \in Catalogs, NEW g \in DOMAIN c, s[g] # {}
             PROVE  c[g].home = "identity"
  BY DEF LayersApart
<1> USE DEF Structure, TypeOK
<1>1. g \in GroupIds /\ catalog \in Catalogs
  BY CatalogAssumption DEF IsCatalog
<1>2. s \in IdentityLayers => c[g].home = "identity"
  BY DEF LayersApart
<1>3. ASSUME NEW installed \in BOOLEAN, Finalize(installed) PROVE s \in IdentityLayers
  <2>1. Committed \in Version
    BY <1>3 DEF Finalize, Open, Committed, Draft, Version
  <2>2. \A j \in DOMAIN versions' :
          \/ j \in DOMAIN versions /\ versions'[j] = versions[j]
          \/ versions'[j] = Committed
    BY <1>3, <2>1, AppendProperties, LenProperties DEF Finalize
  <2> QED BY <1>3, <2>2 DEF Finalize, Committed, IdentityLayers, Open
<1>4. ASSUME OpenDraft PROVE s \in IdentityLayers
  <2>1. activeVersion \in DOMAIN versions
    BY <1>4, LenProperties DEF OpenDraft, NeverStranded
  <2> QED BY <1>4, <2>1 DEF OpenDraft, IdentityLayers, Open
<1>5. ASSUME NEW k \in GroupIds, NEW ids \in SUBSET OptionIds,
             SetSelection(k, ids) \/ (ClearSelection(k) /\ ids = {})
      PROVE  c[g].home = "identity"
  <2>1. WritePick(k, ids) /\ Writable(k) /\ versions' = versions /\ k \in DOMAIN catalog
    BY <1>5 DEF SetSelection, ClearSelection, ResolveGroup
  <2>2. CASE catalog[k].home # "identity"
    BY <1>2, <2>1, <2>2, WritePickEffect DEF IdentityLayers, Open
  <2>3. CASE catalog[k].home = "identity"
    <3>1. draft.selections \in Selections /\ draft.selections \in IdentityLayers
      BY <2>1, <2>3, WritePickEffect DEF Draft, IdentityLayers
    <3>2. s \in IdentityLayers \/ s = [draft.selections EXCEPT ![k] = ids]
      BY <2>1, <2>3, WritePickEffect DEF IdentityLayers, Open
    <3>3. CASE s = [draft.selections EXCEPT ![k] = ids] /\ k = g
      BY <1>1, <2>1, <2>3, <3>3, StableShape
    <3>4. CASE s = [draft.selections EXCEPT ![k] = ids] /\ k # g
      <4>1. s[g] = draft.selections[g]
        BY <1>1, <3>1, <3>4 DEF Selections
      <4> QED BY <3>1, <4>1 DEF LayersApart
    <3> QED BY <1>2, <3>2, <3>3, <3>4
  <2> QED BY <2>2, <2>3
<1>6. versions' = versions /\ draft' = draft => s \in IdentityLayers
  BY DEF IdentityLayers, Open
<1>7. versions' = versions /\ Open /\ draft' # NoDraft /\ draft'.selections = draft.selections
        => s \in IdentityLayers
  BY DEF IdentityLayers, Open
<1> QED BY <1>2, <1>3, <1>4, <1>5, <1>6, <1>7, SelectionsChange, VersionsKept

(* With the layers apart, the basis of the setter and the basis of the commit*)
(* agree on every group that does not look across the layers.              *)
LEMMA RequiredSettableHolds == Structure /\ LayersApart => RequiredSettable
<1> SUFFICES ASSUME Structure, LayersApart, NEW g \in DOMAIN catalog, Open, SelfContained(g),
                    catalog[g].required,
                    VisibleNow(catalog, g, Overlay(draft.selections, persona.selections))
             PROVE  VisibleNow(catalog, g, CurrentValues(catalog[g].home = "identity"))
  BY DEF RequiredSettable
<1> USE DEF Structure, TypeOK
<1>1. catalog \in Catalogs
  OBVIOUS
<1>2. CASE catalog[g].home = "identity"
  <2>1. CurrentValues(TRUE) = Overlay(draft.selections, persona.selections)
    BY DEF CurrentValues, IdentityValues
  <2> QED BY <1>2, <2>1
<1>3. CASE catalog[g].when.op = "always"
  BY <1>3 DEF VisibleNow
<1>4. CASE catalog[g].home # "identity" /\ catalog[g].when.op # "always"
  <2> DEFINE k == catalog[g].when.group
  <2>1. k \in DOMAIN catalog /\ k \in GroupIds /\ catalog[g].home \in Homes
    BY <1>1, <1>4, CatalogAssumption DEF CatalogLaws, IsCatalog, IsGroup
  <2>2. catalog[g].home = "persona"
    BY <1>1, <1>4, <2>1, CatalogAssumption DEF CatalogLaws, Homes
  <2>3. catalog[k].home = "persona"
    BY <1>4, <2>2 DEF SelfContained
  <2>4. \A s \in IdentityLayers : s[k] = {}
    BY <1>1, <2>1, <2>3 DEF LayersApart
  <2>5. draft.selections[k] = {}
    BY <2>4 DEF IdentityLayers
  <2>6. IdentityValues(FALSE)[k] = {}
    <3>1. CASE activeVersion = 0
      BY <2>5, <3>1 DEF IdentityValues
    <3>2. CASE activeVersion # 0
      <4>1. activeVersion \in DOMAIN versions
        BY <3>2, LenProperties DEF NeverStranded
      <4> QED BY <2>4, <3>2, <4>1 DEF IdentityValues, IdentityLayers
    <3> QED BY <3>1, <3>2
  <2>7. CurrentValues(FALSE)[k] = Overlay(draft.selections, persona.selections)[k]
    BY <2>1, <2>5, <2>6 DEF CurrentValues, Overlay
  <2>8. (catalog[g].home = "identity") = FALSE
    BY <1>4
  <2>9. VisibleNow(catalog, g, CurrentValues(FALSE))
    BY <2>7 DEF VisibleNow
  <2> QED BY <2>8, <2>9
<1> QED BY <1>2, <1>3, <1>4

(* A required group that blocks the commit can be filled: its own setter   *)
(* sees it too, unless it is a persona group that looks at identity.       *)
THEOREM RequiredAlwaysSettable == Spec => []RequiredSettable
BY LayersApartInit, LayersApartStep, RequiredSettableHolds, StructureInvariant, PTL DEF Spec

============================================================================

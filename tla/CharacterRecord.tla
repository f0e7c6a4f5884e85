-------------------------- MODULE CharacterRecord --------------------------
(***************************************************************************)
(* One character record and its mutation surface: the header (age,         *)
(* rating), the append-only identity versions, the at-most-one draft of    *)
(* the next version, and the persona block, which is never versioned.      *)
(*                                                                         *)
(* A mutation that the code refuses leaves the record as it was, so each   *)
(* action's guard is the condition under which its mutation is accepted.   *)
(* The record is between two calls of its API; how calls interleave and    *)
(* how the file is written is the record store's concern.                  *)
(***************************************************************************)
EXTENDS ConstructionGate, SafetyFilter, Sequences

CONSTANTS
  Ages,         \* the ages a caller submits, lawful or not
  Shape,        \* Shape[t]: length, blankness and alphabet of a text
  NoText,       \* an absent text
  NoDraft,      \* no draft is open
  MaxVersions   \* bound: committed versions in a behaviour

FREE_TEXT_MAX_CHARS == 240
PARAGRAPH_MAX_CHARS == 1200
NAME_MAX_CHARS == 60

Version == [selections : Selections, looks : Texts \cup {NoText},
            paragraph : Texts \cup {NoText}, author : {"drafter", "user"}]

Draft == [selections : Selections, looks : Texts \cup {NoText},
          edit : Texts \cup {NoText}]

Persona == [name : Texts \cup {NoText}, nameSafety : {"pending", "clear", "none"},
            selections : Selections, story : Texts \cup {NoText}]

ASSUME RecordAssumption ==
  /\ Catalogs # {}
  /\ Ages \subseteq Int
  /\ Shape \in [Texts -> [chars : Nat, blank : BOOLEAN, nameAlphabet : BOOLEAN]]
  /\ NoText \notin Texts
  /\ NoDraft \notin Draft
  /\ MaxVersions \in Nat

VARIABLES
  catalog,        \* the catalog the running process loaded
  age,
  rating,
  versions,       \* committed identity versions, oldest first
  activeVersion,  \* number of the live version, 0 while there is none
  draft,          \* the working copy of the next version, or NoDraft
  persona

vars == <<catalog, age, rating, versions, activeVersion, draft, persona>>

EmptyDraft == [selections |-> NoSelections, looks |-> NoText, edit |-> NoText]

EmptyPersona == [name |-> NoText, nameSafety |-> "none",
                 selections |-> NoSelections, story |-> NoText]

(* CharacterRecord.create: age gated, rating at the floor, a draft open.   *)
Init ==
  /\ catalog \in Catalogs
  /\ age \in {a \in Ages : CheckAge(a)}
  /\ rating = "standard"
  /\ versions = <<>>
  /\ activeVersion = 0
  /\ draft = EmptyDraft
  /\ persona = EmptyPersona

(***************************************************************************)
(* Working views.                                                          *)
(***************************************************************************)
Open == draft # NoDraft

(* Mutant: the working view is ignored, the live version always wins.      *)
IdentityValues_Live(working) ==
  IF activeVersion # 0 THEN versions[activeVersion].selections
  ELSE IF Open THEN draft.selections
  ELSE NoSelections

(* The identity layer a reader sees: the draft when the working view is    *)
(* asked for, else the active version, the draft only before there is one. *)
IdentityValues(working) ==
  IF Open /\ (working \/ activeVersion = 0) THEN draft.selections
  ELSE IF activeVersion # 0 THEN versions[activeVersion].selections
  ELSE NoSelections

CurrentValues(working) == Overlay(IdentityValues(working), persona.selections)

(* Mutant: a pick counts as existing when the live version holds it.       *)
Previous_Live(g) ==
  IF catalog[g].home = "identity" THEN IdentityValues(FALSE)[g] ELSE persona.selections[g]

(* The picks group g holds now, in the layer its home writes to.           *)
Previous(g) ==
  IF catalog[g].home = "identity" THEN draft.selections[g] ELSE persona.selections[g]

(* Identity writes need an open draft; persona writes need nothing.        *)
Writable(g) == catalog[g].home = "identity" => Open

(***************************************************************************)
(* Header mutations.                                                       *)
(***************************************************************************)
SetAge(a) ==
  /\ CheckAge(a)
  /\ age' = a
  /\ UNCHANGED <<catalog, rating, versions, activeVersion, draft, persona>>

RaiseRating(r) ==
  /\ AtMost(rating, r)
  /\ rating' = r
  /\ UNCHANGED <<catalog, age, versions, activeVersion, draft, persona>>

(***************************************************************************)
(* Selection mutations.                                                    *)
(***************************************************************************)
WritePick(g, ids) ==
  IF catalog[g].home = "identity"
  THEN /\ draft' = [draft EXCEPT !.selections[g] = ids]
       /\ persona' = persona
  ELSE /\ persona' = [persona EXCEPT !.selections[g] = ids]
       /\ draft' = draft

SetSelection(g, ids) ==
  /\ ResolveGroup(catalog, g)
  /\ Writable(g)
  /\ CheckSelection(catalog, g, ids, rating, Previous(g),
                    CurrentValues(catalog[g].home = "identity"), FALSE)
  /\ WritePick(g, ids)
  /\ UNCHANGED <<catalog, age, rating, versions, activeVersion>>

ClearSelection(g) ==
  /\ ResolveGroup(catalog, g)
  /\ Writable(g)
  /\ WritePick(g, {})
  /\ UNCHANGED <<catalog, age, rating, versions, activeVersion>>

(***************************************************************************)
(* The filtered text surfaces.  A free text is checked for shape and cap,  *)
(* then by the filter at the record's present rating.  Without a filter    *)
(* these setters always refuse, so they have no such case.                 *)
(***************************************************************************)
CheckFreeText(t, maxChars) ==
  /\ ~Shape[t].blank
  /\ Shape[t].chars <= maxChars
  /\ Check(t, "freetext", rating)

SetLooksText(t) ==
  /\ Open
  /\ CheckFreeText(t, FREE_TEXT_MAX_CHARS)
  /\ draft' = [draft EXCEPT !.looks = t]
  /\ UNCHANGED <<catalog, age, rating, versions, activeVersion, persona>>

ClearLooksText ==
  /\ Open
  /\ draft' = [draft EXCEPT !.looks = NoText]
  /\ UNCHANGED <<catalog, age, rating, versions, activeVersion, persona>>

SetStoryText(t) ==
  /\ CheckFreeText(t, FREE_TEXT_MAX_CHARS)
  /\ persona' = [persona EXCEPT !.story = t]
  /\ UNCHANGED <<catalog, age, rating, versions, activeVersion, draft>>

ClearStoryText ==
  /\ persona' = [persona EXCEPT !.story = NoText]
  /\ UNCHANGED <<catalog, age, rating, versions, activeVersion, draft>>

EditAppearanceParagraph(t) ==
  /\ Open
  /\ CheckFreeText(t, PARAGRAPH_MAX_CHARS)
  /\ draft' = [draft EXCEPT !.edit = t]
  /\ UNCHANGED <<catalog, age, rating, versions, activeVersion, persona>>

(***************************************************************************)
(* The name.  installed tells whether the caller passed the filter: a      *)
(* write without it stores the name as pending.                            *)
(***************************************************************************)
NameLaw(t) ==
  /\ Shape[t].chars \in 1 .. NAME_MAX_CHARS
  /\ Shape[t].nameAlphabet

(* Mutant: the name is stored as clear whoever checked it.                 *)
SetName_AlwaysClear(t, installed) ==
  /\ NameLaw(t)
  /\ installed => CheckName(t, rating)
  /\ persona' = [persona EXCEPT !.name = t, !.nameSafety = "clear"]
  /\ UNCHANGED <<catalog, age, rating, versions, activeVersion, draft>>

SetName(t, installed) ==
  /\ NameLaw(t)
  /\ installed => CheckName(t, rating)
  /\ persona' = [persona EXCEPT !.name = t,
                   !.nameSafety = IF installed THEN "clear" ELSE "pending"]
  /\ UNCHANGED <<catalog, age, rating, versions, activeVersion, draft>>

(* A name is revalidated only while it is pending; the load law makes that *)
(* imply that there is one.                                                *)
Revalidated ==
  IF persona.name = NoText THEN persona ELSE [persona EXCEPT !.nameSafety = "clear"]

NamePasses ==
  persona.nameSafety = "pending" => CheckName(persona.name, rating)

RevalidateName ==
  /\ NamePasses
  /\ persona' = Revalidated
  /\ UNCHANGED <<catalog, age, rating, versions, activeVersion, draft>>

(***************************************************************************)
(* Draft and finalization.                                                 *)
(***************************************************************************)
(* Mutant: the live version's paragraph is copied into the new draft.      *)
OpenDraft_KeepsParagraph ==
  /\ ~Open
  /\ draft' = [selections |-> versions[activeVersion].selections,
               looks |-> versions[activeVersion].looks,
               edit |-> versions[activeVersion].paragraph]
  /\ UNCHANGED <<catalog, age, rating, versions, activeVersion, persona>>

(* The code asserts that an active version exists; NeverStranded says so.  *)
OpenDraft ==
  /\ ~Open
  /\ draft' = [selections |-> versions[activeVersion].selections,
               looks |-> versions[activeVersion].looks, edit |-> NoText]
  /\ UNCHANGED <<catalog, age, rating, versions, activeVersion, persona>>

(* The version a finalization commits: the draft verbatim, its paragraph   *)
(* the user's pending edit or else the drafter's (NoText stands for the    *)
(* text the drafter derives from the selections).                          *)
Committed ==
  [selections |-> draft.selections, looks |-> draft.looks,
   paragraph |-> draft.edit,
   author |-> IF draft.edit # NoText THEN "user" ELSE "drafter"]

(* Mutant: the live pointer stays where it was.                            *)
Finalize_OldPointer(installed) ==
  /\ Open
  /\ Len(versions) < MaxVersions
  /\ CheckFullState(catalog, age, rating, draft.selections, persona.selections)
  /\ installed => NamePasses
  /\ persona' = IF installed THEN Revalidated ELSE persona
  /\ versions' = Append(versions, Committed)
  /\ activeVersion' = IF activeVersion = 0 THEN 1 ELSE activeVersion
  /\ draft' = NoDraft
  /\ UNCHANGED <<catalog, age, rating>>

Finalize(installed) ==
  /\ Open
  /\ Len(versions) < MaxVersions
  /\ CheckFullState(catalog, age, rating, draft.selections, persona.selections)
  /\ installed => NamePasses
  /\ persona' = IF installed THEN Revalidated ELSE persona
  /\ versions' = Append(versions, Committed)
  /\ activeVersion' = Len(versions) + 1
  /\ draft' = NoDraft
  /\ UNCHANGED <<catalog, age, rating>>

(***************************************************************************)
(* The process comes back with another catalog and loads the saved file.   *)
(* load_record is strict: what it would refuse keeps the record out.       *)
(***************************************************************************)
NoSessionValues(cat, selections) ==
  \A g \in DOMAIN cat : cat[g].home = "session" => selections[g] = {}

LoadRecord(cat) ==
  /\ CheckAge(age)
  /\ rating \in Ratings
  /\ \A i \in DOMAIN versions : NoSessionValues(cat, versions[i].selections)
  /\ IF activeVersion = 0 THEN versions = <<>> ELSE activeVersion \in DOMAIN versions
  /\ Open => NoSessionValues(cat, draft.selections)
  /\ NoSessionValues(cat, persona.selections)
  /\ (persona.name = NoText) <=> (persona.nameSafety = "none")

Restart(cat) ==
  /\ LoadRecord(cat)
  /\ catalog' = cat
  /\ UNCHANGED <<age, rating, versions, activeVersion, draft, persona>>

Next ==
  \/ \E a \in Ages : SetAge(a)
  \/ \E r \in Ratings : RaiseRating(r)
  \/ \E g \in GroupIds : \/ ClearSelection(g)
                         \/ \E ids \in SUBSET OptionIds : SetSelection(g, ids)
  \/ \E t \in Texts : \/ SetLooksText(t)
                      \/ SetStoryText(t)
                      \/ EditAppearanceParagraph(t)
                      \/ \E installed \in BOOLEAN : SetName(t, installed)
  \/ ClearLooksText
  \/ ClearStoryText
  \/ RevalidateName
  \/ OpenDraft
  \/ \E installed \in BOOLEAN : Finalize(installed)
  \/ \E cat \in Catalogs : Restart(cat)

Spec == Init /\ [][Next]_vars

(***************************************************************************)
(* Properties.                                                             *)
(***************************************************************************)

(* The shape of the record: every stored field has its declared form.      *)
TypeOK ==
  /\ catalog \in Catalogs
  /\ age \in AGE_FLOOR .. AGE_CEILING
  /\ rating \in Ratings
  /\ versions \in Seq(Version)
  /\ activeVersion \in Nat
  /\ draft \in Draft \cup {NoDraft}
  /\ persona \in Persona

(* The selections the record holds anywhere: in a committed version, in    *)
(* the draft, in the persona block.                                        *)
HeldSelections ==
  {versions[i].selections : i \in DOMAIN versions}
    \cup {persona.selections}
    \cup (IF Open THEN {draft.selections} ELSE {})

(* No pick held anywhere in the record, in its whole history, is rated     *)
(* above the record's present rating, under any catalog the process may    *)
(* load next, unless a release re-rates the option.  The gate compares     *)
(* ratings only when a pick is written; the draft copies, the commits and  *)
(* the ratings raised in between never check again (N4, A7).               *)
RatingCovered ==
  \A s \in HeldSelections : \A g \in GroupIds : \A o \in s[g] : \A c \in Catalogs :
    Defines(c, g, o) /\ ~ReRated(g, o) => AtMost(c[g].options[o].rating, rating)

(* Every user text the record holds, in its history or in its slots.      *)
StoredTexts ==
  {versions[i].looks : i \in DOMAIN versions}
    \cup {versions[i].paragraph : i \in DOMAIN versions}
    \cup {persona.story}
    \cup (IF Open THEN {draft.looks, draft.edit} ELSE {})

(* Every text the record holds would still pass the filter at the record's *)
(* present rating, though it was checked at the rating of an earlier time  *)
(* and has been copied from version to draft and back since (O4 F).        *)
StoredTextsPass ==
  \A t \in StoredTexts \ {NoText} : Check(t, "freetext", rating)

(* A name marked clear passes the name check at the present rating: the    *)
(* mark is never left on a name the filter has not seen or would refuse.   *)
ClearNamePasses ==
  persona.nameSafety = "clear" =>
    persona.name # NoText /\ CheckName(persona.name, rating)

(* The live version is the newest one, and without one a draft is open, so *)
(* the assertion in open_draft ("creation always leaves a draft open")     *)
(* cannot fail whatever the sequence of calls.                             *)
NeverStranded ==
  /\ activeVersion = Len(versions)
  /\ Open \/ activeVersion # 0

(* What a process saved, the strict loader of the next process accepts,    *)
(* whichever catalog that process comes up with.                           *)
RecordReloads == \A c \in Catalogs : LoadRecord(c)

(* A draft is never stuck on a required group that finalization sees and   *)
(* the setter does not: whatever visible required group lacks a value, the *)
(* setter's own visibility check lets it be filled.  Asked of identity     *)
(* groups, and of persona groups whose condition does not look at the      *)
(* identity layer; for the others the two bases differ while a version is  *)
(* live and a draft is open.                                               *)
SelfContained(g) ==
  catalog[g].home = "persona" /\ catalog[g].when.op # "always" =>
    catalog[catalog[g].when.group].home = "persona"

RequiredSettable ==
  \A g \in DOMAIN catalog :
    LET combined == Overlay(draft.selections, persona.selections)
    IN  Open /\ SelfContained(g) /\ catalog[g].required
          /\ VisibleNow(catalog, g, combined) /\ combined[g] = {}
        => VisibleNow(catalog, g, CurrentValues(catalog[g].home = "identity"))

(* A retired option enters a layer only by being there already: in the     *)
(* persona block, in the draft, or in the live version a draft is opened   *)
(* from.  Once cleared from a layer it cannot come back (Decision 6).      *)
RetiredNeverNew ==
  [][\A g \in GroupIds, o \in OptionIds : Retired(catalog, g, o) =>
       /\ o \in persona'.selections[g] => o \in persona.selections[g]
       /\ draft' # NoDraft /\ o \in draft'.selections[g]
            => o \in IdentityValues(TRUE)[g]]_vars

(* The picks of a group the loaded catalog does not know are inert: no     *)
(* call changes them in the persona block or in an open draft, and a draft *)
(* that holds one is not committed.  Restoring the option file makes the   *)
(* character whole (N9).                                                   *)
OrphansInert ==
  [][\A g \in GroupIds \ DOMAIN catalog :
       /\ persona'.selections[g] = persona.selections[g]
       /\ Open /\ draft.selections[g] # {} =>
            draft' # NoDraft /\ draft'.selections[g] = draft.selections[g]]_vars

(* The live character is whole: every live value resolves and is visible,  *)
(* and every visible required group has one.                               *)
LiveWhole ==
  LET live == CurrentValues(FALSE)
  IN  /\ \A g \in GroupIds : live[g] # {} =>
           /\ g \in DOMAIN catalog
           /\ \A o \in live[g] : Defines(catalog, g, o)
           /\ VisibleNow(catalog, g, live)
      /\ RequiredFilled(catalog, live)

(* A commit makes the live character whole: what finalization validated is *)
(* what went live, across both layers (N5).                                *)
CommitIsWhole == [][Len(versions') > Len(versions) => LiveWhole']_vars

(* The rule a comment on the draft states: user text must not survive an   *)
(* identity change it might misdescribe.  So an identity pick that changes *)
(* in the draft takes the pending paragraph edit with it.                  *)
ParagraphDroppedOnIdentityChange ==
  [][(draft # NoDraft /\ draft' # NoDraft /\ draft'.selections # draft.selections)
       => draft'.edit = NoText]_vars

(***************************************************************************)
(* The identity layer implements the abstract history: a snapshot's        *)
(* picture is its selections and its looks text.                           *)
(***************************************************************************)
SnapshotOf(selections, looks, paragraph) ==
  [picture |-> [selections |-> selections, looks |-> looks], paragraph |-> paragraph]

historyBar ==
  [i \in DOMAIN versions |->
     SnapshotOf(versions[i].selections, versions[i].looks, versions[i].paragraph)]

workingBar ==
  IF Open THEN SnapshotOf(draft.selections, draft.looks, draft.edit) ELSE NoDraft

History == INSTANCE IdentityHistory WITH
  Pictures   <- [selections : Selections, looks : Texts \cup {NoText}],
  Paragraphs <- Texts,
  Unwritten  <- NoText,
  Closed     <- NoDraft,
  history    <- historyBar,
  working    <- workingBar

ASSUME ClosedAssumption == NoDraft \notin History!Snapshot

(* The record's identity layer is the abstract history: commits append the *)
(* draft verbatim, a reopened draft starts from the newest version, and a  *)
(* user paragraph is committed only from the draft it was written in.      *)
ImplementsHistory == History!Spec

============================================================================

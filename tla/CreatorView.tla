----------------------------- MODULE CreatorView -----------------------------
(***************************************************************************)
(* The creator view: what the spine serves a client of a record's groups,  *)
(* and the value a widget sends when one of its options is toggled.        *)
(*                                                                         *)
(* The view is computed apart from the gate, from its own copy of the      *)
(* record's visibility law; nothing but agreement between the two keeps a  *)
(* client from being offered what the gate refuses.                        *)
(***************************************************************************)
EXTENDS CharacterRecord

(* Mutant: the live version is preferred for the identity groups too.      *)
IdentityBasis_LiveFirst(working) ==
  IF activeVersion # 0 THEN versions[activeVersion].selections
  ELSE IF working /\ Open THEN draft.selections
  ELSE IF Open THEN draft.selections
  ELSE NoSelections

(* The view's mirror of the record's identity layer.                       *)
IdentityBasis(working) ==
  IF working /\ Open THEN draft.selections
  ELSE IF activeVersion # 0 THEN versions[activeVersion].selections
  ELSE IF Open THEN draft.selections
  ELSE NoSelections

(* Mutant: the working flag is not passed on.                              *)
VisibilityBasis_Live(working) == Overlay(IdentityBasis(FALSE), persona.selections)

VisibilityBasis(working) == Overlay(IdentityBasis(working), persona.selections)

(* The groups the view shows: not free text, not session vocabulary,       *)
(* visible on the basis of their own layer.                                *)
Served ==
  {g \in DOMAIN catalog :
     /\ catalog[g].kind # "free_text"
     /\ catalog[g].home # "session"
     /\ VisibleNow(catalog, g, VisibilityBasis(catalog[g].home = "identity"))}

(* Mutant: an option at the record's own rating is left out.               *)
Menu_Below(g) ==
  {o \in MenuOptions(catalog, g) :
     RatingOrder[catalog[g].options[o].rating] < RatingOrder[rating]}

(* The admissible, unretired options of a served group.                    *)
Menu(g) ==
  {o \in MenuOptions(catalog, g) : AtMost(catalog[g].options[o].rating, rating)}

(* The held values of a served group, the orphaned and the retired too.    *)
Held(g) ==
  IF catalog[g].home = "identity" THEN IdentityBasis(TRUE)[g] ELSE persona.selections[g]

(* toggleValue returns null, and nothing is sent, for the option a         *)
(* pick_one group already holds.                                           *)
NothingSent(g, o) == catalog[g].kind # "pick_many" /\ o \in Held(g)

(* Otherwise pick_many sends the whole new list, pick_one the option.      *)
ToggleValue(g, o) ==
  IF catalog[g].kind # "pick_many" THEN {o}
  ELSE IF o \in Held(g) THEN Held(g) \ {o}
  ELSE Held(g) \cup {o}

(* What the gate says to it; an identity write needs a draft.              *)
Accepted(g, ids) ==
  /\ Writable(g)
  /\ CheckSelection(catalog, g, ids, rating, Previous(g),
                    CurrentValues(catalog[g].home = "identity"), FALSE)

(***************************************************************************)
(* Properties.                                                             *)
(***************************************************************************)

(* A held pick the loaded catalog no longer vouches for: it is orphaned,   *)
(* or a release re-rated it above the record.                              *)
Unvouched(g) ==
  {o \in Held(g) : ~Defines(catalog, g, o)
                   \/ ~AtMost(catalog[g].options[o].rating, rating)}

(* What the view offers, the gate accepts: with a draft open for identity  *)
(* groups, toggling any option of the menu or any held one is a lawful     *)
(* write, except where the list would be empty or over its cap, or where   *)
(* it still carries a pick the catalog no longer vouches for.              *)
OffersAccepted ==
  \A g \in Served : \A o \in Menu(g) \cup Held(g) :
    LET ids == ToggleValue(g, o)
    IN  /\ Writable(g) /\ ~NothingSent(g, o)
        /\ ids # {} /\ ids \cap Unvouched(g) = {}
        /\ catalog[g].maxPicks # 0 => Cardinality(ids) <= catalog[g].maxPicks
        => Accepted(g, ids)

(* Nothing the gate would accept is withheld: a lawful write of one option *)
(* to a group that holds nothing is on the menu of a served group.         *)
NothingWithheld ==
  \A g \in DOMAIN catalog : \A o \in DOMAIN catalog[g].options :
    ResolveGroup(catalog, g) /\ Held(g) = {} /\ Writable(g) /\ Accepted(g, {o})
      => g \in Served /\ o \in Menu(g)

(* A finalization refused for a required group that has no value can be    *)
(* answered from the view: the group is served.  Persona groups that look  *)
(* at the identity layer are left out (SelfContained): finalization sees   *)
(* them with the draft's identity, the view with the live one.             *)
BlockersServed ==
  \A g \in DOMAIN catalog :
    LET combined == Overlay(draft.selections, persona.selections)
    IN  Open /\ SelfContained(g) /\ catalog[g].required
          /\ VisibleNow(catalog, g, combined) /\ combined[g] = {}
        => g \in Served

==============================================================================

------------------------- MODULE MCCharacterRecord -------------------------
(***************************************************************************)
(* Instances of CharacterRecord for TLC: picks, texts and headers together *)
(* under one catalog, and texts alone.  Releases are in MCCreatorView.     *)
(***************************************************************************)
EXTENDS CharacterRecord

Opt(r, ret, ts) == [rating |-> r, retired |-> ret, tags |-> ts]

Always == [op |-> "always", group |-> "form", args |-> {}]

When(op, g, as) == [op |-> op, group |-> g, args |-> as]

Grp(kind, home, required, max, when, options) ==
  [kind |-> kind, home |-> home, required |-> required, maxPicks |-> max,
   when |-> when, options |-> options]

FewAges == {19, 20, 10001}
OneAge == {20}

(***************************************************************************)
(* Picks under one catalog: an ungated and a tag-gated required identity   *)
(* group, a rating-gated capped multi-pick persona group one form hides, a *)
(* required persona group that appears with any mood, a session group and  *)
(* a free-text slot.                                                       *)
(***************************************************************************)
PickGroups == {"form", "tail", "mood", "tone", "scene", "looks"}
PickOptions == {"human", "beast", "bushy", "calm", "wild", "dry", "noon"}
PickTags == {"furred"}

PickCatalog ==
  [g \in PickGroups |->
     IF g = "form"
     THEN Grp("pick_one", "identity", TRUE, 0, Always,
              [o \in {"human", "beast"} |->
                 IF o = "human" THEN Opt("standard", FALSE, {})
                 ELSE Opt("mature", FALSE, {"furred"})])
     ELSE IF g = "tail"
     THEN Grp("pick_one", "identity", TRUE, 0, When("has_tag", "form", {"furred"}),
              [o \in {"bushy"} |-> Opt("standard", FALSE, {})])
     ELSE IF g = "mood"
     THEN Grp("pick_many", "persona", FALSE, 1, When("not_in", "form", {"beast"}),
              [o \in {"calm", "wild"} |->
                 IF o = "wild" THEN Opt("explicit", FALSE, {})
                 ELSE Opt("standard", FALSE, {})])
     ELSE IF g = "tone"
     THEN Grp("pick_one", "persona", TRUE, 0, When("any", "mood", {}),
              [o \in {"dry"} |-> Opt("standard", FALSE, {})])
     ELSE IF g = "scene"
     THEN Grp("pick_one", "session", FALSE, 0, Always,
              [o \in {"noon"} |-> Opt("standard", FALSE, {})])
     ELSE Grp("free_text", "identity", FALSE, 0, Always, [o \in {} |-> {}])]

PickCatalogs == {PickCatalog}

(***************************************************************************)
(* Texts: a floor list, a list unlocked at mature, a contextual list.  One *)
(* ungrouped catalog: no picks.                                            *)
(***************************************************************************)
TextGroups == {"form"}
TextOptions == {"human"}
TextCatalogs ==
  {[g \in TextGroups |->
      Grp("pick_one", "identity", FALSE, 0, Always,
          [o \in {"human"} |-> Opt("standard", FALSE, {})])]}

MCLists == {"slurs", "drugs", "minors"}
MCMode == [l \in MCLists |-> IF l = "minors" THEN "contextual" ELSE "always"]
MCUnlockedAt == [l \in MCLists |-> IF l = "drugs" THEN "mature" ELSE Never]

\* plain, with a drug term, with a contextual term near or far from sexual
\* vocabulary, with a slur; essay is plain but over the free-text cap.
MCTexts == {"plain", "drug", "near", "far", "slur", "essay"}
FewTexts == {"drug", "near", "essay"}
TwoTexts == {"drug", "near"}
NoTexts == {}
MCHits ==
  [t \in Texts |-> IF t = "drug" THEN {"drugs"}
                   ELSE IF t \in {"near", "far"} THEN {"minors"}
                   ELSE IF t = "slur" THEN {"slurs"} ELSE {}]
MCNearHits == [t \in Texts |-> IF t = "near" THEN {"minors"} ELSE {}]
MCShape ==
  [t \in Texts |-> [chars |-> IF t = "essay" THEN 241 ELSE 5, blank |-> FALSE,
                    nameAlphabet |-> t \in {"drug", "slur"}]]

============================================================================

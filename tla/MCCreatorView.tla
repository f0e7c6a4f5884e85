---------------------------- MODULE MCCreatorView ----------------------------
(***************************************************************************)
(* Instances of CreatorView for TLC: three releases of a catalog with     *)
(* groups of both layers, one of them conditional on the other layer, that *)
(* retire, re-rate and drop what a record may hold.                        *)
(***************************************************************************)
EXTENDS CreatorView, MCCharacterRecord

ViewGroups == {"form", "crest", "mood", "scar"}
ViewOptions == {"human", "elf", "high", "calm"}

Form(options) == Grp("pick_one", "identity", TRUE, 0, Always, options)

Crest == Grp("pick_one", "identity", FALSE, 0, When("in", "form", {"elf"}),
             [o \in {"high"} |-> Opt("standard", FALSE, {})])

(* A multi-pick identity group; r is the rating of "calm".                 *)
Scar(r) == Grp("pick_many", "identity", TRUE, 1, When("not_in", "form", {"elf"}),
               [o \in {"high", "calm"} |->
                  Opt(IF o = "calm" THEN r ELSE "standard", FALSE, {})])

(* A persona group that looks at the identity layer.                       *)
Mood(r, ret) == Grp("pick_many", "persona", FALSE, 0, When("any", "form", {}),
                    [o \in {"calm", "high"} |->
                       IF o = "calm" THEN Opt(r, ret, {})
                       ELSE Opt("mature", FALSE, {})])

ViewRelease1 ==
  [g \in ViewGroups |->
     IF g = "form" THEN Form([o \in {"human", "elf"} |-> Opt("standard", FALSE, {})])
     ELSE IF g = "crest" THEN Crest
     ELSE IF g = "scar" THEN Scar("standard") ELSE Mood("standard", FALSE)]

(* elf and calm are retired, the group crest is gone.                      *)
ViewRelease2 ==
  [g \in ViewGroups \ {"crest"} |->
     IF g = "form" THEN Form([o \in {"human", "elf"} |-> Opt("standard", o = "elf", {})])
     ELSE IF g = "scar" THEN Scar("standard") ELSE Mood("standard", TRUE)]

(* The option human is lost, calm is re-rated in both its groups.          *)
ViewRelease3 ==
  [g \in ViewGroups |->
     IF g = "form" THEN Form([o \in {"elf"} |-> Opt("standard", FALSE, {})])
     ELSE IF g = "crest" THEN Crest
     ELSE IF g = "scar" THEN Scar("mature") ELSE Mood("explicit", FALSE)]

ViewCatalogs == {ViewRelease1, ViewRelease2, ViewRelease3}

==============================================================================

--------------------------- MODULE OptionCatalog ---------------------------
(***************************************************************************)
(* The merged option catalog the record layer reads: its groups, their     *)
(* options, and the one visibility evaluator.  A catalog is a value here:  *)
(* a function from the ids of the groups it defines.  The process loads    *)
(* one catalog at start, so a later start may see another one (an option   *)
(* retired, a drop-in file removed, an option re-rated).                   *)
(*                                                                         *)
(* The spine refuses to start while the loader reports any error, so every *)
(* member of Catalogs obeys the post-merge laws (CatalogLaws).             *)
(***************************************************************************)
EXTENDS Ratings, FiniteSets

CONSTANTS
  GroupIds,   \* every group id that occurs in a catalog or in a record
  OptionIds,  \* every option id
  Tags,       \* every option tag a condition may ask for
  Catalogs    \* the catalogs the process may come up with

Homes == {"identity", "persona", "session"}
Kinds == {"pick_one", "pick_many", "free_text"}
Predicates == {"always", "any", "in", "not_in", "has_tag"}

(* One selectable option.                                                  *)
Option == [rating : Ratings, retired : BOOLEAN, tags : SUBSET Tags]

(* A visible_when condition.  "always" stands for the absent condition.    *)
Condition == [op : Predicates, group : GroupIds,
              args : SUBSET (OptionIds \cup Tags)]

(* A merged group and a catalog.  maxPicks = 0 stands for an absent cap.   *)
IsGroup(grp) ==
  /\ grp.kind \in Kinds
  /\ grp.home \in Homes
  /\ grp.required \in BOOLEAN
  /\ grp.maxPicks \in Nat
  /\ grp.when \in Condition
  /\ DOMAIN grp.options \subseteq OptionIds
  /\ \A o \in DOMAIN grp.options : grp.options[o] \in Option

IsCatalog(cat) ==
  /\ DOMAIN cat \subseteq GroupIds
  /\ \A g \in DOMAIN cat : IsGroup(cat[g])

(* The loader's laws on the merged catalog, as far as the record layer     *)
(* relies on them: a condition names a group of the catalog, by the        *)
(* predicate "any" when that group is free text; required marks pick       *)
(* groups of a stored home; a pick group defines options.                  *)
CatalogLaws(cat) ==
  \A g \in DOMAIN cat :
    /\ cat[g].when.op # "always" =>
         /\ cat[g].when.group \in DOMAIN cat
         /\ cat[cat[g].when.group].kind = "free_text" => cat[g].when.op = "any"
    /\ cat[g].required => /\ cat[g].kind # "free_text"
                          /\ cat[g].home # "session"
    /\ cat[g].kind # "free_text" => DOMAIN cat[g].options # {}

ASSUME CatalogAssumption ==
  \A cat \in Catalogs : IsCatalog(cat) /\ CatalogLaws(cat)

(* A group keeps its kind and its home from one catalog to the next, as it *)
(* must within one load (merge-locked keys); releases are assumed to do    *)
(* the same.                                                               *)
ASSUME StableShape ==
  \A c, d \in Catalogs : \A g \in DOMAIN c \cap DOMAIN d :
    c[g].kind = d[g].kind /\ c[g].home = d[g].home

(***************************************************************************)
(* Lookups.                                                                *)
(***************************************************************************)
Defines(cat, g, o) == g \in DOMAIN cat /\ o \in DOMAIN cat[g].options

Retired(cat, g, o) == Defines(cat, g, o) /\ cat[g].options[o].retired

(* The options offered for new selection: the retired are left out.        *)
MenuOptions(cat, g) ==
  {o \in DOMAIN cat[g].options : ~cat[g].options[o].retired}

(* Two catalogs give the option different ratings.                         *)
ReRated(g, o) ==
  \E c, d \in Catalogs :
    /\ Defines(c, g, o) /\ Defines(d, g, o)
    /\ c[g].options[o].rating # d[g].options[o].rating

(***************************************************************************)
(* Selections: the stored picks of one layer of a record.  A group the     *)
(* layer has no key for is mapped to {} (the code stores no empty list).   *)
(* The order of a pick_many list is left out.                              *)
(***************************************************************************)
Selections == [GroupIds -> SUBSET OptionIds]

NoSelections == [g \in GroupIds |-> {}]

(* dict(under).update(over)                                                *)
Overlay(under, over) ==
  [g \in GroupIds |-> IF over[g] # {} THEN over[g] ELSE under[g]]

(***************************************************************************)
(* The single visibility evaluator: one hop, the referenced group's own    *)
(* visibility is not asked.                                                *)
(***************************************************************************)
VisibleNow(cat, g, values) ==
  LET cond   == cat[g].when
      chosen == values[cond.group]
  IN  \/ cond.op = "always"
      \/ cond.op = "any"    /\ chosen # {}
      \/ cond.op = "in"     /\ chosen \cap cond.args # {}
      \/ cond.op = "not_in" /\ chosen \cap cond.args = {}
      \/ /\ cond.op = "has_tag"
         /\ \E o \in chosen : /\ Defines(cat, cond.group, o)
                              /\ cond.args \cap cat[cond.group].options[o].tags # {}

============================================================================

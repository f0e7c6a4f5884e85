-------------------------- MODULE ConstructionGate --------------------------
(***************************************************************************)
(* The construction gate: what a mutation of a character record must       *)
(* satisfy (per write) and what the whole character must satisfy to be     *)
(* committed (at finalization).  Pure predicates; a refusal is FALSE.      *)
(* Which of several refusals is reported first is left out.                *)
(***************************************************************************)
EXTENDS OptionCatalog

AGE_FLOOR == 20
AGE_CEILING == 10000

(* Mutant: the ceiling is forgotten.                                       *)
CheckAge_NoCeiling(a) == a >= AGE_FLOOR

CheckAge(a) == a \in AGE_FLOOR .. AGE_CEILING

(* Mutant: session vocabulary is let onto the record.                      *)
ResolveGroup_Session(cat, g) == g \in DOMAIN cat /\ cat[g].kind # "free_text"

(* A group that may hold a pick on a record: known, not session vocabulary *)
(* and not free text (whose slots have setters of their own).              *)
ResolveGroup(cat, g) ==
  /\ g \in DOMAIN cat
  /\ cat[g].home # "session"
  /\ cat[g].kind # "free_text"

(* The shape of a value for the group's kind: never empty, a single option *)
(* for pick_one, at most maxPicks for pick_many.  Nulls, wrong JSON types  *)
(* and duplicate picks are refused by the code and not representable here. *)
ShapeFits(cat, g, ids) ==
  /\ ids # {}
  /\ cat[g].kind = "pick_one" => \E o \in ids : ids = {o}
  /\ (cat[g].kind = "pick_many" /\ cat[g].maxPicks # 0) =>
        Cardinality(ids) <= cat[g].maxPicks

(* Mutant: the rating of the option is not compared.                       *)
PickAllowed_AnyRating(cat, g, o, rating, previous, existingOk) ==
  /\ Defines(cat, g, o)
  /\ Retired(cat, g, o) => existingOk \/ o \in previous

(* One picked option: it resolves (a retired one too), it is admissible at *)
(* the record's rating, and it is retired only if it is already held or    *)
(* the state being checked is an existing one.                             *)
PickAllowed(cat, g, o, rating, previous, existingOk) ==
  /\ Defines(cat, g, o)
  /\ AtMost(cat[g].options[o].rating, rating)
  /\ Retired(cat, g, o) => existingOk \/ o \in previous

CheckSelection(cat, g, ids, rating, previous, values, existingOk) ==
  /\ ResolveGroup(cat, g)
  /\ ShapeFits(cat, g, ids)
  /\ \A o \in ids : PickAllowed(cat, g, o, rating, previous, existingOk)
  /\ VisibleNow(cat, g, values)

(* Every required group that is visible has a value.                       *)
RequiredFilled(cat, values) ==
  \A g \in DOMAIN cat :
    cat[g].required /\ VisibleNow(cat, g, values) => values[g] # {}

(* Mutant: only the draft is re-validated, the persona block is trusted.   *)
CheckFullState_DraftOnly(cat, age, rating, identity, persona) ==
  LET combined == Overlay(identity, persona)
  IN  /\ CheckAge(age)
      /\ \A g \in GroupIds : identity[g] # {} =>
           CheckSelection(cat, g, identity[g], rating, {}, combined, TRUE)
      /\ RequiredFilled(cat, combined)

(* Mutant: a stored value of an unknown group is skipped, not refused.     *)
CheckFullState_SkipsOrphans(cat, age, rating, identity, persona) ==
  LET combined == Overlay(identity, persona)
  IN  /\ CheckAge(age)
      /\ \A layer \in {identity, persona} : \A g \in DOMAIN cat :
           layer[g] # {} =>
             CheckSelection(cat, g, layer[g], rating, {}, combined, TRUE)
      /\ RequiredFilled(cat, combined)

(* The identity commit's check over both layers: every stored value of     *)
(* either layer passes the per-write chain against the combined state.     *)
CheckFullState(cat, age, rating, identity, persona) ==
  LET combined == Overlay(identity, persona)
  IN  /\ CheckAge(age)
      /\ \A layer \in {identity, persona} : \A g \in GroupIds :
           layer[g] # {} =>
             CheckSelection(cat, g, layer[g], rating, {}, combined, TRUE)
      /\ RequiredFilled(cat, combined)

============================================================================

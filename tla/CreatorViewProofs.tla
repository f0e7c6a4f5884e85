-------------------------- MODULE CreatorViewProofs --------------------------
(***************************************************************************)
(* Theorems about CreatorView, for every catalog: the view agrees with the *)
(* gate.  They rest on the inductive invariant of CharacterRecord.         *)
(***************************************************************************)
EXTENDS CreatorView, CharacterRecordProofs

(* The view's mirror of the visibility law is the record's own.            *)
LEMMA BasisAgrees ==
  \A working \in BOOLEAN : VisibilityBasis(working) = CurrentValues(working)
<1>1. \A working \in BOOLEAN : IdentityBasis(working) = IdentityValues(working)
  BY DEF IdentityBasis, IdentityValues
<1> QED BY <1>1 DEF VisibilityBasis, CurrentValues

(* On a writable group the view shows as held what the gate takes as held. *)
LEMMA HeldIsPrevious ==
  ASSUME NEW g \in DOMAIN catalog, Writable(g)
  PROVE  Held(g) = Previous(g)
<1>1. CASE catalog[g].home = "identity"
  BY <1>1 DEF Held, Previous, Writable, IdentityBasis
<1>2. CASE catalog[g].home # "identity"
  BY <1>2 DEF Held, Previous
<1> QED BY <1>1, <1>2

(* A toggle that is neither empty nor over the cap, and carries no pick    *)
(* the catalog does not vouch for, passes the gate.                        *)
LEMMA ToggleAccepted ==
  ASSUME NEW g \in Served, NEW o \in Menu(g) \cup Held(g), Writable(g),
         ToggleValue(g, o) # {}, ToggleValue(g, o) \cap Unvouched(g) = {},
         catalog[g].maxPicks # 0 => Cardinality(ToggleValue(g, o)) <= catalog[g].maxPicks
  PROVE  Accepted(g, ToggleValue(g, o))
<1> DEFINE ids == ToggleValue(g, o)
<1>1. g \in DOMAIN catalog /\ ResolveGroup(catalog, g)
  BY DEF Served, ResolveGroup
<1>2. ShapeFits(catalog, g, ids)
  BY DEF ShapeFits, ToggleValue
<1>3. ASSUME NEW p \in ids
      PROVE  PickAllowed(catalog, g, p, rating, Previous(g), FALSE)
  <2>1. p \in Menu(g) \/ p \in Held(g)
    BY <1>3 DEF ToggleValue
  <2>2. CASE p \in Menu(g)
    BY <1>1, <2>2 DEF PickAllowed, Menu, MenuOptions, Defines, Retired
  <2>3. CASE p \in Held(g)
    BY <1>1, <1>3, <2>3, HeldIsPrevious DEF PickAllowed, Unvouched
  <2> QED BY <2>1, <2>2, <2>3
<1>4. VisibleNow(catalog, g, CurrentValues(catalog[g].home = "identity"))
  BY BasisAgrees DEF Served
<1> QED BY <1>1, <1>2, <1>3, <1>4 DEF Accepted, CheckSelection

(* What the view offers, the gate accepts, for every catalog and in every  *)
(* reachable record.                                                       *)
THEOREM OffersAlwaysAccepted == Spec => []OffersAccepted
<1>1. OffersAccepted
  BY ToggleAccepted DEF OffersAccepted
<1> QED BY <1>1, PTL

(* Nothing the gate would accept into an empty group is withheld.          *)
THEOREM NothingEverWithheld == Spec => []NothingWithheld
<1>1. NothingWithheld
  <2> SUFFICES ASSUME NEW g \in DOMAIN catalog, NEW o \in DOMAIN catalog[g].options,
                      ResolveGroup(catalog, g), Held(g) = {}, Writable(g),
                      Accepted(g, {o})
               PROVE  g \in Served /\ o \in Menu(g)
    BY DEF NothingWithheld
  <2>1. g \in Served
    BY BasisAgrees DEF Served, ResolveGroup, Accepted, CheckSelection
  <2>2. PickAllowed(catalog, g, o, rating, Previous(g), FALSE)
    BY DEF Accepted, CheckSelection
  <2>3. ~catalog[g].options[o].retired
    BY <2>2, HeldIsPrevious DEF PickAllowed, Retired
  <2> QED BY <2>1, <2>2, <2>3 DEF Menu, MenuOptions, PickAllowed
<1> QED BY <1>1, PTL

(* Whatever required group refuses a finalization is served, unless it is  *)
(* a persona group that looks at the identity layer.                       *)
THEOREM BlockersAlwaysServed == Spec => []BlockersServed
<1>1. Structure /\ LayersApart => BlockersServed
  <2> SUFFICES ASSUME Structure, LayersApart, NEW g \in DOMAIN catalog, Open,
                      SelfContained(g), catalog[g].required,
                      VisibleNow(catalog, g, Overlay(draft.selections, persona.selections)),
                      Overlay(draft.selections, persona.selections)[g] = {}
               PROVE  g \in Served
    BY DEF BlockersServed
  <2>1. VisibleNow(catalog, g, CurrentValues(catalog[g].home = "identity"))
    BY RequiredSettableHolds DEF RequiredSettable
  <2>2. catalog[g].kind # "free_text" /\ catalog[g].home # "session"
    BY CatalogAssumption DEF Structure, TypeOK, CatalogLaws
  <2> QED BY <2>1, <2>2, BasisAgrees DEF Served
<1>2. Init => LayersApart
  BY LayersApartInit
<1> QED BY <1>1, <1>2, StructureInvariant, LayersApartStep, PTL DEF Spec

==============================================================================

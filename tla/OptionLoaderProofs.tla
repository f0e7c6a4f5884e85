------------------------- MODULE OptionLoaderProofs -------------------------
(***************************************************************************)
(* Theorems about the option loader, for every tree of option files.       *)
(***************************************************************************)
EXTENDS OptionLoader, TLAPS

(* What a step may do to the groups gs: ht keeps every group, its locked   *)
(* keys, its options, and a priority and a cap once given.                 *)
Keeps(gs, ht) ==
  \A g \in DOMAIN gs :
    /\ g \in DOMAIN ht
    /\ ht[g].kind = gs[g].kind /\ ht[g].home = gs[g].home
    /\ ht[g].feeds = gs[g].feeds /\ ht[g].scene = gs[g].scene
    /\ DOMAIN gs[g].options \subseteq DOMAIN ht[g].options
    /\ gs[g].priority # None => ht[g].priority # None
    /\ gs[g].maxPicks # 0 => ht[g].maxPicks # 0
    /\ gs[g].when.op # "always" => ht[g].when.op # "always"

AllLegal(gs) == \A g \in DOMAIN gs : GroupLegal(gs[g])

(* The inductive invariant: the merge and the copy in progress are made of *)
(* legal groups of the declared form, the copy keeps what the merge has,   *)
(* and every file read was applied or skipped.                             *)
LoaderInv ==
  /\ TypeOK
  /\ AllLegal(groups) /\ AllLegal(staged)
  /\ phase = "applying" =>
       Keeps(groups, staged) /\ Len(read) # 0 /\ Current.rating \in Ratings
  /\ good \cup errors = 1 .. Len(read) \ (IF phase = "applying" THEN {Len(read)} ELSE {})
  /\ phase = "accepted" => Clean
  /\ read \in Seq(Files)

-----------------------------------------------------------------------------

(* The absent condition is a condition.                                    *)
LEMMA AbsentIsCondition == Absent \in Condition
BY LoaderAssumption DEF Absent, Condition, Predicates

(* The stamped options of a well-formed fragment are options.              *)
LEMMA StampedTypes ==
  ASSUME NEW data, NEW r \in Ratings, OptionsFit(data)
  PROVE  /\ DOMAIN Stamped(data, r) \subseteq OptionIds
         /\ \A o \in DOMAIN Stamped(data, r) : Stamped(data, r)[o] \in LoadedOption
<1>1. CASE ~Has(data, "options")
  BY <1>1 DEF Stamped
<1>2. CASE Has(data, "options")
  <2>. DEFINE ids == {e.id : e \in data.options}
              entry(o) == CHOOSE f \in data.options : f.id = o
  <2>1. Stamped(data, r) =
          [o \in ids |-> [rating |-> r, retired |-> entry(o).retired,
                          tags |-> entry(o).tags, image |-> entry(o).image]]
    BY <1>2 DEF Stamped
  <2>2. \A o \in ids : entry(o) \in data.options /\ entry(o).id = o
    OBVIOUS
  <2>3. \A e \in data.options :
          /\ e.id \in OptionIds
          /\ e.retired \in BOOLEAN /\ e.image \in BOOLEAN /\ e.tags \subseteq Tags
    BY <1>2 DEF OptionsFit
  <2>4. ASSUME NEW o \in ids
        PROVE  o \in OptionIds /\ Stamped(data, r)[o] \in LoadedOption
    <3>1. PICK e \in data.options : e = entry(o) /\ e.id = o
      BY <2>2
    <3>2. Stamped(data, r)[o] = [rating |-> r, retired |-> e.retired,
                                 tags |-> e.tags, image |-> e.image]
      BY <2>1, <3>1
    <3>3. /\ e.id \in OptionIds /\ e.retired \in BOOLEAN /\ e.image \in BOOLEAN
          /\ e.tags \subseteq Tags
      BY <2>3
    <3>. HIDE DEF ids, entry
    <3>. QED
      BY <3>1, <3>2, <3>3 DEF LoadedOption
  <2>5. DOMAIN Stamped(data, r) = ids
    BY <2>1
  <2>. QED
    BY <2>4, <2>5
<1>. QED
  BY <1>1, <1>2

(* A fragment that applies leaves its group well formed and legal.         *)
LEMMA OutcomeTypes ==
  ASSUME NEW data, NEW r \in Ratings, NEW gs, IsMerge(gs), Applies(data, r, gs)
  PROVE  IsLoadedGroup(Outcome(data, r, gs)) /\ GroupLegal(Outcome(data, r, gs))
<1>. DEFINE old == IF data.id \in DOMAIN gs THEN gs[data.id] ELSE Blank(data.kind)
            new == Set(old, data)
            st == Stamped(data, r)
<1>1. /\ DOMAIN st \subseteq OptionIds
      /\ \A o \in DOMAIN st : st[o] \in LoadedOption
  BY StampedTypes DEF Applies
<1>2. ScalarsFit(data) /\ GroupLegal(Outcome(data, r, gs))
  BY DEF Applies
<1>3. Outcome(data, r, gs) = [new EXCEPT !.options = Extended(@, st)]
  BY DEF Outcome
<1>4. CASE data.id \in DOMAIN gs
  <2>1. IsLoadedGroup(old)
    BY <1>4 DEF IsMerge
  <2>. HIDE DEF old
  <2>2. IsLoadedGroup(new)
    BY <1>2, <2>1 DEF IsLoadedGroup, Set, Given, Written, ScalarsFit, FREE_TEXT_CEILING
  <2>. HIDE DEF new, st
  <2>3. IsLoadedGroup([new EXCEPT !.options = Extended(@, st)])
    BY <1>1, <2>2 DEF IsLoadedGroup, Extended
  <2>. QED
    BY <1>2, <1>3, <2>3
<1>5. CASE data.id \notin DOMAIN gs
  <2>1. old = Blank(data.kind) /\ data.kind \in Kinds /\ Has(data, "home")
    BY <1>5 DEF Applies, DefinitionFits, Has
  <2>. HIDE DEF old
  <2>a. /\ DOMAIN old = {"kind", "home", "scene", "required", "priority",
                        "maxPicks", "feeds", "maxChars", "when", "options"}
        /\ old.kind = data.kind /\ old.scene = FALSE /\ old.required = FALSE
        /\ old.priority = None /\ old.maxPicks = 0 /\ old.feeds = None
        /\ old.maxChars = 0 /\ old.when = Absent /\ DOMAIN old.options = {}
    BY <2>1 DEF Blank
  <2>b. /\ DOMAIN new = DOMAIN old
        /\ new.kind = old.kind /\ new.options = old.options
        /\ new.home = data.home
        /\ new.scene = Given(data, "scene_overridable", FALSE)
        /\ new.required = Given(data, "required", FALSE)
        /\ new.priority = Given(data, "priority", None)
        /\ new.maxPicks = Given(data, "max_picks", 0)
        /\ new.feeds = Given(data, "feeds", None)
        /\ new.maxChars = Given(data, "max_chars", 0)
        /\ new.when = Given(data, "visible_when", Absent)
    BY <2>1, <2>a DEF Set, Given
  <2>. HIDE DEF new
  <2>2. IsLoadedGroup(new)
    <3>1. DOMAIN new = {"kind", "home", "scene", "required", "priority",
                        "maxPicks", "feeds", "maxChars", "when", "options"}
      BY <2>a, <2>b
    <3>2. new.kind \in Kinds /\ new.home \in Homes /\ DOMAIN new.options = {}
      BY <1>2, <2>1, <2>a, <2>b DEF Written, ScalarsFit
    <3>3. new.scene \in BOOLEAN /\ new.required \in BOOLEAN
      BY <1>2, <2>b DEF Written, ScalarsFit, Given
    <3>4. new.priority \in Priorities \cup {None} /\ new.feeds \in Readers \cup {None}
      BY <1>2, <2>b DEF Written, ScalarsFit, Given
    <3>5. new.maxPicks \in Nat /\ new.maxChars \in 0 .. FREE_TEXT_CEILING
      BY <1>2, <2>b DEF Written, ScalarsFit, Given, FREE_TEXT_CEILING
    <3>6. new.when \in Condition
      BY <1>2, <2>b, AbsentIsCondition DEF Written, ScalarsFit, Given
    <3>. QED
      BY <3>1, <3>2, <3>3, <3>4, <3>5, <3>6 DEF IsLoadedGroup
  <2>. HIDE DEF new, st
  <2>3. IsLoadedGroup([new EXCEPT !.options = Extended(@, st)])
    BY <1>1, <2>2 DEF IsLoadedGroup, Extended
  <2>. QED
    BY <1>2, <1>3, <2>3
<1>. QED
  BY <1>4, <1>5

(* An extension that applies keeps its group's locked keys and options.    *)
LEMMA OutcomeKeeps ==
  ASSUME NEW data, NEW r \in Ratings, NEW gs, IsMerge(gs), Applies(data, r, gs),
         data.id \in DOMAIN gs
  PROVE  LET g == gs[data.id]
             h == Outcome(data, r, gs)
         IN  /\ h.kind = g.kind /\ h.home = g.home
             /\ h.feeds = g.feeds /\ h.scene = g.scene
             /\ DOMAIN g.options \subseteq DOMAIN h.options
             /\ g.priority # None => h.priority # None
             /\ g.maxPicks # 0 => h.maxPicks # 0
             /\ g.when.op # "always" => h.when.op # "always"
<1>. DEFINE g == gs[data.id]
            new == Set(g, data)
<1>1. Outcome(data, r, gs) = [new EXCEPT !.options = Extended(@, Stamped(data, r))]
  BY DEF Outcome
<1>2. IsLoadedGroup(g)
  BY DEF IsMerge
<1>3. /\ ~Has(data, "home") /\ ~Has(data, "feeds") /\ ~Has(data, "scene_overridable")
      /\ ScalarsFit(data)
  BY DEF Applies, ExtensionFits, MergeLockedKeys, Has
<1>. HIDE DEF g
<1>4. /\ new.kind = g.kind /\ new.home = g.home /\ new.feeds = g.feeds
      /\ new.scene = g.scene /\ new.options = g.options
      /\ g.priority # None => new.priority # None
      /\ g.maxPicks # 0 => new.maxPicks # 0
      /\ g.when.op # "always" => new.when.op # "always"
      /\ DOMAIN new = DOMAIN g
  BY <1>2, <1>3, LoaderAssumption
  DEF IsLoadedGroup, Set, Given, Has, Written, ScalarsFit, Priorities
<1>. HIDE DEF new
<1>. QED
  BY <1>1, <1>2, <1>4 DEF IsLoadedGroup, Extended, g

(* One fragment applied to a legal merge gives a legal merge that keeps it. *)
LEMMA ApplyKeeps ==
  ASSUME NEW data, NEW r \in Ratings, NEW gs, IsMerge(gs), AllLegal(gs),
         Applies(data, r, gs)
  PROVE  LET ht == Put(data, r, gs)
         IN  IsMerge(ht) /\ AllLegal(ht) /\ Keeps(gs, ht)
<1>. DEFINE res == Outcome(data, r, gs)
            ht == Put(data, r, gs)
<1>1. IsLoadedGroup(res) /\ GroupLegal(res)
  BY OutcomeTypes
<1>2. data.id \in GroupIds
  BY DEF Applies
<1>3. ASSUME data.id \in DOMAIN gs
      PROVE  LET g == gs[data.id]
             IN  /\ res.kind = g.kind /\ res.home = g.home
                 /\ res.feeds = g.feeds /\ res.scene = g.scene
                 /\ DOMAIN g.options \subseteq DOMAIN res.options
                 /\ g.priority # None => res.priority # None
                 /\ g.maxPicks # 0 => res.maxPicks # 0
                 /\ g.when.op # "always" => res.when.op # "always"
  BY <1>3, OutcomeKeeps
<1>. HIDE DEF res
<1>4. DOMAIN ht = DOMAIN gs \cup {data.id}
  BY DEF Put
<1>5. \A g \in DOMAIN ht : ht[g] = IF g = data.id THEN res ELSE gs[g]
  BY DEF Put, res
<1>. HIDE DEF ht
<1>6. IsMerge(ht)
  BY <1>1, <1>2, <1>4, <1>5 DEF IsMerge
<1>7. AllLegal(ht)
  BY <1>1, <1>4, <1>5 DEF AllLegal
<1>8. Keeps(gs, ht)
  BY <1>3, <1>4, <1>5 DEF Keeps
<1>. QED
  BY <1>6, <1>7, <1>8 DEF ht

LEMMA KeepsReflexive == \A gs : Keeps(gs, gs)
BY DEF Keeps

LEMMA KeepsTransitive ==
  ASSUME NEW a, NEW b, NEW c, Keeps(a, b), Keeps(b, c)
  PROVE  Keeps(a, c)
BY DEF Keeps

-----------------------------------------------------------------------------

LEMMA LoaderInvInit == Init => LoaderInv
<1>. SUFFICES ASSUME Init
              PROVE  LoaderInv
  OBVIOUS
<1>1. IsMerge(groups) /\ IsMerge(staged) /\ AllLegal(groups) /\ AllLegal(staged)
  BY DEF Init, IsMerge, AllLegal
<1>2. read \in Seq(Files) /\ Len(read) = 0 /\ good = {} /\ errors = {}
  BY DEF Init
<1>3. phase = "reading" /\ at = 1 /\ caller \in Callers /\ present \subseteq Directories
  BY DEF Init
<1>. QED
  BY <1>1, <1>2, <1>3, LoaderAssumption DEF LoaderInv, TypeOK, Phases

LEMMA LoaderInvNext == LoaderInv /\ [Next]_vars => LoaderInv'
<1>. SUFFICES ASSUME LoaderInv, [Next]_vars
              PROVE  LoaderInv'
  OBVIOUS
<1>. USE DEF LoaderInv
<1>1. ASSUME NEW f \in Files, ReadFile(f)
      PROVE  LoaderInv'
  <2>1. /\ read' \in Seq(Files) /\ Len(read') = Len(read) + 1
        /\ Len(read) \in Nat /\ Len(read') <= MaxFiles
    BY <1>1, LoaderAssumption DEF ReadFile, TypeOK
  <2>2. /\ phase = "reading" /\ good' = good /\ groups' = groups
        /\ good \cup errors = 1 .. Len(read)
        /\ caller' = caller /\ present' = present
    BY <1>1 DEF ReadFile
  <2>3. CASE f.readable /\ f.rating \in Ratings
    <3>1. /\ phase' = "applying" /\ staged' = groups /\ at' = 1 /\ errors' = errors
      BY <1>1, <2>3 DEF ReadFile
    <3>2. TypeOK'
      BY <2>1, <2>2, <3>1, LoaderAssumption DEF TypeOK, Phases, IsMerge
    <3>3. (good \cup errors)' = 1 .. Len(read') \ {Len(read')}
      BY <2>1, <2>2, <3>1
    <3>4. Current' = f
      BY <1>1, <2>1 DEF ReadFile, Current
    <3>. QED
      BY <2>1, <2>2, <2>3, <3>1, <3>2, <3>3, <3>4, KeepsReflexive DEF AllLegal
  <2>4. CASE ~(f.readable /\ f.rating \in Ratings)
    <3>1. /\ phase' \in {"reading", "refused"} /\ staged' = staged /\ at' = at
          /\ errors' = errors \cup {Len(read')}
      BY <1>1, <2>4 DEF ReadFile, Skip
    <3>2. TypeOK'
      BY <2>1, <2>2, <3>1, LoaderAssumption DEF TypeOK, Phases, IsMerge
    <3>3. (good \cup errors)' = 1 .. Len(read')
      BY <2>1, <2>2, <3>1
    <3>. QED
      BY <2>1, <2>2, <3>1, <3>2, <3>3 DEF AllLegal
  <2>. QED
    BY <2>3, <2>4
<1>2. ASSUME ApplyGroup
      PROVE  LoaderInv'
  <2>. DEFINE data == Current.groups[at]
              r == Current.rating
  <2>1. /\ phase = "applying" /\ phase' = phase /\ groups' = groups
        /\ at' = at + 1
        /\ UNCHANGED <<caller, present, read, good, errors>>
        /\ Applies(data, r, staged)
        /\ staged' = Put(data, r, staged)
    BY <1>2 DEF ApplyGroup
  <2>2. r \in Ratings
    BY <2>1
  <2>. HIDE DEF data, r
  <2>3. IsMerge(staged') /\ AllLegal(staged') /\ Keeps(staged, staged')
    BY <2>1, <2>2, ApplyKeeps DEF TypeOK
  <2>4. Keeps(groups, staged')
    BY <2>1, <2>3, KeepsTransitive
  <2>5. IsMerge(groups') /\ AllLegal(groups') /\ Keeps(groups', staged')
    BY <2>1, <2>4 DEF TypeOK
  <2>6. TypeOK'
    BY <2>1, <2>3, <2>5 DEF TypeOK
  <2>7. Current' = Current
    BY <2>1 DEF Current
  <2>. QED
    BY <2>1, <2>3, <2>5, <2>6, <2>7
<1>3. ASSUME RaiseFormatError
      PROVE  LoaderInv'
  <2>1. /\ phase = "applying" /\ phase' \in {"reading", "refused"}
        /\ errors' = errors \cup {Len(read)}
        /\ UNCHANGED <<caller, present, read, good, groups, staged, at>>
    BY <1>3 DEF RaiseFormatError, Skip
  <2>2. Len(read) \in Nat /\ Len(read) # 0
    BY <2>1
  <2>3. TypeOK'
    BY <2>1, <2>2 DEF TypeOK, IsMerge, Phases
  <2>4. (good \cup errors)' = 1 .. Len(read')
    BY <2>1, <2>2
  <2>. QED
    BY <2>1, <2>2, <2>3, <2>4 DEF AllLegal
<1>4. ASSUME CommitFile
      PROVE  LoaderInv'
  <2>1. /\ phase = "applying" /\ phase' = "reading" /\ groups' = staged
        /\ good' = good \cup {Len(read)}
        /\ UNCHANGED <<caller, present, read, errors, staged, at>>
    BY <1>4 DEF CommitFile
  <2>2. Len(read) \in Nat /\ Len(read) # 0
    BY <2>1
  <2>3. TypeOK'
    BY <2>1, <2>2 DEF TypeOK, IsMerge, Phases
  <2>4. (good \cup errors)' = 1 .. Len(read')
    BY <2>1, <2>2
  <2>. QED
    BY <2>1, <2>2, <2>3, <2>4 DEF AllLegal
<1>5. ASSUME Judge
      PROVE  LoaderInv'
  <2>1. /\ phase = "reading" /\ phase' = (IF Clean THEN "accepted" ELSE "refused")
        /\ UNCHANGED <<caller, present, read, good, errors, groups, staged, at>>
    BY <1>5 DEF Judge
  <2>2. TypeOK'
    BY <2>1 DEF TypeOK, IsMerge, Phases
  <2>3. phase' = "accepted" => Clean'
    BY <2>1 DEF Clean, Laws, TwoSlots, NoExamples, NoEmptyGroup, PriorityIffImage, References
  <2>. QED
    BY <2>1, <2>2, <2>3 DEF AllLegal
<1>6. ASSUME UNCHANGED vars
      PROVE  LoaderInv'
  <2>1. UNCHANGED <<caller, present, read, good, errors, groups, staged, at, phase>>
    BY <1>6 DEF vars
  <2>2. TypeOK'
    BY <2>1 DEF TypeOK
  <2>3. Clean' <=> Clean
    BY <2>1 DEF Clean, Laws, TwoSlots, NoExamples, NoEmptyGroup, PriorityIffImage, References
  <2>4. Current' = Current
    BY <2>1 DEF Current
  <2>. QED
    BY <2>1, <2>2, <2>3, <2>4
<1>. QED
  BY <1>1, <1>2, <1>3, <1>4, <1>5, <1>6 DEF Next

(* The loader's invariant.                                                 *)
THEOREM LoaderInvariant == Spec => []LoaderInv
BY LoaderInvInit, LoaderInvNext, PTL DEF Spec

(* Every merge, and every copy in progress, is made of well-formed groups, *)
(* whatever the files of the tree hold (loader.py, _apply_group).          *)
THEOREM LoaderTypes == Spec => []TypeOK
<1>1. LoaderInv => TypeOK
  BY DEF LoaderInv
<1>. QED
  BY LoaderInvariant, <1>1, PTL

(* What the spine starts with, the validator passes or authoring returns   *)
(* is a catalog that obeys the laws, made of every file of the tree.       *)
THEOREM AcceptedAlwaysLawful == Spec => []AcceptedIsLawful
<1>1. LoaderInv => AcceptedIsLawful
  <2>. SUFFICES ASSUME LoaderInv, phase = "accepted"
                PROVE  /\ IsCatalog(Merged) /\ CatalogLaws(Merged)
                       /\ \A h \in Homes :
                            \A f, g \in {d \in DOMAIN groups : groups[d].kind = "free_text"} :
                              groups[f].home = h /\ groups[g].home = h => f = g /\ h # "session"
                       /\ good = 1 .. Len(read)
    BY DEF AcceptedIsLawful
  <2>1. IsMerge(groups) /\ AllLegal(groups) /\ Clean
    BY DEF LoaderInv, TypeOK
  <2>2. /\ DOMAIN Merged = DOMAIN groups
        /\ \A g \in DOMAIN groups :
             /\ Merged[g].kind = groups[g].kind /\ Merged[g].home = groups[g].home
             /\ Merged[g].required = groups[g].required
             /\ Merged[g].maxPicks = groups[g].maxPicks
             /\ Merged[g].when = groups[g].when
             /\ DOMAIN Merged[g].options = DOMAIN groups[g].options
             /\ \A o \in DOMAIN groups[g].options :
                  Merged[g].options[o] = [rating  |-> groups[g].options[o].rating,
                                          retired |-> groups[g].options[o].retired,
                                          tags    |-> groups[g].options[o].tags]
    BY DEF Merged
  <2>3. IsCatalog(Merged)
    <3>1. ASSUME NEW g \in DOMAIN groups, NEW o \in DOMAIN groups[g].options
          PROVE  Merged[g].options[o] \in Option
      <4>1. groups[g].options[o] \in LoadedOption
        BY <2>1, <3>1 DEF IsMerge, IsLoadedGroup
      <4>2. /\ groups[g].options[o].rating \in Ratings
            /\ groups[g].options[o].retired \in BOOLEAN
            /\ groups[g].options[o].tags \in SUBSET Tags
        BY <4>1 DEF LoadedOption
      <4>. DEFINE loaded == groups[g].options[o]
      <4>3. Merged[g].options[o] = [rating |-> loaded.rating, retired |-> loaded.retired,
                                    tags |-> loaded.tags]
        BY <2>2, <3>1
      <4>. HIDE DEF loaded
      <4>4. loaded.rating \in Ratings /\ loaded.retired \in BOOLEAN
            /\ loaded.tags \in SUBSET Tags
        BY <4>2 DEF loaded
      <4>. QED
        BY <4>3, <4>4 DEF Option
    <3>. QED
      BY <2>1, <2>2, <3>1 DEF IsCatalog, IsGroup, IsMerge, IsLoadedGroup
  <2>4. CatalogLaws(Merged)
    <3>. SUFFICES ASSUME NEW g \in DOMAIN groups
                  PROVE  /\ Merged[g].when.op # "always" =>
                              /\ Merged[g].when.group \in DOMAIN Merged
                              /\ Merged[Merged[g].when.group].kind = "free_text"
                                   => Merged[g].when.op = "any"
                         /\ Merged[g].required => /\ Merged[g].kind # "free_text"
                                                  /\ Merged[g].home # "session"
                         /\ Merged[g].kind # "free_text" => DOMAIN Merged[g].options # {}
      BY <2>2 DEF CatalogLaws
    <3>1. GroupLegal(groups[g])
      BY <2>1 DEF AllLegal
    <3>2. References /\ NoEmptyGroup
      BY <2>1 DEF Clean, Laws
    <3>. QED
      BY <2>2, <3>1, <3>2 DEF GroupLegal, References, NoEmptyGroup
  <2>5. ASSUME NEW f \in DOMAIN groups, NEW g \in DOMAIN groups,
               groups[f].kind = "free_text", groups[g].kind = "free_text",
               groups[f].home = groups[g].home
        PROVE  f = g /\ groups[f].home # "session"
    BY <2>1, <2>5 DEF Clean, Laws, TwoSlots, AllLegal, GroupLegal
  <2>6. good = 1 .. Len(read)
    BY <2>1 DEF LoaderInv, Clean
  <2>. QED
    BY <2>3, <2>4, <2>5, <2>6
<1>. QED
  BY LoaderInvariant, <1>1, PTL

LEMMA StepKeeps == LoaderInv /\ [Next]_vars => Keeps(groups, groups')
<1>. SUFFICES ASSUME LoaderInv, [Next]_vars
              PROVE  Keeps(groups, groups')
  OBVIOUS
<1>1. CASE CommitFile
  BY <1>1 DEF CommitFile, LoaderInv
<1>2. CASE groups' = groups
  BY <1>2, KeepsReflexive
<1>. QED
  BY <1>1, <1>2
  DEF Next, ReadFile, ApplyGroup, RaiseFormatError, Judge, vars

(* Within a load no file moves a group: its kind, home and reader are      *)
(* those of its first declaration (loader.py, _MERGE_LOCKED_KEYS).         *)
THEOREM ShapeAlwaysLocked == Spec => ShapeLocked
<1>1. LoaderInv /\ [Next]_vars
      => [\A g \in DOMAIN groups :
            /\ g \in DOMAIN groups'
            /\ groups'[g].kind = groups[g].kind /\ groups'[g].home = groups[g].home
            /\ groups'[g].feeds = groups[g].feeds
            /\ groups'[g].scene = groups[g].scene]_vars
  BY StepKeeps DEF Keeps
<1>. QED
  BY LoaderInvariant, <1>1, PTL DEF Spec, ShapeLocked

(* Nothing a file has put into the merge is taken out by a later one.      *)
THEOREM NothingEverVanishes == Spec => NothingVanishes
<1>1. LoaderInv /\ [Next]_vars
      => [\A g \in DOMAIN groups :
            /\ g \in DOMAIN groups'
            /\ DOMAIN groups[g].options \subseteq DOMAIN groups'[g].options
            /\ groups[g].priority # None => groups'[g].priority # None
            /\ groups[g].maxPicks # 0 => groups'[g].maxPicks # 0
            /\ groups[g].when.op # "always" => groups'[g].when.op # "always"]_vars
  BY StepKeeps DEF Keeps
<1>. QED
  BY LoaderInvariant, <1>1, PTL DEF Spec, NothingVanishes

-----------------------------------------------------------------------------
(***************************************************************************)
(* The merge is what the files that applied declare.                       *)
(***************************************************************************)

(* Every set of the places ps has a last one.                              *)
HaveLast(ps) == \A S \in SUBSET ps : S # {} =>
                  \E p \in S : \A q \in S : q = p \/ Before(q, p)

(* D and, after all of it, the fragment data of a file rated r at place q. *)
Extends(E, D, q, r, data) ==
  /\ DOMAIN D \subseteq Nat \X Nat /\ q \in Nat \X Nat
  /\ \A p \in DOMAIN D : Before(p, q)
  /\ HaveLast(DOMAIN D)
  /\ DOMAIN E = DOMAIN D \cup {q}
  /\ E[q] = [rating |-> r, data |-> data]
  /\ \A p \in DOMAIN D : E[p] = D[p]

LEMMA BeforeIrreflexive ==
  ASSUME NEW p \in Nat \X Nat, NEW q \in Nat \X Nat, Before(p, q)
  PROVE  p # q /\ ~Before(q, p)
BY DEF Before

LEMMA LastOfMember ==
  ASSUME NEW ps, HaveLast(ps), NEW S \in SUBSET ps, S # {}
  PROVE  LastOf(S) \in S
BY DEF HaveLast, LastOf

(* A place after all others of a set is its last one.                      *)
LEMMA LastOfIs ==
  ASSUME NEW S \in SUBSET (Nat \X Nat), NEW q \in S,
         \A p \in S : p = q \/ Before(p, q)
  PROVE  LastOf(S) = q
<1>1. \A x \in S : (\A p \in S : p = x \/ Before(p, x)) => x = q
  BY BeforeIrreflexive
<1>. QED
  BY <1>1 DEF LastOf

LEMMA HaveLastGrows ==
  ASSUME NEW ps \in SUBSET (Nat \X Nat), HaveLast(ps), NEW q \in Nat \X Nat,
         \A p \in ps : Before(p, q)
  PROVE  HaveLast(ps \cup {q})
<1>. SUFFICES ASSUME NEW S \in SUBSET (ps \cup {q}), S # {}
              PROVE  \E p \in S : \A x \in S : x = p \/ Before(x, p)
  BY DEF HaveLast
<1>1. CASE q \in S
  BY <1>1
<1>2. CASE q \notin S
  BY <1>2 DEF HaveLast
<1>. QED
  BY <1>1, <1>2

(* A later fragment speaks for the keys it has, of its own group only.     *)
LEMMA SaidNext ==
  ASSUME NEW D, NEW E, NEW q, NEW r, NEW data, Extends(E, D, q, r, data),
         NEW g, NEW key, NEW default
  PROVE  LastSaid(E, g, key, default) =
           IF data.id = g THEN Given(data, key, LastSaid(D, g, key, default))
           ELSE LastSaid(D, g, key, default)
<1>. DEFINE before == Declaring(D, g, key)
            after == Declaring(E, g, key)
<1>1. E[q].data = data
  BY DEF Extends
<1>2. CASE data.id = g /\ Has(data, key)
  <2>1. q \in after /\ after \in SUBSET (Nat \X Nat)
    BY <1>1, <1>2 DEF Extends, Declaring
  <2>2. \A p \in after : p = q \/ Before(p, q)
    BY DEF Extends, Declaring
  <2>3. LastOf(after) = q
    BY <2>1, <2>2, LastOfIs
  <2>. QED
    BY <1>1, <1>2, <2>1, <2>3 DEF LastSaid, Given
<1>3. CASE ~(data.id = g /\ Has(data, key))
  <2>1. after = before
    BY <1>1, <1>3 DEF Extends, Declaring
  <2>2. CASE before = {}
    BY <1>3, <2>1, <2>2 DEF LastSaid, Given
  <2>3. CASE before # {}
    <3>1. LastOf(before) \in before /\ before \subseteq DOMAIN D
      BY <2>3, LastOfMember DEF Extends, Declaring
    <3>2. E[LastOf(before)] = D[LastOf(before)]
      BY <3>1 DEF Extends
    <3>. QED
      BY <1>3, <2>1, <2>3, <3>2 DEF LastSaid, Given
  <2>. QED
    BY <2>2, <2>3
<1>. QED
  BY <1>2, <1>3

(* It speaks for the options it lists, with the rating of its file.        *)
LEMMA OptionsNext ==
  ASSUME NEW D, NEW E, NEW q, NEW r, NEW data, Extends(E, D, q, r, data), NEW g
  PROVE  /\ DeclaredOptions(E, g) =
              DeclaredOptions(D, g) \cup
                (IF data.id = g THEN DOMAIN Stamped(data, r) ELSE {})
         /\ \A o \in DeclaredOptions(E, g) :
              DeclaredOption(E, g, o) =
                IF data.id = g /\ o \in DOMAIN Stamped(data, r)
                THEN Stamped(data, r)[o] ELSE DeclaredOption(D, g, o)
<1>1. E[q].data = data /\ E[q].rating = r
  BY DEF Extends
<1>. DEFINE own == IF data.id = g /\ Has(data, "options")
                   THEN {e.id : e \in data.options} ELSE {}
<1>2. (IF data.id = g THEN DOMAIN Stamped(data, r) ELSE {}) = own
  BY DEF Stamped
<1>3. Declaring(E, g, "options") =
        Declaring(D, g, "options") \cup
          (IF data.id = g /\ Has(data, "options") THEN {q} ELSE {})
  BY <1>1 DEF Extends, Declaring
<1>4. \A p \in Declaring(D, g, "options") : E[p] = D[p]
  BY DEF Extends, Declaring
<1>5. DeclaredOptions(E, g) = DeclaredOptions(D, g) \cup own
  BY <1>1, <1>3, <1>4 DEF DeclaredOptions
<1>6. ASSUME NEW o \in own
      PROVE  DeclaredOption(E, g, o) = Stamped(data, r)[o]
  <2>1. q \in DeclaringOption(E, g, o)
    BY <1>1, <1>3, <1>6 DEF DeclaringOption
  <2>2. DeclaringOption(E, g, o) \in SUBSET (Nat \X Nat)
    BY DEF DeclaringOption, Declaring, Extends
  <2>3. \A p \in DeclaringOption(E, g, o) : p = q \/ Before(p, q)
    BY DEF DeclaringOption, Declaring, Extends
  <2>4. LastOf(DeclaringOption(E, g, o)) = q
    BY <2>1, <2>2, <2>3, LastOfIs
  <2>5. Has(data, "options") /\ o \in {e.id : e \in data.options}
    BY <1>6
  <2>. QED
    BY <1>1, <2>4, <2>5 DEF DeclaredOption, Stamped
<1>7. ASSUME NEW o, o \in DeclaredOptions(D, g), o \notin own
      PROVE  DeclaredOption(E, g, o) = DeclaredOption(D, g, o)
  <2>. DEFINE before == DeclaringOption(D, g, o)
  <2>1. DeclaringOption(E, g, o) = before
    BY <1>1, <1>3, <1>4, <1>7 DEF DeclaringOption
  <2>2. before # {} /\ before \subseteq DOMAIN D
    BY <1>7 DEF DeclaringOption, DeclaredOptions, Declaring
  <2>3. LastOf(before) \in DOMAIN D
    BY <2>2, LastOfMember DEF Extends
  <2>4. E[LastOf(before)] = D[LastOf(before)]
    BY <2>3 DEF Extends
  <2>. QED
    BY <2>1, <2>4 DEF DeclaredOption
<1>. QED
  BY <1>2, <1>5, <1>6, <1>7

(* A fragment makes of its group what it then is declared to be.           *)
LEMMA OutcomeDeclared ==
  ASSUME NEW D, NEW E, NEW q, NEW r, NEW data, Extends(E, D, q, r, data),
         Applies(data, r, Declared(D))
  PROVE  Outcome(data, r, Declared(D)) = DeclaredGroup(E, data.id)
<1>. DEFINE g == data.id
            gs == Declared(D)
            was == DeclaredGroup(D, g)
            old == IF g \in DOMAIN gs THEN gs[g] ELSE Blank(data.kind)
            new == Set(old, data)
            st == Stamped(data, r)
            options == Extended(was.options, st)
<1>1. Outcome(data, r, gs) = [new EXCEPT !.options = Extended(@, st)]
  BY DEF Outcome
<1>2. DOMAIN gs = {D[p].data.id : p \in DOMAIN D}
  BY DEF Declared
<1>3. /\ old.home = was.home /\ old.scene = was.scene /\ old.required = was.required
      /\ old.priority = was.priority /\ old.maxPicks = was.maxPicks
      /\ old.feeds = was.feeds /\ old.maxChars = was.maxChars /\ old.when = was.when
      /\ old.options = was.options
      /\ old.kind = Given(data, "kind", was.kind)
      /\ DOMAIN old = {"kind", "home", "scene", "required", "priority", "maxPicks",
                       "feeds", "maxChars", "when", "options"}
  <2>1. CASE g \in DOMAIN gs
    <3>1. old = was
      BY <2>1, <1>2 DEF Declared
    <3>2. ~Has(data, "kind")
      BY <2>1 DEF Applies, ExtensionFits, MergeLockedKeys, Has
    <3>. QED
      BY <3>1, <3>2 DEF DeclaredGroup, Given
  <2>2. CASE g \notin DOMAIN gs
    <3>1. old = Blank(data.kind) /\ Has(data, "kind")
      BY <2>2 DEF Applies, DefinitionFits, Has
    <3>2. \A key : Declaring(D, g, key) = {}
      BY <2>2, <1>2 DEF Declaring
    <3>3. \A key, default : LastSaid(D, g, key, default) = default
      BY <3>2 DEF LastSaid
    <3>4. DeclaredOptions(D, g) = {}
      BY <3>2 DEF DeclaredOptions
    <3>. HIDE DEF old
    <3>. QED
      BY <3>1, <3>3, <3>4 DEF DeclaredGroup, Given, Blank
  <2>. QED
    BY <2>1, <2>2
<1>. HIDE DEF old
<1>4. /\ new.kind = old.kind
      /\ new.home = Given(data, "home", old.home)
      /\ new.scene = Given(data, "scene_overridable", old.scene)
      /\ new.required = Given(data, "required", old.required)
      /\ new.priority = Given(data, "priority", old.priority)
      /\ new.maxPicks = Given(data, "max_picks", old.maxPicks)
      /\ new.feeds = Given(data, "feeds", old.feeds)
      /\ new.maxChars = Given(data, "max_chars", old.maxChars)
      /\ new.when = Given(data, "visible_when", old.when)
      /\ new.options = old.options
      /\ DOMAIN new = DOMAIN old
  BY <1>3 DEF Set
<1>. HIDE DEF new
<1>5. [new EXCEPT !.options = Extended(@, st)] =
        [kind |-> new.kind, home |-> new.home, scene |-> new.scene,
         required |-> new.required, priority |-> new.priority,
         maxPicks |-> new.maxPicks, feeds |-> new.feeds,
         maxChars |-> new.maxChars, when |-> new.when, options |-> options]
  BY <1>3, <1>4
<1>6. options = [o \in DeclaredOptions(E, g) |-> DeclaredOption(E, g, o)]
  <2>1. was.options = [o \in DeclaredOptions(D, g) |-> DeclaredOption(D, g, o)]
    BY DEF DeclaredGroup
  <2>. HIDE DEF was, st, gs
  <2>2. DOMAIN options = DeclaredOptions(D, g) \cup DOMAIN st
    BY <2>1 DEF Extended
  <2>3. \A o \in DOMAIN options :
          options[o] = IF o \in DOMAIN st THEN st[o] ELSE DeclaredOption(D, g, o)
    BY <2>1 DEF Extended
  <2>4. options = [o \in DOMAIN options |-> options[o]]
    BY DEF Extended
  <2>. HIDE DEF options
  <2>5. DOMAIN options = DeclaredOptions(E, g)
    BY <2>2, OptionsNext DEF st
  <2>6. \A o \in DOMAIN options : options[o] = DeclaredOption(E, g, o)
    BY <2>3, <2>5, OptionsNext DEF st
  <2>. QED
    BY <2>4, <2>5, <2>6
<1>7. ASSUME NEW key, NEW default
      PROVE  LastSaid(E, g, key, default) = Given(data, key, LastSaid(D, g, key, default))
  BY SaidNext
<1>8. /\ was.kind = LastSaid(D, g, "kind", None)
      /\ was.home = LastSaid(D, g, "home", None)
      /\ was.scene = LastSaid(D, g, "scene_overridable", FALSE)
      /\ was.required = LastSaid(D, g, "required", FALSE)
      /\ was.priority = LastSaid(D, g, "priority", None)
      /\ was.maxPicks = LastSaid(D, g, "max_picks", 0)
      /\ was.feeds = LastSaid(D, g, "feeds", None)
      /\ was.maxChars = LastSaid(D, g, "max_chars", 0)
      /\ was.when = LastSaid(D, g, "visible_when", Absent)
  BY DEF DeclaredGroup
<1>. HIDE DEF was, options, st, gs, g
<1>9. /\ new.kind = LastSaid(E, g, "kind", None)
      /\ new.home = LastSaid(E, g, "home", None)
      /\ new.scene = LastSaid(E, g, "scene_overridable", FALSE)
      /\ new.required = LastSaid(E, g, "required", FALSE)
      /\ new.priority = LastSaid(E, g, "priority", None)
      /\ new.maxPicks = LastSaid(E, g, "max_picks", 0)
      /\ new.feeds = LastSaid(E, g, "feeds", None)
      /\ new.maxChars = LastSaid(E, g, "max_chars", 0)
      /\ new.when = LastSaid(E, g, "visible_when", Absent)
  <2>1. new.kind = LastSaid(E, g, "kind", None)
    BY <1>3, <1>4, <1>7, <1>8
  <2>2. new.home = LastSaid(E, g, "home", None)
    BY <1>3, <1>4, <1>7, <1>8
  <2>3. new.scene = LastSaid(E, g, "scene_overridable", FALSE)
    <3>1. LastSaid(E, g, "scene_overridable", FALSE) =
            Given(data, "scene_overridable", LastSaid(D, g, "scene_overridable", FALSE))
      BY <1>7, Zenon
    <3>. QED
      BY <1>3, <1>4, <1>8, <3>1
  <2>4. new.required = LastSaid(E, g, "required", FALSE)
    <3>1. LastSaid(E, g, "required", FALSE) =
            Given(data, "required", LastSaid(D, g, "required", FALSE))
      BY <1>7, Zenon
    <3>. QED
      BY <1>3, <1>4, <1>8, <3>1
  <2>5. new.priority = LastSaid(E, g, "priority", None)
    BY <1>3, <1>4, <1>7, <1>8
  <2>6. new.maxPicks = LastSaid(E, g, "max_picks", 0)
    BY <1>3, <1>4, <1>7, <1>8
  <2>7. new.feeds = LastSaid(E, g, "feeds", None)
    BY <1>3, <1>4, <1>7, <1>8
  <2>8. new.maxChars = LastSaid(E, g, "max_chars", 0)
    BY <1>3, <1>4, <1>7, <1>8
  <2>9. new.when = LastSaid(E, g, "visible_when", Absent)
    BY <1>3, <1>4, <1>7, <1>8
  <2>. QED
    BY <2>1, <2>2, <2>3, <2>4, <2>5, <2>6, <2>7, <2>8, <2>9
<1>10. Outcome(data, r, gs) = DeclaredGroup(E, g)
  BY <1>1, <1>5, <1>6, <1>9 DEF DeclaredGroup
<1>. QED
  BY <1>10 DEF gs, g

(* The merge of one more fragment is what one more fragment declares.      *)
LEMMA DeclaredNext ==
  ASSUME NEW D, NEW E, NEW q, NEW r, NEW data, Extends(E, D, q, r, data),
         Applies(data, r, Declared(D))
  PROVE  Declared(E) = Put(data, r, Declared(D))
<1>1. {E[p].data.id : p \in DOMAIN E} = {D[p].data.id : p \in DOMAIN D} \cup {data.id}
  BY DEF Extends
<1>2. ASSUME NEW g, g # data.id
      PROVE  DeclaredGroup(E, g) = DeclaredGroup(D, g)
  <2>1. \A key, default : LastSaid(E, g, key, default) = LastSaid(D, g, key, default)
    BY <1>2, SaidNext
  <2>2. [o \in DeclaredOptions(E, g) |-> DeclaredOption(E, g, o)] =
          [o \in DeclaredOptions(D, g) |-> DeclaredOption(D, g, o)]
    BY <1>2, OptionsNext
  <2>. QED
    BY <2>1, <2>2 DEF DeclaredGroup
<1>3. Outcome(data, r, Declared(D)) = DeclaredGroup(E, data.id)
  BY OutcomeDeclared
<1>. QED
  BY <1>1, <1>2, <1>3 DEF Declared, Put

-----------------------------------------------------------------------------

(* The places applied so far, with those of the file in progress.          *)
PlacesSoFar == Places \cup {<<Len(read), j>> : j \in 1 .. at - 1}

(* The strengthening: the copy in progress is what the files that applied  *)
(* and the fragments of the current file up to "at" declare.               *)
DeclaredInv ==
  /\ MergedIsDeclared /\ HaveLast(Places)
  /\ phase = "applying" =>
       /\ at \in 1 .. Len(Current.groups) + 1
       /\ staged = Declared(FragmentsAt(PlacesSoFar)) /\ HaveLast(PlacesSoFar)

LEMMA PlacesTypes ==
  ASSUME LoaderInv
  PROVE  /\ Len(read) \in Nat
         /\ \A i \in 1 .. Len(read) : read[i] \in Files /\ Len(read[i].groups) \in Nat
         /\ Places \subseteq Nat \X Nat
         /\ \A p \in Places : p[1] \in good /\ p[1] \in 1 .. Len(read)
<1>1. read \in Seq(Files) /\ good \subseteq 1 .. Len(read) /\ Len(read) \in Nat
  BY DEF LoaderInv, TypeOK
<1>2. \A i \in 1 .. Len(read) : read[i] \in Files /\ Len(read[i].groups) \in Nat
  BY <1>1, LoaderAssumption
<1>3. ASSUME NEW p \in Places
      PROVE  p \in Nat \X Nat /\ p[1] \in good /\ p[1] \in 1 .. Len(read)
  <2>1. PICK i \in good : p \in {<<i, j>> : j \in 1 .. Len(read[i].groups)}
    BY <1>3 DEF Places
  <2>2. PICK j \in 1 .. Len(read[i].groups) : p = <<i, j>>
    BY <2>1
  <2>. QED
    BY <1>1, <1>2, <2>1, <2>2
<1>. QED
  BY <1>1, <1>2, <1>3

(* The files read before stand where they stood.                           *)
LEMMA FragmentsStay ==
  ASSUME LoaderInv, good' = good, Len(read') \in Nat,
         \A i \in 1 .. Len(read) : read'[i] = read[i]
  PROVE  Places' = Places /\ FragmentsAt(Places)' = FragmentsAt(Places)
<1>1. \A i \in good : read'[i] = read[i]
  BY DEF LoaderInv, TypeOK
<1>2. Places' = Places
  BY <1>1 DEF Places
<1>3. \A p \in Places : read'[p[1]] = read[p[1]]
  BY <1>1, PlacesTypes
<1>. QED
  BY <1>2, <1>3 DEF FragmentsAt

LEMMA DeclaredInvInit == Init => DeclaredInv
<1>. SUFFICES ASSUME Init
              PROVE  DeclaredInv
  OBVIOUS
<1>1. Places = {} /\ phase # "applying"
  BY DEF Init, Places
<1>2. groups = Declared(FragmentsAt({}))
  BY DEF Init, Declared, FragmentsAt
<1>. QED
  BY <1>1, <1>2 DEF DeclaredInv, MergedIsDeclared, HaveLast

LEMMA DeclaredInvNext == LoaderInv /\ DeclaredInv /\ [Next]_vars => DeclaredInv'
<1>. SUFFICES ASSUME LoaderInv, DeclaredInv, [Next]_vars
              PROVE  DeclaredInv'
  OBVIOUS
<1>. USE DEF DeclaredInv, MergedIsDeclared
<1>1. ASSUME NEW f \in Files, ReadFile(f)
      PROVE  DeclaredInv'
  <2>1. /\ read' = Append(read, f) /\ read \in Seq(Files) /\ Len(read') \in Nat
        /\ good' = good /\ groups' = groups
        /\ \A i \in 1 .. Len(read) : read'[i] = read[i]
    BY <1>1 DEF ReadFile, LoaderInv
  <2>2. Places' = Places /\ FragmentsAt(Places)' = FragmentsAt(Places)
    BY <2>1, FragmentsStay
  <2>3. CASE phase' # "applying"
    BY <2>1, <2>2, <2>3
  <2>4. CASE phase' = "applying"
    <3>1. staged' = groups /\ at' = 1 /\ phase = "reading"
      BY <1>1, <2>4 DEF ReadFile, Skip
    <3>2. PlacesSoFar' = Places
      BY <2>2, <3>1 DEF PlacesSoFar
    <3>3. FragmentsAt(PlacesSoFar)' = FragmentsAt(Places)
      BY <2>2, <3>2
    <3>4. Current' = f /\ Len(f.groups) \in Nat
      BY <2>1, LoaderAssumption DEF Current
    <3>. QED
      BY <2>1, <2>2, <2>4, <3>1, <3>2, <3>3, <3>4
  <2>. QED
    BY <2>3, <2>4
<1>2. ASSUME ApplyGroup
      PROVE  DeclaredInv'
  <2>. DEFINE data == Current.groups[at]
              r == Current.rating
              q == <<Len(read), at>>
              D == FragmentsAt(PlacesSoFar)
              E == FragmentsAt(PlacesSoFar \cup {q})
  <2>1. /\ phase = "applying" /\ at <= Len(Current.groups) /\ at' = at + 1
        /\ UNCHANGED <<read, good, groups, phase>>
        /\ Applies(data, r, staged)
        /\ staged' = Put(data, r, staged)
    BY <1>2 DEF ApplyGroup
  <2>2. /\ Len(read) \in Nat /\ at \in Nat /\ at >= 1 /\ Len(read) \notin good
        /\ Len(Current.groups) \in Nat
    BY <2>1, PlacesTypes DEF LoaderInv, Current
  <2>3. PlacesSoFar' = PlacesSoFar \cup {q}
    <3>1. 1 .. at' - 1 = (1 .. at - 1) \cup {at} /\ Places' = Places
      BY <2>1, <2>2 DEF Places
    <3>. QED
      BY <2>1, <3>1 DEF PlacesSoFar
  <2>4. PlacesSoFar \subseteq Nat \X Nat /\ \A p \in PlacesSoFar : Before(p, q)
    <3>1. \A p \in Places : p \in Nat \X Nat /\ p[1] < Len(read)
      BY <2>2, PlacesTypes
    <3>2. \A j \in 1 .. at - 1 : <<Len(read), j>> \in Nat \X Nat /\ j < at
      BY <2>2
    <3>. QED
      BY <3>1, <3>2 DEF PlacesSoFar, Before
  <2>5. Extends(E, D, q, r, data)
    <3>1. q \in Nat \X Nat /\ q[1] = Len(read) /\ q[2] = at
      BY <2>2
    <3>2. HaveLast(PlacesSoFar)
      BY <2>1
    <3>3. E[q] = [rating |-> r, data |-> data]
      BY <3>1 DEF FragmentsAt, Current
    <3>. QED
      BY <2>4, <3>1, <3>2, <3>3 DEF Extends, FragmentsAt
  <2>6. staged = Declared(D)
    BY <2>1
  <2>7. FragmentsAt(PlacesSoFar)' = E
    BY <2>1, <2>3 DEF FragmentsAt
  <2>8. HaveLast(PlacesSoFar)'
    BY <2>1, <2>2, <2>3, <2>4, HaveLastGrows
  <2>9. at' \in 1 .. Len(Current.groups)' + 1
    BY <2>1, <2>2 DEF Current
  <2>10. Places' = Places /\ FragmentsAt(Places)' = FragmentsAt(Places)
    BY <2>1 DEF Places, FragmentsAt
  <2>. HIDE DEF data, r, q, D, E
  <2>11. staged' = Declared(E)
    BY <2>1, <2>5, <2>6, DeclaredNext
  <2>12. (staged = Declared(FragmentsAt(PlacesSoFar)))'
    BY <2>7, <2>11
  <2>13. (groups = Declared(FragmentsAt(Places)) /\ HaveLast(Places))'
    BY <2>1, <2>10
  <2>. QED
    BY <2>8, <2>9, <2>12, <2>13
<1>3. ASSUME CommitFile
      PROVE  DeclaredInv'
  <2>1. /\ phase = "applying" /\ phase' = "reading" /\ groups' = staged
        /\ at > Len(Current.groups) /\ good' = good \cup {Len(read)} /\ read' = read
    BY <1>3 DEF CommitFile
  <2>2. Len(read) # 0 /\ Len(Current.groups) \in Nat
    BY <2>1, PlacesTypes DEF LoaderInv, Current
  <2>3. at - 1 = Len(read[Len(read)].groups)
    BY <2>1, <2>2 DEF Current
  <2>4. Places' = PlacesSoFar
    BY <2>1, <2>3 DEF Places, PlacesSoFar
  <2>5. FragmentsAt(Places)' = FragmentsAt(PlacesSoFar)
    BY <2>1, <2>4 DEF FragmentsAt
  <2>. QED
    BY <2>1, <2>4, <2>5
<1>4. CASE RaiseFormatError \/ Judge \/ UNCHANGED vars
  <2>1. /\ UNCHANGED <<groups, good, read, staged, at>>
        /\ phase' = "applying" => phase = "applying"
    BY <1>4 DEF RaiseFormatError, Skip, Judge, vars
  <2>2. Places' = Places /\ PlacesSoFar' = PlacesSoFar /\ Current' = Current
    BY <2>1 DEF Places, PlacesSoFar, Current
  <2>3. /\ FragmentsAt(Places)' = FragmentsAt(Places)
        /\ FragmentsAt(PlacesSoFar)' = FragmentsAt(PlacesSoFar)
    BY <2>1, <2>2 DEF FragmentsAt
  <2>4. (groups = Declared(FragmentsAt(Places)) /\ HaveLast(Places))'
    BY <2>1, <2>2, <2>3
  <2>5. ASSUME phase' = "applying"
        PROVE  /\ at' \in 1 .. Len(Current.groups)' + 1
               /\ (staged = Declared(FragmentsAt(PlacesSoFar)))'
               /\ HaveLast(PlacesSoFar)'
    <3>1. phase = "applying"
      BY <2>1, <2>5
    <3>. QED
      BY <2>1, <2>2, <2>3, <3>1
  <2>. QED
    BY <2>4, <2>5
<1>. QED
  BY <1>1, <1>2, <1>3, <1>4 DEF Next

(* However many files a tree holds and in whatever order they define,      *)
(* extend and restate a group, the merge is what the files that applied    *)
(* declare last (loader.py, _apply_file and _merge_group).                 *)
THEOREM MergeFollowsDeclarations == Spec => []MergedIsDeclared
<1>1. Spec => []DeclaredInv
  BY LoaderInvariant, DeclaredInvInit, DeclaredInvNext, PTL DEF Spec
<1>2. DeclaredInv => MergedIsDeclared
  BY DEF DeclaredInv
<1>. QED
  BY <1>1, <1>2, PTL

=============================================================================

---------------------------- MODULE OptionLoader ----------------------------
(***************************************************************************)
(* The option loader: from a tree of option files to the merged catalog    *)
(* every other part of the spine trusts.  Files are applied one after the  *)
(* other, each fragment by fragment onto a staged copy of the groups merged *)
(* so far; the copy replaces the groups when the whole file applied.  The  *)
(* laws that need the merged catalog are checked after the last file.      *)
(*                                                                         *)
(* The loader has three callers: the spine's start (resilient, then any    *)
(* error refuses), the validator command line (the same, and a missing     *)
(* directory is an error), and authoring (strict: the first error raises). *)
(*                                                                         *)
(* A fragment is one JSON object of a file's "groups" list, a function     *)
(* from the keys it has.  The values of the display keys (label, section,  *)
(* order, hint) and the order of options are left out.                     *)
(***************************************************************************)
EXTENDS OptionCatalog, Sequences

CONSTANTS
  Files,       \* the option files a directory may hold
  ExampleIds,  \* the ids that begin "example_"
  MaxFiles,    \* how many files a tree may hold
  None         \* an absent priority or reader

ASSUME LoaderAssumption ==
  /\ MaxFiles \in Nat
  /\ \A f \in Files : Len(f.groups) \in Nat
  /\ GroupIds # {}
  /\ None \notin {"must", "should", "flavor", "image", "chat", "both"}

Callers == {"start", "validator", "authoring"}
Directories == {"maintained", "dropin"}
Priorities == {"must", "should", "flavor"}
Readers == {"image", "chat", "both"}
FREE_TEXT_CEILING == 240

VARIABLES
  caller,   \* who loads
  present,  \* the directories that exist
  read,     \* the files read so far, in load order
  good,     \* the places in read of the files applied
  errors,   \* the places in read of the files skipped
  groups,   \* the groups merged so far
  staged,   \* the copy the current file is applied to
  at,       \* the fragment of the current file to be applied next
  phase

vars == <<caller, present, read, good, errors, groups, staged, at, phase>>

Phases == {"reading", "applying", "accepted", "refused"}

Absent == [op |-> "always", group |-> CHOOSE g \in GroupIds : TRUE, args |-> {}]

(* A condition as files write it: "always" is the absence of one.          *)
Written == {cond \in Condition : cond.op # "always"}

(***************************************************************************)
(* Fragments.                                                              *)
(***************************************************************************)
Has(data, key) == key \in DOMAIN data

Given(data, key, value) == IF Has(data, key) THEN data[key] ELSE value

GroupKeys == {"id", "label", "kind", "home", "scene_overridable", "required",
              "priority", "max_picks", "feeds", "max_chars", "visible_when",
              "tags", "options"}

(* Mutant: a fragment may move a group to another home.                    *)
MergeLockedKeys_HomeOpen == {"kind", "feeds", "scene_overridable"}

MergeLockedKeys == {"kind", "home", "feeds", "scene_overridable"}

(* Mutant: the ceiling of a declared limit is not enforced.                *)
ScalarsFit_NoCeiling(data) ==
  /\ Has(data, "home") => data.home \in Homes
  /\ Has(data, "scene_overridable") => data.scene_overridable \in BOOLEAN
  /\ Has(data, "required") => data.required \in BOOLEAN
  /\ Has(data, "priority") => data.priority \in Priorities
  /\ Has(data, "max_picks") => data.max_picks \in Nat /\ data.max_picks >= 1
  /\ Has(data, "feeds") => data.feeds \in Readers
  /\ Has(data, "max_chars") => data.max_chars \in Nat /\ data.max_chars >= 1
  /\ Has(data, "visible_when") => data.visible_when \in Written

ScalarsFit(data) ==
  /\ Has(data, "home") => data.home \in Homes
  /\ Has(data, "scene_overridable") => data.scene_overridable \in BOOLEAN
  /\ Has(data, "required") => data.required \in BOOLEAN
  /\ Has(data, "priority") => data.priority \in Priorities
  /\ Has(data, "max_picks") => data.max_picks \in Nat /\ data.max_picks >= 1
  /\ Has(data, "feeds") => data.feeds \in Readers
  /\ Has(data, "max_chars") => data.max_chars \in 1 .. FREE_TEXT_CEILING
  /\ Has(data, "visible_when") => data.visible_when \in Written

(* Every entry of an options list is well formed, and no id occurs twice.  *)
OptionsFit(data) ==
  Has(data, "options") =>
    /\ \A e \in data.options :
         /\ e.id \in OptionIds
         /\ e.retired \in BOOLEAN /\ e.image \in BOOLEAN /\ e.tags \subseteq Tags
    /\ \A e, f \in data.options : e.id = f.id => e = f

(* The options of a fragment, stamped with the rating of their file.       *)
Stamped(data, fileRating) ==
  IF ~Has(data, "options") THEN [o \in {} |-> None]
  ELSE [o \in {e.id : e \in data.options} |->
          LET e == CHOOSE f \in data.options : f.id = o
          IN  [rating |-> fileRating, retired |-> e.retired, tags |-> e.tags,
               image |-> e.image]]

(***************************************************************************)
(* Groups.  maxPicks and maxChars are 0, priority and feeds None when the  *)
(* key was never given.                                                    *)
(***************************************************************************)
Blank(kind) ==
  [kind |-> kind, home |-> None, scene |-> FALSE, required |-> FALSE,
   priority |-> None, maxPicks |-> 0, feeds |-> None, maxChars |-> 0,
   when |-> Absent, options |-> [o \in {} |-> None]]

Set(grp, data) ==
  [grp EXCEPT
     !.home     = Given(data, "home", @),
     !.scene    = Given(data, "scene_overridable", @),
     !.required = Given(data, "required", @),
     !.priority = Given(data, "priority", @),
     !.maxPicks = Given(data, "max_picks", @),
     !.feeds    = Given(data, "feeds", @),
     !.maxChars = Given(data, "max_chars", @),
     !.when     = Given(data, "visible_when", @)]

(* Mutant: the options of an extension replace those of the group.         *)
Extended_Replaced(old, new) == IF new = [o \in {} |-> None] THEN old ELSE new

(* An option declared again replaces the earlier one; new ones are added.  *)
Extended(old, new) ==
  [o \in DOMAIN old \cup DOMAIN new |->
     IF o \in DOMAIN new THEN new[o] ELSE old[o]]

(* The first declaration of a group must be complete ...                   *)
DefinitionFits(data) ==
  /\ {"label", "kind", "home"} \subseteq DOMAIN data
  /\ data.kind \in Kinds
  /\ data.kind = "free_text" <=> ~Has(data, "options")

(* ... a later one may touch no locked key, and bring no options to text.  *)
ExtensionFits(grp, data) ==
  /\ DOMAIN data \cap MergeLockedKeys = {}
  /\ grp.kind = "free_text" => ~Has(data, "options")

(* The laws on the resulting state of one group.                           *)
GroupLegal(grp) ==
  /\ grp.kind = "free_text" =>
       /\ grp.home # "session"
       /\ grp.feeds # None
       /\ grp.maxChars # 0
       /\ grp.maxPicks = 0
       /\ ~grp.required
  /\ grp.kind # "free_text" => grp.feeds = None /\ grp.maxChars = 0
  /\ grp.maxPicks # 0 => grp.kind = "pick_many"
  /\ grp.required => grp.home # "session"
  /\ grp.scene => grp.home = "identity"

(* What the fragment's group becomes on top of the groups gs.              *)
Outcome(data, fileRating, gs) ==
  LET old == IF data.id \in DOMAIN gs THEN gs[data.id] ELSE Blank(data.kind)
      new == Set(old, data)
  IN  [new EXCEPT !.options = Extended(@, Stamped(data, fileRating))]

(* The groups gs with the fragment's group so changed or added.            *)
Put(data, fileRating, gs) ==
  [g \in DOMAIN gs \cup {data.id} |->
     IF g = data.id THEN Outcome(data, fileRating, gs) ELSE gs[g]]

(* Mutant: the state of an extended group is not checked again.            *)
Applies_FirstOnly(data, fileRating, gs) ==
  /\ DOMAIN data \subseteq GroupKeys
  /\ Has(data, "id") /\ data.id \in GroupIds
  /\ IF data.id \in DOMAIN gs THEN ExtensionFits(gs[data.id], data)
     ELSE DefinitionFits(data) /\ GroupLegal(Outcome(data, fileRating, gs))
  /\ ScalarsFit(data) /\ OptionsFit(data)

(* The fragment raises no format error.                                    *)
Applies(data, fileRating, gs) ==
  /\ DOMAIN data \subseteq GroupKeys
  /\ Has(data, "id") /\ data.id \in GroupIds
  /\ IF data.id \in DOMAIN gs THEN ExtensionFits(gs[data.id], data)
     ELSE DefinitionFits(data)
  /\ ScalarsFit(data) /\ OptionsFit(data)
  /\ GroupLegal(Outcome(data, fileRating, gs))

(***************************************************************************)
(* The laws on the merged groups.                                          *)
(***************************************************************************)
TwoSlots ==
  \A g, h \in DOMAIN groups :
    /\ groups[g].kind = "free_text" /\ groups[h].kind = "free_text"
    /\ groups[g].home = groups[h].home
    => g = h

NoExamples ==
  \A g \in DOMAIN groups :
    g \notin ExampleIds /\ DOMAIN groups[g].options \cap ExampleIds = {}

NoEmptyGroup ==
  \A g \in DOMAIN groups :
    groups[g].kind # "free_text" => DOMAIN groups[g].options # {}

PriorityIffImage ==
  \A g \in DOMAIN groups :
    groups[g].priority # None <=>
      \E o \in DOMAIN groups[g].options : groups[g].options[o].image

References ==
  \A g \in DOMAIN groups :
    LET cond == groups[g].when
    IN  cond.op # "always" =>
          /\ cond.group \in DOMAIN groups
          /\ groups[cond.group].kind = "free_text" => cond.op = "any"

Laws == TwoSlots /\ NoExamples /\ NoEmptyGroup /\ PriorityIffImage /\ References

(***************************************************************************)
(* The load.                                                               *)
(***************************************************************************)
Init ==
  /\ caller \in Callers
  /\ present \in SUBSET Directories
  /\ read = << >> /\ good = {} /\ errors = {}
  /\ groups = [g \in {} |-> None] /\ staged = [g \in {} |-> None]
  /\ at = 1
  /\ phase = "reading"

Current == read[Len(read)]

(* The spine does not load at all without the maintained tree.             *)
Looks == caller = "start" => "maintained" \in present

(* A file is skipped, or the load raises.                                  *)
Skip(files) ==
  /\ phase' = IF caller = "authoring" THEN "refused" ELSE "reading"
  /\ errors' = errors \cup {Len(files)}

(* The next file is opened: it must be readable UTF-8 JSON of the known    *)
(* format with a known rating.                                             *)
ReadFile(f) ==
  /\ phase = "reading" /\ Looks /\ present # {} /\ Len(read) < MaxFiles
  /\ read' = Append(read, f)
  /\ IF f.readable /\ f.rating \in Ratings
     THEN /\ phase' = "applying" /\ staged' = groups /\ at' = 1
          /\ UNCHANGED errors
     ELSE Skip(read') /\ UNCHANGED <<staged, at>>
  /\ UNCHANGED <<caller, present, good, groups>>

(* Mutant: the file is applied to the merged groups themselves.            *)
ApplyGroup_InPlace ==
  /\ phase = "applying" /\ at <= Len(Current.groups)
  /\ LET data == Current.groups[at]
     IN  /\ Applies(data, Current.rating, staged)
         /\ staged' = Put(data, Current.rating, staged)
         /\ groups' = staged'
  /\ at' = at + 1
  /\ UNCHANGED <<caller, present, read, good, errors, phase>>

ApplyGroup ==
  /\ phase = "applying" /\ at <= Len(Current.groups)
  /\ LET data == Current.groups[at]
     IN  /\ Applies(data, Current.rating, staged)
         /\ staged' = Put(data, Current.rating, staged)
  /\ at' = at + 1
  /\ UNCHANGED <<caller, present, read, good, errors, groups, phase>>

(* A format error: nothing of the file is kept.                            *)
RaiseFormatError ==
  /\ phase = "applying" /\ at <= Len(Current.groups)
  /\ ~Applies(Current.groups[at], Current.rating, staged)
  /\ Skip(read)
  /\ UNCHANGED <<caller, present, read, good, groups, staged, at>>

CommitFile ==
  /\ phase = "applying" /\ at > Len(Current.groups)
  /\ groups' = staged
  /\ good' = good \cup {Len(read)}
  /\ phase' = "reading"
  /\ UNCHANGED <<caller, present, read, errors, staged, at>>

(* What the caller makes of the merged groups.                             *)
Clean ==
  /\ errors = {} /\ Laws
  /\ caller = "start" => "maintained" \in present /\ DOMAIN groups # {}
  /\ caller = "validator" => present = Directories

Judge ==
  /\ phase = "reading"
  /\ phase' = IF Clean THEN "accepted" ELSE "refused"
  /\ UNCHANGED <<caller, present, read, good, errors, groups, staged, at>>

Next == (\E f \in Files : ReadFile(f)) \/ ApplyGroup \/ RaiseFormatError
        \/ CommitFile \/ Judge

Spec == Init /\ [][Next]_vars

(***************************************************************************)
(* Properties.                                                             *)
(***************************************************************************)
LoadedOption == [rating : Ratings, retired : BOOLEAN, tags : SUBSET Tags,
                 image : BOOLEAN]

IsLoadedGroup(grp) ==
  /\ DOMAIN grp = {"kind", "home", "scene", "required", "priority", "maxPicks",
                   "feeds", "maxChars", "when", "options"}
  /\ grp.kind \in Kinds /\ grp.home \in Homes
  /\ grp.scene \in BOOLEAN /\ grp.required \in BOOLEAN
  /\ grp.priority \in Priorities \cup {None}
  /\ grp.feeds \in Readers \cup {None}
  /\ grp.maxPicks \in Nat /\ grp.maxChars \in 0 .. FREE_TEXT_CEILING
  /\ grp.when \in Condition
  /\ DOMAIN grp.options \subseteq OptionIds
  /\ \A o \in DOMAIN grp.options : grp.options[o] \in LoadedOption

IsMerge(gs) ==
  DOMAIN gs \subseteq GroupIds /\ \A g \in DOMAIN gs : IsLoadedGroup(gs[g])

(* Every group of the merge, and of the copy in progress, has the form the *)
(* format promises, free-text limits included, whatever the files hold.    *)
TypeOK ==
  /\ caller \in Callers /\ present \subseteq Directories
  /\ Len(read) \in 0 .. MaxFiles
  /\ good \subseteq 1 .. Len(read) /\ errors \subseteq 1 .. Len(read)
  /\ at \in Nat /\ phase \in Phases
  /\ IsMerge(groups) /\ IsMerge(staged)

(* The merged groups as the catalog of the record layer.                   *)
Merged ==
  [g \in DOMAIN groups |->
     [kind |-> groups[g].kind, home |-> groups[g].home,
      required |-> groups[g].required, maxPicks |-> groups[g].maxPicks,
      when |-> groups[g].when,
      options |-> [o \in DOMAIN groups[g].options |->
                     [rating  |-> groups[g].options[o].rating,
                      retired |-> groups[g].options[o].retired,
                      tags    |-> groups[g].options[o].tags]]]]

(* What any caller accepts is a catalog the record layer may trust: it     *)
(* obeys the laws the record layer assumes of every catalog it comes up    *)
(* with, a stored home has one free-text slot, and no file of the tree was *)
(* left out of it.                                                         *)
AcceptedIsLawful ==
  phase = "accepted" =>
    /\ IsCatalog(Merged) /\ CatalogLaws(Merged)
    /\ \A h \in Homes :
         \A f, g \in {d \in DOMAIN groups : groups[d].kind = "free_text"} :
           groups[f].home = h /\ groups[g].home = h => f = g /\ h # "session"
    /\ good = 1 .. Len(read)

(* No later file moves a group to another kind, home or reader: records    *)
(* that hold values of the group keep them in the layer they are in.       *)
ShapeLocked ==
  [][\A g \in DOMAIN groups :
       /\ g \in DOMAIN groups'
       /\ groups'[g].kind = groups[g].kind /\ groups'[g].home = groups[g].home
       /\ groups'[g].feeds = groups[g].feeds
       /\ groups'[g].scene = groups[g].scene]_vars

(* No later file takes away a group or an option, or a condition, a        *)
(* priority or a cap that was given: it can only restate them.  A group    *)
(* that was shown to some records only never becomes one shown to all.     *)
NothingVanishes ==
  [][\A g \in DOMAIN groups :
       /\ g \in DOMAIN groups'
       /\ DOMAIN groups[g].options \subseteq DOMAIN groups'[g].options
       /\ groups[g].priority # None => groups'[g].priority # None
       /\ groups[g].maxPicks # 0 => groups'[g].maxPicks # 0
       /\ groups[g].when.op # "always" => groups'[g].when.op # "always"]_vars

(***************************************************************************)
(* What the merge should be, said without a merge.  D maps a place, <<file, *)
(* fragment>>, to the fragment there and the rating of its file; of each   *)
(* key of a group the last place that gives it counts.                     *)
(***************************************************************************)
Before(p, q) == p[1] < q[1] \/ (p[1] = q[1] /\ p[2] < q[2])

LastOf(ps) == CHOOSE p \in ps : \A q \in ps : q = p \/ Before(q, p)

(* The places that declare a key of group g, and the last value given.     *)
Declaring(D, g, key) == {p \in DOMAIN D : D[p].data.id = g /\ Has(D[p].data, key)}

LastSaid(D, g, key, default) ==
  IF Declaring(D, g, key) = {} THEN default
  ELSE D[LastOf(Declaring(D, g, key))].data[key]

(* The places that declare option o of group g, and the last entry given,  *)
(* with the rating of the file it stands in.                               *)
DeclaringOption(D, g, o) ==
  {p \in Declaring(D, g, "options") : \E e \in D[p].data.options : e.id = o}

DeclaredOption(D, g, o) ==
  LET p == LastOf(DeclaringOption(D, g, o))
      e == CHOOSE x \in D[p].data.options : x.id = o
  IN  [rating |-> D[p].rating, retired |-> e.retired, tags |-> e.tags,
       image |-> e.image]

DeclaredOptions(D, g) ==
  UNION {{e.id : e \in D[p].data.options} : p \in Declaring(D, g, "options")}

DeclaredGroup(D, g) ==
  [kind     |-> LastSaid(D, g, "kind", None),
   home     |-> LastSaid(D, g, "home", None),
   scene    |-> LastSaid(D, g, "scene_overridable", FALSE),
   required |-> LastSaid(D, g, "required", FALSE),
   priority |-> LastSaid(D, g, "priority", None),
   maxPicks |-> LastSaid(D, g, "max_picks", 0),
   feeds    |-> LastSaid(D, g, "feeds", None),
   maxChars |-> LastSaid(D, g, "max_chars", 0),
   when     |-> LastSaid(D, g, "visible_when", Absent),
   options  |-> [o \in DeclaredOptions(D, g) |-> DeclaredOption(D, g, o)]]

Declared(D) == [g \in {D[p].data.id : p \in DOMAIN D} |-> DeclaredGroup(D, g)]

(* The fragments at the places ps of the tree, and those of the files that *)
(* applied.                                                                *)
FragmentsAt(ps) ==
  [p \in ps |-> [rating |-> read[p[1]].rating, data |-> read[p[1]].groups[p[2]]]]

Places == UNION {{<<i, j>> : j \in 1 .. Len(read[i].groups)} : i \in good}

(* The merged groups are at every moment exactly what the files that       *)
(* applied declare, each option with the rating of the file that declared  *)
(* it last: a file that failed half-way, or a copy in progress, leaves no  *)
(* trace in any key.                                                       *)
MergedIsDeclared == groups = Declared(FragmentsAt(Places))

=============================================================================

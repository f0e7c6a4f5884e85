---------------------------- MODULE SafetyFilter ----------------------------
(***************************************************************************)
(* The deterministic word filter.  Matching (normalisation, folding, the   *)
(* term scan, the proximity window) is abstracted to what a text hits: the *)
(* word lists with a term in it, and among the contextual ones those with  *)
(* a hit close to sexual vocabulary.  What is kept is the decision: which  *)
(* lists apply at a rating, and which hits block in a context.             *)
(***************************************************************************)
EXTENDS Ratings

CONSTANTS
  WordLists,    \* the word lists loaded at start
  Mode,         \* Mode[l]: "always" or "contextual"
  UnlockedAt,   \* UnlockedAt[l]: the rating from which l is skipped, or Never
  Never,        \* the list is enforced at every rating
  Texts,        \* every string a user may submit
  Hits,         \* Hits[t]: the lists with a term in t
  NearHits      \* NearHits[t]: the contextual lists with a hit near sexual terms

Contexts == {"freetext", "chat", "prompt", "name"}

ASSUME FilterAssumption ==
  /\ Never \notin Ratings
  /\ Mode \in [WordLists -> {"always", "contextual"}]
  /\ UnlockedAt \in [WordLists -> Ratings \cup {Never}]
  /\ Hits \in [Texts -> SUBSET WordLists]
  /\ NearHits \in [Texts -> SUBSET WordLists]
  /\ \A t \in Texts : NearHits[t] \subseteq {l \in Hits[t] : Mode[l] = "contextual"}

(* Mutant: the comparison of the two ratings is turned round.              *)
Unlocked_Reversed(l, rating) == UnlockedAt[l] # Never /\ AtMost(rating, UnlockedAt[l])

(* The list is skipped at this rating.                                     *)
Unlocked(l, rating) == UnlockedAt[l] # Never /\ AtMost(UnlockedAt[l], rating)

(* An always list blocks wherever it hits.  A contextual list never blocks *)
(* a name, blocks outright in a prompt, and elsewhere only near sexual     *)
(* vocabulary.                                                             *)
Blocks(l, text, context, rating) ==
  /\ ~Unlocked(l, rating)
  /\ l \in Hits[text]
  /\ \/ Mode[l] = "always"
     \/ context = "prompt"
     \/ context \in {"freetext", "chat"} /\ l \in NearHits[text]

Check(text, context, rating) ==
  \A l \in WordLists : ~Blocks(l, text, context, rating)

CheckName(name, rating) == Check(name, "name", rating)

============================================================================

------------------------------- MODULE Ledger -------------------------------
(***************************************************************************)
(* The ledger: an SQLite index derived from the receipts that lie beside   *)
(* rendered artifacts.  A row is a copy of a receipt and one cached bit,   *)
(* whether the values the receipt recorded differ from the character's.    *)
(* The receipts win: a rebuild throws the rows away and reads the files    *)
(* again, committing row by row; a recompute corrects the bits.            *)
(*                                                                         *)
(* Receipts are written by a renderer that is not in the repository yet;   *)
(* the persona hook runs inside the record store's mutation (RecordStore   *)
(* has the interleaving of the two), here an edit is one step.             *)
(***************************************************************************)
EXTENDS Naturals

CONSTANTS
  Characters,
  Paths,           \* sidecar paths, numbered in sorted order
  Directories,     \* sidecar directories, numbered in the order given
  DirectoryOf,     \* DirectoryOf[p]: where the path lies
  IdentityGroups,
  PersonaGroups,
  Values,
  Unset,           \* a group without a value
  NoFile,
  Malformed,       \* a file load_receipt refuses
  NoRow,
  Unknown,         \* no current values were given
  Idle,            \* no rebuild is running
  Passed,          \* the sets of characters a rebuild may be given values of
  Renders,         \* what may be rendered: path, character, kind, flag, groups used
  MaxVersions      \* MaxVersions[c]: bound on the finalizations of c

Groups == IdentityGroups \cup PersonaGroups

AllValues == [Groups -> Values \cup {Unset}]

(* The variables of a receipt; none at all is legal.                       *)
Variables == UNION {[G -> Values] : G \in SUBSET Groups}

Kinds == {"portrait", "identity_lora"}

(* What load_receipt returns, less the fields nothing here compares.       *)
Receipts == [character : Characters, kind : Kinds, version : Nat \ {0},
             variables : Variables, active : BOOLEAN]

Rows == [receipt : Receipts, stale : BOOLEAN]

(* A running rebuild: directories not listed yet, paths listed and not     *)
(* read yet, the values its caller passed, and (history) whether a file    *)
(* has changed under it.                                                   *)
Rebuilds == [dirs : SUBSET Directories, todo : SUBSET Paths,
             values : [Characters -> AllValues \cup {Unknown}],
             disturbed : BOOLEAN]

ASSUME LedgerAssumption ==
  /\ Paths \subseteq Nat
  /\ Directories \subseteq Nat
  /\ DirectoryOf \in [Paths -> Directories]
  /\ IdentityGroups \cap PersonaGroups = {}
  /\ Unset \notin Values
  /\ Unknown \notin AllValues
  /\ NoFile \notin Receipts /\ Malformed \notin Receipts /\ NoFile # Malformed
  /\ NoRow \notin Rows
  /\ Idle \notin Rebuilds
  /\ Renders \subseteq [path : Paths, character : Characters, kind : Kinds,
                        active : BOOLEAN, uses : SUBSET Groups]
  /\ Passed \subseteq SUBSET Characters
  /\ MaxVersions \in [Characters -> Nat]

VARIABLES
  sidecar,   \* the receipt files
  rows,      \* the table ledger_index
  current,   \* the live values of each character
  version,   \* its active version, 0 before the first finalization
  rebuild,   \* the rebuild that is running
  settled,   \* history: characters whose markers something has settled
  whole      \* history: a rebuild has gone through and no file changed since

vars == <<sidecar, rows, current, version, rebuild, settled, whole>>

(***************************************************************************)
(* The queries.                                                            *)
(***************************************************************************)

(* variables_mismatch: a cleared value differs too.                        *)
Mismatch(receipt, values) ==
  \E g \in DOMAIN receipt.variables : values[g] # receipt.variables[g]

ArtifactsFor(c) == {p \in Paths : rows[p] # NoRow /\ rows[p].receipt.character = c}

IdentityStale(c, active) == {p \in ArtifactsFor(c) : rows[p].receipt.version # active}

VariableStaleMarked(c) == {p \in ArtifactsFor(c) : rows[p].stale}

(* Mutant: any character's LoRA counts.                                    *)
ActiveLoras_Anyone(c) ==
  {p \in Paths : rows[p] # NoRow /\ rows[p].receipt.kind = "identity_lora"
                                 /\ rows[p].receipt.active}

ActiveLoras(c) ==
  {p \in ArtifactsFor(c) : rows[p].receipt.kind = "identity_lora" /\ rows[p].receipt.active}

(* What a ring provider says of a canonical set; the only one the program  *)
(* has answers "unknown".                                                  *)
RingAnswers == {"unknown", "no", "yes"}

(* derive_grade and _apply_ladder.                                         *)
DeriveGrade(c, hasSet) ==
  CASE hasSet = "unknown" -> "undeterminable"
    [] hasSet = "no"      -> "G0"
    [] hasSet = "yes"     -> IF ActiveLoras(c) # {} THEN "G2" ELSE "G1"

Init ==
  /\ sidecar = [p \in Paths |-> NoFile]
  /\ rows = [p \in Paths |-> NoRow]
  /\ current = [c \in Characters |-> [g \in Groups |-> Unset]]
  /\ version = [c \in Characters |-> 0]
  /\ rebuild = Idle
  /\ settled = [c \in Characters |-> TRUE]
  /\ whole = FALSE

(***************************************************************************)
(* The files.                                                              *)
(***************************************************************************)
Write(p, file) ==
  /\ sidecar' = [sidecar EXCEPT ![p] = file]
  /\ rebuild' = IF rebuild = Idle THEN Idle ELSE [rebuild EXCEPT !.disturbed = TRUE]
  /\ whole' = FALSE
  /\ UNCHANGED <<rows, current, version, settled>>

(* A render leaves a receipt of the values it used.                        *)
Render(r) ==
  /\ version[r.character] # 0
  /\ LET used == {g \in r.uses : current[r.character][g] # Unset}
     IN  Write(r.path, [character |-> r.character, kind |-> r.kind,
                        version |-> version[r.character], active |-> r.active,
                        variables |-> [g \in used |-> current[r.character][g]]])

(* A receipt is deleted, or damaged.                                       *)
Spoil(p) ==
  /\ sidecar[p] \in Receipts
  /\ \E file \in {NoFile, Malformed} : Write(p, file)

(***************************************************************************)
(* The rows.                                                               *)
(***************************************************************************)

(* Mutant: without values the marker is left out.                          *)
IndexReceipt_NoDefault(p, receipt, values) ==
  /\ rows' = [rows EXCEPT ![p] =
       [receipt |-> receipt,
        stale |-> IF values = Unknown THEN Unknown ELSE Mismatch(receipt, values)]]
  /\ settled' = [settled EXCEPT ![receipt.character] =
                   @ /\ values = current[receipt.character]]

(* index_receipt: without values the row starts fresh.                     *)
IndexReceipt(p, receipt, values) ==
  /\ rows' = [rows EXCEPT ![p] =
       [receipt |-> receipt, stale |-> values # Unknown /\ Mismatch(receipt, values)]]
  /\ settled' = [settled EXCEPT ![receipt.character] =
                   @ /\ values = current[receipt.character]]

Index(p) ==
  /\ sidecar[p] \in Receipts
  /\ \E values \in {Unknown, current[sidecar[p].character]} :
       IndexReceipt(p, sidecar[p], values)
  /\ UNCHANGED <<sidecar, current, version, rebuild, whole>>

(* Set the markers of some rows to what receipt and values say.            *)
Remarked(which, values) ==
  [p \in Paths |-> IF p \in which
                   THEN [rows[p] EXCEPT !.stale = Mismatch(rows[p].receipt, values)]
                   ELSE rows[p]]

(* Mutant: a marker is set and never taken back.                           *)
EditPersona_OnlySets(c, g, value) ==
  /\ value # current[c][g]
  /\ current' = [current EXCEPT ![c][g] = value]
  /\ rows' = Remarked({p \in ArtifactsFor(c) :
                         /\ g \in DOMAIN rows[p].receipt.variables
                         /\ Mismatch(rows[p].receipt, current'[c])}, current'[c])
  /\ UNCHANGED <<sidecar, version, rebuild, settled, whole>>

(* A persona edit and its hook, mark_persona_edit: only the rows whose     *)
(* receipt mentions the group are looked at again.                         *)
EditPersona(c, g, value) ==
  /\ value # current[c][g]
  /\ current' = [current EXCEPT ![c][g] = value]
  /\ rows' = Remarked({p \in ArtifactsFor(c) : g \in DOMAIN rows[p].receipt.variables},
                      current'[c])
  /\ UNCHANGED <<sidecar, version, rebuild, settled, whole>>

(* A finalization puts new identity values live and calls no hook.         *)
Finalize(c) ==
  /\ version[c] < MaxVersions[c]
  /\ version' = [version EXCEPT ![c] = @ + 1]
  /\ \E picked \in [IdentityGroups -> Values \cup {Unset}] :
       current' = [current EXCEPT ![c] =
         [g \in Groups |-> IF g \in IdentityGroups THEN picked[g] ELSE @[g]]]
  /\ settled' = [settled EXCEPT ![c] = FALSE]
  /\ UNCHANGED <<sidecar, rows, rebuild, whole>>

(* recompute_variable_stale, from the receipts' copies.                    *)
Recompute(c) ==
  /\ rows' = Remarked(ArtifactsFor(c), current[c])
  /\ settled' = [settled EXCEPT ![c] = TRUE]
  /\ UNCHANGED <<sidecar, current, version, rebuild, whole>>

(* The cache goes wrong behind the ledger's back.                          *)
CorruptMarker(p) ==
  /\ rows[p] # NoRow
  /\ rows' = [rows EXCEPT ![p].stale = ~ @]
  /\ settled' = [settled EXCEPT ![rows[p].receipt.character] = FALSE]
  /\ UNCHANGED <<sidecar, current, version, rebuild, whole>>

(***************************************************************************)
(* rebuild.                                                                *)
(***************************************************************************)
Least(S) == {x \in S : \A y \in S : x =< y}

(* Mutant: the old rows are left in the table.                             *)
BeginRebuild_KeepsRows(known) ==
  /\ rebuild = Idle
  /\ rebuild' = [dirs |-> Directories, todo |-> {}, disturbed |-> FALSE,
                 values |-> [c \in Characters |-> IF c \in known THEN current[c] ELSE Unknown]]
  /\ whole' = FALSE
  /\ UNCHANGED <<sidecar, rows, current, version, settled>>

(* The table is emptied and that is committed; the caller has read the     *)
(* values of the characters it knows.                                      *)
BeginRebuild(known) ==
  /\ rebuild = Idle
  /\ rows' = [p \in Paths |-> NoRow]
  /\ rebuild' = [dirs |-> Directories, todo |-> {}, disturbed |-> FALSE,
                 values |-> [c \in Characters |-> IF c \in known THEN current[c] ELSE Unknown]]
  /\ settled' = [c \in Characters |-> TRUE]
  /\ whole' = FALSE
  /\ UNCHANGED <<sidecar, current, version>>

Running == rebuild # Idle

ListDirectory ==
  /\ Running
  /\ rebuild.todo = {}
  /\ \E d \in Least(rebuild.dirs) :
       rebuild' = [rebuild EXCEPT
         !.dirs = @ \ {d},
         !.todo = {p \in Paths : DirectoryOf[p] = d /\ sidecar[p] # NoFile}]
  /\ UNCHANGED <<sidecar, rows, current, version, settled, whole>>

(* The next receipt is loaded, and its row committed; a file that does not *)
(* load ends the rebuild where it is.                                      *)
ReadSidecar(p) ==
  /\ Running
  /\ p \in Least(rebuild.todo)
  /\ IF sidecar[p] \in Receipts
     THEN /\ IndexReceipt(p, sidecar[p], rebuild.values[sidecar[p].character])
          /\ rebuild' = [rebuild EXCEPT !.todo = @ \ {p}]
     ELSE /\ rebuild' = Idle
          /\ UNCHANGED <<rows, settled>>
  /\ UNCHANGED <<sidecar, current, version, whole>>

EndRebuild ==
  /\ Running
  /\ rebuild.dirs = {} /\ rebuild.todo = {}
  /\ rebuild' = Idle
  /\ whole' = ~ rebuild.disturbed
  /\ UNCHANGED <<sidecar, rows, current, version, settled>>

(* The process is killed in the middle of a rebuild.                       *)
Crash ==
  /\ Running
  /\ rebuild' = Idle
  /\ UNCHANGED <<sidecar, rows, current, version, settled, whole>>

Next ==
  \/ \E r \in Renders : Render(r)
  \/ \E p \in Paths : Spoil(p) \/ Index(p) \/ CorruptMarker(p) \/ ReadSidecar(p)
  \/ \E c \in Characters : \/ \E g \in PersonaGroups, value \in Values \cup {Unset} :
                                EditPersona(c, g, value)
                           \/ Finalize(c)
                           \/ Recompute(c)
  \/ \E known \in Passed : BeginRebuild(known)
  \/ ListDirectory
  \/ EndRebuild
  \/ Crash

Spec == Init /\ [][Next]_vars

(***************************************************************************)
(* Properties.                                                             *)
(***************************************************************************)

(* Every variable has its declared form; a row is a copy of a receipt that *)
(* loaded, never of a file that load_receipt refuses.                      *)
TypeOK ==
  /\ sidecar \in [Paths -> Receipts \cup {NoFile, Malformed}]
  /\ rows \in [Paths -> Rows \cup {NoRow}]
  /\ current \in [Characters -> AllValues]
  /\ version \in [Characters -> Nat]
  /\ rebuild \in Rebuilds \cup {Idle}
  /\ settled \in [Characters -> BOOLEAN]
  /\ whole \in BOOLEAN

(* Once the markers of a character are settled (by an index or a rebuild   *)
(* given its current values, or by a recompute), they are its receipts'    *)
(* mismatches, however it is edited, until a finalization, a row indexed   *)
(* with other values or damage unsettles them: looking again at the rows   *)
(* an edit touches is enough.                                              *)
SettledMarkersTrue ==
  \A c \in Characters : settled[c] =>
    \A p \in ArtifactsFor(c) : rows[p].stale <=> Mismatch(rows[p].receipt, current[c])

(* The index is derived: when a rebuild has gone through and no file has   *)
(* changed since it began, there is one row for each receipt and it is a   *)
(* copy of it, whatever was in the table before and whoever indexed        *)
(* meanwhile.                                                              *)
RebuiltIsDerived ==
  whole => \A p \in Paths : IF rows[p] = NoRow THEN sidecar[p] = NoFile
                                               ELSE rows[p].receipt = sidecar[p]

(* The ladder: each rung needs its own evidence and all the rungs below.   *)
LoraOnFile(c) ==
  \E p \in Paths : /\ sidecar[p] \in Receipts
                   /\ sidecar[p].character = c
                   /\ sidecar[p].kind = "identity_lora"
                   /\ sidecar[p].active

Grades == {"G0", "G1", "G2"}

Below(grade) == CASE grade = "G0" -> {"G0"}
                  [] grade = "G1" -> {"G0", "G1"}
                  [] grade = "G2" -> Grades

Earned(c, hasSet, grade) == CASE grade = "G0" -> TRUE
                              [] grade = "G1" -> hasSet = "yes"
                              [] grade = "G2" -> LoraOnFile(c)

Holds(c, hasSet, grade) == \A g \in Below(grade) : Earned(c, hasSet, g)

(* The grade is never stored: after such a rebuild it is the highest rung  *)
(* the receipt files alone entitle the character to, and no grade at all   *)
(* is named while it is unknown whether there is a canonical set.          *)
GradeIsDerived ==
  whole => \A c \in Characters, hasSet \in RingAnswers :
    LET grade == DeriveGrade(c, hasSet)
    IN  IF hasSet = "unknown" THEN grade \notin Grades
        ELSE /\ Holds(c, hasSet, grade)
             /\ \A g \in Grades : Holds(c, hasSet, g) => g \in Below(grade)

==============================================================================

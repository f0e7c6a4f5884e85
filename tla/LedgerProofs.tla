---------------------------- MODULE LedgerProofs ----------------------------
(***************************************************************************)
(* Proofs about the ledger: its markers, the rebuild and the grade, for    *)
(* any number of characters, sidecars and directories.                     *)
(***************************************************************************)
EXTENDS Ledger, TLAPS

(* A row agrees with its file.                                             *)
Agrees(p) == IF rows[p] = NoRow THEN sidecar[p] = NoFile
                                ELSE rows[p].receipt = sidecar[p]

(* What a rebuild nothing has disturbed has done so far: a path agrees, or *)
(* has no row and is still to be listed or read.                           *)
RebuildTrue ==
  rebuild # Idle => (~ rebuild.disturbed =>
    \A p \in Paths :
      \/ Agrees(p)
      \/ rows[p] = NoRow /\ (DirectoryOf[p] \in rebuild.dirs \/ p \in rebuild.todo))

(* The inductive invariant.                                                *)
LedgerInv == TypeOK /\ SettledMarkersTrue /\ RebuiltIsDerived /\ RebuildTrue

(***************************************************************************)
(* Lemmas about the operators.                                             *)
(***************************************************************************)

(* Setting markers touches nothing but the markers (mark_persona_edit,     *)
(* recompute_variable_stale).                                              *)
LEMMA RemarkedRows ==
  ASSUME TypeOK, NEW which, NEW values,
         which \subseteq {p \in Paths : rows[p] # NoRow},
         rows' = Remarked(which, values)
  PROVE  /\ rows' \in [Paths -> Rows \cup {NoRow}]
         /\ \A p \in Paths :
              /\ rows'[p] = NoRow <=> rows[p] = NoRow
              /\ rows[p] # NoRow => rows'[p].receipt = rows[p].receipt
              /\ p \in which => rows'[p].stale = Mismatch(rows[p].receipt, values)
              /\ p \notin which => rows'[p] = rows[p]
<1>1. \A p \in which :
        LET row == [rows[p] EXCEPT !.stale = Mismatch(rows[p].receipt, values)]
        IN  /\ row \in Rows /\ row # NoRow
            /\ row.receipt = rows[p].receipt
            /\ row.stale = Mismatch(rows[p].receipt, values)
  <2> SUFFICES ASSUME NEW p \in which
               PROVE  LET row == [rows[p] EXCEPT !.stale = Mismatch(rows[p].receipt, values)]
                      IN  /\ row \in Rows /\ row # NoRow
                          /\ row.receipt = rows[p].receipt
                          /\ row.stale = Mismatch(rows[p].receipt, values)
    OBVIOUS
  <2>1. rows[p] \in Rows
    BY DEF TypeOK
  <2>2. Mismatch(rows[p].receipt, values) \in BOOLEAN
    BY DEF Mismatch
  <2> DEFINE m == Mismatch(rows[p].receipt, values)
  <2>3. m \in BOOLEAN
    BY <2>2
  <2> HIDE DEF m
  <2>4. /\ [rows[p] EXCEPT !.stale = m] \in Rows
        /\ [rows[p] EXCEPT !.stale = m].receipt = rows[p].receipt
        /\ [rows[p] EXCEPT !.stale = m].stale = m
    BY <2>1, <2>3 DEF Rows
  <2>5. NoRow \notin Rows
    BY LedgerAssumption
  <2> QED
    BY <2>4, <2>5 DEF m
<1>2. rows \in [Paths -> Rows \cup {NoRow}]
  BY DEF TypeOK
<1> QED
  BY <1>1, <1>2 DEF Remarked

(* A row that has been indexed, or read by a rebuild (index_receipt).      *)
LEMMA IndexedRows ==
  ASSUME TypeOK, NEW p \in Paths, NEW receipt \in Receipts, NEW values,
         IndexReceipt(p, receipt, values)
  PROVE  /\ rows' \in [Paths -> Rows \cup {NoRow}]
         /\ rows'[p] # NoRow /\ rows'[p].receipt = receipt
         /\ rows'[p].stale <=> (values # Unknown /\ Mismatch(receipt, values))
         /\ \A q \in Paths \ {p} : rows'[q] = rows[q]
         /\ settled' \in [Characters -> BOOLEAN]
         /\ \A c \in Characters : settled'[c] => settled[c]
         /\ settled'[receipt.character] => values = current[receipt.character]
<1> DEFINE row == [receipt |-> receipt, stale |-> values # Unknown /\ Mismatch(receipt, values)]
<1>1. (values # Unknown /\ Mismatch(receipt, values)) \in BOOLEAN
  OBVIOUS
<1>2. row \in Rows
  BY <1>1 DEF Rows
<1>3. row # NoRow
  BY <1>2, LedgerAssumption
<1>4. row.receipt = receipt /\ row.stale = (values # Unknown /\ Mismatch(receipt, values))
  OBVIOUS
<1>5. rows' = [rows EXCEPT ![p] = row]
  BY DEF IndexReceipt
<1> HIDE DEF row
<1>6. /\ rows' \in [Paths -> Rows \cup {NoRow}]
      /\ rows'[p] = row
      /\ \A q \in Paths \ {p} : rows'[q] = rows[q]
  BY <1>2, <1>5 DEF TypeOK
<1>7. receipt.character \in Characters
  BY DEF Receipts
<1>8. /\ settled' \in [Characters -> BOOLEAN]
      /\ \A c \in Characters : settled'[c] => settled[c]
      /\ settled'[receipt.character] => values = current[receipt.character]
  BY <1>7 DEF IndexReceipt, TypeOK
<1> QED
  BY <1>3, <1>4, <1>6, <1>8

(* Current values are values.                                              *)
LEMMA CurrentKnown ==
  ASSUME TypeOK, NEW c \in Characters
  PROVE  current[c] # Unknown /\ current[c] \in AllValues
BY LedgerAssumption DEF TypeOK

(* The type of a row's receipt.                                            *)
LEMMA RowTypes ==
  ASSUME TypeOK, NEW p \in Paths, rows[p] # NoRow
  PROVE  rows[p] \in Rows /\ rows[p].receipt \in Receipts
         /\ rows[p].receipt.character \in Characters
BY DEF TypeOK, Rows, Receipts

(* Markers set from the values a character has after the step are true of  *)
(* the rows they are set on; the other rows keep theirs (shared by the     *)
(* hook and the recompute).                                                *)
LEMMA RemarkKeepsRebuild ==
  ASSUME LedgerInv, NEW which, NEW values,
         which \subseteq {p \in Paths : rows[p] # NoRow},
         rows' = Remarked(which, values),
         UNCHANGED <<sidecar, rebuild, whole>>
  PROVE  RebuiltIsDerived' /\ RebuildTrue'
<1>1. \A p \in Paths : /\ rows'[p] = NoRow <=> rows[p] = NoRow
                       /\ rows[p] # NoRow => rows'[p].receipt = rows[p].receipt
  BY RemarkedRows DEF LedgerInv
<1>2. \A p \in Paths : Agrees(p)' <=> Agrees(p)
  BY <1>1 DEF Agrees
<1>3. RebuiltIsDerived'
  BY <1>2 DEF RebuiltIsDerived, LedgerInv, Agrees
<1>4. RebuildTrue'
  BY <1>1, <1>2 DEF RebuildTrue, LedgerInv
<1> QED
  BY <1>3, <1>4

(***************************************************************************)
(* The steps.                                                              *)
(***************************************************************************)

(* A file that is written or damaged ends every claim about the files, and *)
(* disturbs the rebuild that runs.                                         *)
LEMMA WriteKeeps ==
  ASSUME LedgerInv, NEW p \in Paths, NEW file \in Receipts \cup {NoFile, Malformed},
         Write(p, file)
  PROVE  LedgerInv'
<1>1. TypeOK /\ SettledMarkersTrue
  BY DEF LedgerInv
<1>2. rebuild' \in Rebuilds \cup {Idle} /\ (rebuild' # Idle => rebuild'.disturbed)
  <2>1. CASE rebuild = Idle
    BY <2>1 DEF Write
  <2>2. CASE rebuild # Idle
    <3>1. rebuild \in Rebuilds
      BY <1>1, <2>2 DEF TypeOK
    <3>2. [rebuild EXCEPT !.disturbed = TRUE] \in Rebuilds
      BY <3>1 DEF Rebuilds
    <3>3. [rebuild EXCEPT !.disturbed = TRUE].disturbed = TRUE
      BY <3>1 DEF Rebuilds
    <3> QED
      BY <2>2, <3>2, <3>3 DEF Write
  <2> QED
    BY <2>1, <2>2
<1>3. TypeOK'
  BY <1>1, <1>2 DEF TypeOK, Write
<1>4. SettledMarkersTrue'
  BY <1>1 DEF SettledMarkersTrue, ArtifactsFor, Mismatch, Write
<1>5. RebuiltIsDerived' /\ RebuildTrue'
  BY <1>2 DEF RebuiltIsDerived, RebuildTrue, Write
<1> QED
  BY <1>3, <1>4, <1>5 DEF LedgerInv

(* What a render writes is a receipt.                                      *)
LEMMA RenderKeeps ==
  ASSUME LedgerInv, NEW r \in Renders, Render(r)
  PROVE  LedgerInv'
<1> DEFINE c == r.character
           used == {g \in r.uses : current[c][g] # Unset}
           values == [g \in used |-> current[c][g]]
           receipt == [character |-> c, kind |-> r.kind, version |-> version[c],
                       active |-> r.active, variables |-> values]
<1>1. r.path \in Paths /\ c \in Characters /\ r.kind \in Kinds
      /\ r.active \in BOOLEAN /\ r.uses \subseteq Groups
  BY LedgerAssumption
<1>2. TypeOK
  BY DEF LedgerInv
<1>3. values \in Variables
  <2>1. used \in SUBSET Groups
    BY <1>1
  <2>2. \A g \in used : current[c][g] \in Values
    BY <1>1, <1>2 DEF TypeOK, AllValues
  <2>3. values \in [used -> Values]
    BY <2>2
  <2> QED
    BY <2>1, <2>3 DEF Variables
<1>4. version[c] \in Nat \ {0}
  BY <1>1, <1>2 DEF Render, TypeOK
<1> HIDE DEF values
<1>5. receipt \in Receipts
  BY <1>1, <1>3, <1>4 DEF Receipts
<1>6. Write(r.path, receipt)
  BY DEF Render, values
<1> QED
  BY <1>1, <1>5, <1>6, WriteKeeps

LEMMA SpoilKeeps ==
  ASSUME LedgerInv, NEW p \in Paths, Spoil(p)
  PROVE  LedgerInv'
<1>1. PICK file \in {NoFile, Malformed} : Write(p, file)
  BY DEF Spoil
<1> QED
  BY <1>1, WriteKeeps

(* A row indexed with the character's values has a true marker; indexed    *)
(* with others, it unsettles the character.                                *)
LEMMA IndexKeepsMarkers ==
  ASSUME TypeOK, SettledMarkersTrue, NEW p \in Paths, NEW receipt \in Receipts, NEW values,
         IndexReceipt(p, receipt, values), UNCHANGED current
  PROVE  SettledMarkersTrue'
<1> SUFFICES ASSUME NEW c \in Characters, settled'[c],
                    NEW q \in Paths, rows'[q] # NoRow, rows'[q].receipt.character = c
             PROVE  rows'[q].stale <=> Mismatch(rows'[q].receipt, current[c])
  BY DEF SettledMarkersTrue, ArtifactsFor, Mismatch
<1>1. CASE q # p
  <2>1. rows'[q] = rows[q] /\ settled[c]
    BY <1>1, IndexedRows
  <2> QED
    BY <2>1 DEF SettledMarkersTrue, ArtifactsFor
<1>2. CASE q = p
  <2>1. rows'[p].receipt = receipt /\ values = current[c]
        /\ (rows'[p].stale <=> (values # Unknown /\ Mismatch(receipt, values)))
    BY <1>2, IndexedRows
  <2>2. values # Unknown
    BY <2>1, CurrentKnown
  <2> QED
    BY <1>2, <2>1, <2>2
<1> QED
  BY <1>1, <1>2

LEMMA IndexKeeps ==
  ASSUME LedgerInv, NEW p \in Paths, Index(p)
  PROVE  LedgerInv'
<1>1. sidecar[p] \in Receipts
  BY DEF Index
<1>2. PICK values : IndexReceipt(p, sidecar[p], values)
  BY DEF Index
<1>3. TypeOK /\ SettledMarkersTrue /\ RebuiltIsDerived /\ RebuildTrue
  BY DEF LedgerInv
<1>4. UNCHANGED <<sidecar, current, version, rebuild, whole>>
  BY DEF Index
<1>5. TypeOK'
  BY <1>1, <1>2, <1>3, <1>4, IndexedRows DEF TypeOK
<1>6. SettledMarkersTrue'
  BY <1>1, <1>2, <1>3, <1>4, IndexKeepsMarkers
<1>7. Agrees(p)' /\ \A q \in Paths \ {p} : rows'[q] = rows[q]
  BY <1>1, <1>2, <1>3, <1>4, IndexedRows DEF Agrees
<1>8. RebuiltIsDerived'
  BY <1>3, <1>4, <1>7 DEF RebuiltIsDerived, Agrees
<1>9. RebuildTrue'
  BY <1>3, <1>4, <1>7 DEF RebuildTrue, Agrees
<1> QED
  BY <1>5, <1>6, <1>8, <1>9 DEF LedgerInv

(* The rows a persona edit does not touch do not mention the group.        *)
LEMMA EditKeeps ==
  ASSUME LedgerInv, NEW c \in Characters, NEW g \in PersonaGroups,
         NEW value \in Values \cup {Unset}, EditPersona(c, g, value)
  PROVE  LedgerInv'
<1> DEFINE touched == {p \in ArtifactsFor(c) : g \in DOMAIN rows[p].receipt.variables}
<1>1. TypeOK /\ SettledMarkersTrue
  BY DEF LedgerInv
<1>2. /\ rows' = Remarked(touched, current'[c])
      /\ UNCHANGED <<sidecar, version, rebuild, settled, whole>>
      /\ current' = [current EXCEPT ![c][g] = value]
  BY DEF EditPersona
<1>3. touched \subseteq {p \in Paths : rows[p] # NoRow}
  BY DEF ArtifactsFor
<1>4. current' \in [Characters -> AllValues]
  BY <1>1, <1>2 DEF TypeOK, AllValues, Groups
<1>5. /\ \A d \in Characters \ {c} : current'[d] = current[d]
      /\ \A h \in Groups \ {g} : current'[c][h] = current[c][h]
  BY <1>1, <1>2 DEF TypeOK, AllValues
<1> HIDE DEF touched
<1>6. /\ rows' \in [Paths -> Rows \cup {NoRow}]
      /\ \A p \in Paths :
           /\ rows'[p] = NoRow <=> rows[p] = NoRow
           /\ rows[p] # NoRow => rows'[p].receipt = rows[p].receipt
           /\ p \in touched => rows'[p].stale = Mismatch(rows[p].receipt, current'[c])
           /\ p \notin touched => rows'[p] = rows[p]
  BY <1>1, <1>2, <1>3, RemarkedRows
<1>7. TypeOK'
  BY <1>1, <1>2, <1>4, <1>6 DEF TypeOK
<1>8. SettledMarkersTrue'
  <2> SUFFICES ASSUME NEW d \in Characters, settled'[d],
                      NEW p \in Paths, rows'[p] # NoRow, rows'[p].receipt.character = d
               PROVE  rows'[p].stale <=> Mismatch(rows'[p].receipt, current'[d])
    BY DEF SettledMarkersTrue, ArtifactsFor, Mismatch
  <2>1. rows[p] # NoRow /\ rows'[p].receipt = rows[p].receipt /\ settled[d]
    BY <1>2, <1>6
  <2>2. rows[p].stale <=> Mismatch(rows[p].receipt, current[d])
    BY <1>1, <2>1 DEF SettledMarkersTrue, ArtifactsFor
  <2>3. CASE p \in touched
    <3>1. d = c
      BY <2>1, <2>3 DEF touched, ArtifactsFor
    <3> QED
      BY <1>6, <2>1, <2>3, <3>1
  <2>4. CASE p \notin touched
    <3>1. rows'[p] = rows[p]
      BY <1>6, <2>4
    <3>2. CASE d # c
      BY <1>5, <2>2, <3>1, <3>2
    <3>3. CASE d = c
      <4>1. g \notin DOMAIN rows[p].receipt.variables
        BY <2>1, <2>4, <3>3 DEF touched, ArtifactsFor
      <4>2. DOMAIN rows[p].receipt.variables \subseteq Groups
        BY <1>1, <2>1, RowTypes DEF Receipts, Variables
      <4>3. \A h \in DOMAIN rows[p].receipt.variables : current'[c][h] = current[c][h]
        BY <1>5, <4>1, <4>2
      <4>4. Mismatch(rows[p].receipt, current'[c]) <=> Mismatch(rows[p].receipt, current[c])
        BY <4>3 DEF Mismatch
      <4> QED
        BY <2>2, <3>1, <3>3, <4>4
    <3> QED
      BY <3>2, <3>3
  <2> QED
    BY <2>3, <2>4
<1>9. RebuiltIsDerived' /\ RebuildTrue'
  BY <1>2, <1>3, RemarkKeepsRebuild
<1> QED
  BY <1>7, <1>8, <1>9 DEF LedgerInv

(* A finalization changes the identity values of one character, and its    *)
(* markers are settled no longer.                                          *)
LEMMA FinalizeKeeps ==
  ASSUME LedgerInv, NEW c \in Characters, Finalize(c)
  PROVE  LedgerInv'
<1>1. TypeOK /\ SettledMarkersTrue /\ RebuiltIsDerived /\ RebuildTrue
  BY DEF LedgerInv
<1>2. PICK picked \in [IdentityGroups -> Values \cup {Unset}] :
        current' = [current EXCEPT ![c] =
          [g \in Groups |-> IF g \in IdentityGroups THEN picked[g] ELSE current[c][g]]]
  BY DEF Finalize
<1>3. UNCHANGED <<sidecar, rows, rebuild, whole>>
  BY DEF Finalize
<1> DEFINE new == [g \in Groups |-> IF g \in IdentityGroups THEN picked[g] ELSE current[c][g]]
<1>4. new \in AllValues
  BY <1>1 DEF TypeOK, AllValues
<1>5. current' = [current EXCEPT ![c] = new]
  BY <1>2
<1> HIDE DEF new
<1>6. current' \in [Characters -> AllValues]
      /\ \A d \in Characters \ {c} : current'[d] = current[d]
  BY <1>1, <1>4, <1>5 DEF TypeOK
<1>7. version' \in [Characters -> Nat]
  BY <1>1 DEF TypeOK, Finalize
<1>8. settled' \in [Characters -> BOOLEAN] /\ ~ settled'[c]
      /\ \A d \in Characters \ {c} : settled'[d] = settled[d]
  BY <1>1 DEF TypeOK, Finalize
<1>9. TypeOK'
  BY <1>1, <1>3, <1>6, <1>7, <1>8 DEF TypeOK
<1>10. SettledMarkersTrue'
  BY <1>1, <1>3, <1>6, <1>8 DEF SettledMarkersTrue, ArtifactsFor
<1>11. RebuiltIsDerived' /\ RebuildTrue'
  BY <1>1, <1>3 DEF RebuiltIsDerived, RebuildTrue, Agrees
<1> QED
  BY <1>9, <1>10, <1>11 DEF LedgerInv

LEMMA RecomputeKeeps ==
  ASSUME LedgerInv, NEW c \in Characters, Recompute(c)
  PROVE  LedgerInv'
<1>1. TypeOK /\ SettledMarkersTrue
  BY DEF LedgerInv
<1>2. rows' = Remarked(ArtifactsFor(c), current[c])
      /\ UNCHANGED <<sidecar, current, version, rebuild, whole>>
  BY DEF Recompute
<1>3. ArtifactsFor(c) \subseteq {p \in Paths : rows[p] # NoRow}
  BY DEF ArtifactsFor
<1>4. /\ rows' \in [Paths -> Rows \cup {NoRow}]
      /\ \A p \in Paths :
           /\ rows'[p] = NoRow <=> rows[p] = NoRow
           /\ rows[p] # NoRow => rows'[p].receipt = rows[p].receipt
           /\ p \in ArtifactsFor(c) => rows'[p].stale = Mismatch(rows[p].receipt, current[c])
           /\ p \notin ArtifactsFor(c) => rows'[p] = rows[p]
  BY <1>1, <1>2, <1>3, RemarkedRows
<1>5. settled' \in [Characters -> BOOLEAN]
      /\ \A d \in Characters \ {c} : settled'[d] = settled[d]
  BY <1>1 DEF TypeOK, Recompute
<1>6. TypeOK'
  BY <1>1, <1>2, <1>4, <1>5 DEF TypeOK
<1>7. SettledMarkersTrue'
  <2> SUFFICES ASSUME NEW d \in Characters, settled'[d],
                      NEW p \in Paths, rows'[p] # NoRow, rows'[p].receipt.character = d
               PROVE  rows'[p].stale <=> Mismatch(rows'[p].receipt, current[d])
    <3>1. current' = current
      BY <1>2
    <3> QED
      BY <3>1 DEF SettledMarkersTrue, ArtifactsFor, Mismatch
  <2>1. rows[p] # NoRow /\ rows'[p].receipt = rows[p].receipt
    BY <1>4
  <2>2. CASE d = c
    BY <1>4, <2>1, <2>2 DEF ArtifactsFor
  <2>3. CASE d # c
    <3>1. rows'[p] = rows[p] /\ settled[d]
      BY <1>4, <1>5, <2>1, <2>3 DEF ArtifactsFor
    <3> QED
      BY <1>1, <2>1, <3>1 DEF SettledMarkersTrue, ArtifactsFor
  <2> QED
    BY <2>2, <2>3
<1>8. RebuiltIsDerived' /\ RebuildTrue'
  BY <1>2, <1>3, RemarkKeepsRebuild
<1> QED
  BY <1>6, <1>7, <1>8 DEF LedgerInv

LEMMA CorruptKeeps ==
  ASSUME LedgerInv, NEW p \in Paths, CorruptMarker(p)
  PROVE  LedgerInv'
<1>1. TypeOK /\ SettledMarkersTrue /\ RebuiltIsDerived /\ RebuildTrue
  BY DEF LedgerInv
<1>2. UNCHANGED <<sidecar, current, version, rebuild, whole>>
  BY DEF CorruptMarker
<1> DEFINE c == rows[p].receipt.character
           row == [rows[p] EXCEPT !.stale = ~ @]
<1>3. rows[p] \in Rows /\ c \in Characters
  BY <1>1, RowTypes DEF CorruptMarker
<1>4. row \in Rows /\ row.receipt = rows[p].receipt
  BY <1>3 DEF Rows
<1>5. row # NoRow
  BY <1>4, LedgerAssumption
<1>6. rows' = [rows EXCEPT ![p] = row]
  BY DEF CorruptMarker
<1>7. settled' \in [Characters -> BOOLEAN] /\ ~ settled'[c]
      /\ \A d \in Characters \ {c} : settled'[d] = settled[d]
  BY <1>1, <1>3 DEF TypeOK, CorruptMarker
<1> HIDE DEF row
<1>8. /\ rows' \in [Paths -> Rows \cup {NoRow}]
      /\ rows'[p] = row
      /\ \A q \in Paths \ {p} : rows'[q] = rows[q]
  BY <1>1, <1>4, <1>6 DEF TypeOK
<1>9. TypeOK'
  BY <1>1, <1>2, <1>7, <1>8 DEF TypeOK
<1>10. SettledMarkersTrue'
  <2> SUFFICES ASSUME NEW d \in Characters, settled'[d],
                      NEW q \in Paths, rows'[q] # NoRow, rows'[q].receipt.character = d
               PROVE  rows'[q].stale <=> Mismatch(rows'[q].receipt, current[d])
    BY <1>2 DEF SettledMarkersTrue, ArtifactsFor, Mismatch
  <2>1. d # c
    BY <1>7
  <2>2. q # p
    BY <1>4, <1>8, <2>1
  <2> QED
    BY <1>1, <1>7, <1>8, <2>1, <2>2 DEF SettledMarkersTrue, ArtifactsFor
<1>11. \A q \in Paths : Agrees(q)' <=> Agrees(q)
  BY <1>2, <1>4, <1>5, <1>8 DEF Agrees, CorruptMarker
<1>12. \A q \in Paths : rows'[q] = NoRow <=> rows[q] = NoRow
  BY <1>5, <1>8 DEF CorruptMarker
<1>13. RebuiltIsDerived' /\ RebuildTrue'
  BY <1>1, <1>2, <1>11, <1>12 DEF RebuiltIsDerived, RebuildTrue, Agrees
<1> QED
  BY <1>9, <1>10, <1>13 DEF LedgerInv

(* A rebuild begins with an empty table, of which everything is true.      *)
LEMMA BeginKeeps ==
  ASSUME LedgerInv, NEW known \in Passed, BeginRebuild(known)
  PROVE  LedgerInv'
<1>1. TypeOK
  BY DEF LedgerInv
<1> DEFINE values == [c \in Characters |-> IF c \in known THEN current[c] ELSE Unknown]
           begun == [dirs |-> Directories, todo |-> {}, disturbed |-> FALSE, values |-> values]
<1>2. values \in [Characters -> AllValues \cup {Unknown}]
  BY <1>1 DEF TypeOK
<1> HIDE DEF values
<1>3. begun \in Rebuilds
  BY <1>2 DEF Rebuilds
<1>4. rebuild' = begun
  BY DEF BeginRebuild, values
<1>5. /\ rows' = [p \in Paths |-> NoRow]
      /\ settled' = [c \in Characters |-> TRUE]
      /\ whole' = FALSE
      /\ UNCHANGED <<sidecar, current, version>>
  BY DEF BeginRebuild
<1>6. TypeOK'
  BY <1>1, <1>3, <1>4, <1>5 DEF TypeOK
<1>7. SettledMarkersTrue' /\ RebuiltIsDerived'
  BY <1>5 DEF SettledMarkersTrue, RebuiltIsDerived, ArtifactsFor
<1>8. RebuildTrue'
  BY <1>4, <1>5, LedgerAssumption DEF RebuildTrue
<1> QED
  BY <1>6, <1>7, <1>8 DEF LedgerInv

(* What is not on the list of its directory has no file.                   *)
LEMMA ListKeeps ==
  ASSUME LedgerInv, ListDirectory
  PROVE  LedgerInv'
<1>1. TypeOK /\ SettledMarkersTrue /\ RebuiltIsDerived /\ RebuildTrue
  BY DEF LedgerInv
<1>2. UNCHANGED <<sidecar, rows, current, version, settled, whole>>
  BY DEF ListDirectory
<1>3. rebuild \in Rebuilds /\ rebuild # Idle /\ rebuild.todo = {}
  BY <1>1 DEF ListDirectory, Running, TypeOK
<1>4. PICK d \in rebuild.dirs :
        rebuild' = [rebuild EXCEPT
          !.dirs = @ \ {d},
          !.todo = {p \in Paths : DirectoryOf[p] = d /\ sidecar[p] # NoFile}]
  BY DEF ListDirectory, Least
<1>5. /\ rebuild' \in Rebuilds
      /\ rebuild'.dirs = rebuild.dirs \ {d}
      /\ rebuild'.todo = {p \in Paths : DirectoryOf[p] = d /\ sidecar[p] # NoFile}
      /\ rebuild'.disturbed = rebuild.disturbed
  BY <1>3, <1>4 DEF Rebuilds
<1>6. TypeOK'
  BY <1>1, <1>2, <1>5 DEF TypeOK
<1>7. SettledMarkersTrue' /\ RebuiltIsDerived'
  BY <1>1, <1>2 DEF SettledMarkersTrue, RebuiltIsDerived, ArtifactsFor, Mismatch
<1>8. RebuildTrue'
  BY <1>1, <1>2, <1>3, <1>5 DEF RebuildTrue, Agrees
<1> QED
  BY <1>6, <1>7, <1>8 DEF LedgerInv

(* A receipt that is read agrees; a file that does not load ends the       *)
(* rebuild.                                                                *)
LEMMA ReadKeeps ==
  ASSUME LedgerInv, NEW p \in Paths, ReadSidecar(p)
  PROVE  LedgerInv'
<1>1. TypeOK /\ SettledMarkersTrue /\ RebuiltIsDerived /\ RebuildTrue
  BY DEF LedgerInv
<1>2. UNCHANGED <<sidecar, current, version, whole>>
  BY DEF ReadSidecar
<1>3. rebuild \in Rebuilds /\ rebuild # Idle /\ p \in rebuild.todo
  BY <1>1 DEF ReadSidecar, Running, Least, TypeOK
<1>4. CASE sidecar[p] \notin Receipts
  <2>1. rebuild' = Idle /\ UNCHANGED <<rows, settled>>
    BY <1>4 DEF ReadSidecar
  <2> QED
    BY <1>1, <1>2, <2>1
       DEF LedgerInv, TypeOK, SettledMarkersTrue, RebuiltIsDerived, RebuildTrue,
           ArtifactsFor, Mismatch
<1>5. CASE sidecar[p] \in Receipts
  <2> DEFINE values == rebuild.values[sidecar[p].character]
  <2>1. IndexReceipt(p, sidecar[p], values)
        /\ rebuild' = [rebuild EXCEPT !.todo = @ \ {p}]
    BY <1>5 DEF ReadSidecar
  <2> HIDE DEF values
  <2>2. /\ rebuild' \in Rebuilds
        /\ rebuild'.dirs = rebuild.dirs
        /\ rebuild'.todo = rebuild.todo \ {p}
        /\ rebuild'.disturbed = rebuild.disturbed
    BY <1>3, <2>1 DEF Rebuilds
  <2>3. TypeOK'
    BY <1>1, <1>2, <1>5, <2>1, <2>2, IndexedRows DEF TypeOK
  <2>4. SettledMarkersTrue'
    BY <1>1, <1>2, <1>5, <2>1, IndexKeepsMarkers
  <2>5. Agrees(p)' /\ \A q \in Paths \ {p} : rows'[q] = rows[q]
    BY <1>1, <1>2, <1>5, <2>1, IndexedRows DEF Agrees
  <2>6. RebuiltIsDerived'
    BY <1>1, <1>2, <2>5 DEF RebuiltIsDerived, Agrees
  <2>7. RebuildTrue'
    BY <1>1, <1>2, <1>3, <2>2, <2>5 DEF RebuildTrue, Agrees
  <2> QED
    BY <2>3, <2>4, <2>6, <2>7 DEF LedgerInv
<1> QED
  BY <1>4, <1>5

(* Nothing left to list or to read: every path agrees.                     *)
LEMMA EndKeeps ==
  ASSUME LedgerInv, EndRebuild
  PROVE  LedgerInv'
<1>1. TypeOK /\ SettledMarkersTrue /\ RebuildTrue
  BY DEF LedgerInv
<1>2. rebuild' = Idle /\ UNCHANGED <<sidecar, rows, current, version, settled>>
      /\ whole' = ~ rebuild.disturbed
  BY DEF EndRebuild
<1>3. rebuild \in Rebuilds /\ rebuild # Idle
      /\ rebuild.dirs = {} /\ rebuild.todo = {}
  BY <1>1 DEF EndRebuild, Running, TypeOK
<1>4. whole' \in BOOLEAN
  BY <1>2
<1>5. TypeOK'
  BY <1>1, <1>2, <1>4 DEF TypeOK
<1>6. SettledMarkersTrue' /\ RebuildTrue'
  BY <1>1, <1>2 DEF SettledMarkersTrue, RebuildTrue, ArtifactsFor, Mismatch
<1>7. RebuiltIsDerived'
  BY <1>1, <1>2, <1>3 DEF RebuiltIsDerived, RebuildTrue, Agrees
<1> QED
  BY <1>5, <1>6, <1>7 DEF LedgerInv

LEMMA CrashKeeps ==
  ASSUME LedgerInv, Crash
  PROVE  LedgerInv'
BY DEF Crash, LedgerInv, TypeOK, SettledMarkersTrue, RebuiltIsDerived, RebuildTrue,
       ArtifactsFor, Mismatch

(***************************************************************************)
(* The theorems.                                                           *)
(***************************************************************************)

(* The inductive invariant, for any number of characters, sidecars and     *)
(* directories.                                                            *)
THEOREM LedgerInvariant == Spec => []LedgerInv
<1>1. Init => LedgerInv
  <2> SUFFICES ASSUME Init PROVE LedgerInv
    OBVIOUS
  <2>1. [g \in Groups |-> Unset] \in AllValues
    BY DEF AllValues
  <2>2. TypeOK
    BY <2>1 DEF Init, TypeOK
  <2> QED
    BY <2>2 DEF Init, LedgerInv, SettledMarkersTrue, RebuiltIsDerived, RebuildTrue,
               ArtifactsFor
<1>2. LedgerInv /\ [Next]_vars => LedgerInv'
  <2> SUFFICES ASSUME LedgerInv, [Next]_vars PROVE LedgerInv'
    OBVIOUS
  <2>1. ASSUME NEW r \in Renders, Render(r) PROVE LedgerInv'
    BY <2>1, RenderKeeps
  <2>2. ASSUME NEW p \in Paths, Spoil(p) \/ Index(p) \/ CorruptMarker(p) \/ ReadSidecar(p)
        PROVE  LedgerInv'
    BY <2>2, SpoilKeeps, IndexKeeps, CorruptKeeps, ReadKeeps
  <2>3. ASSUME NEW c \in Characters, NEW g \in PersonaGroups, NEW value \in Values \cup {Unset},
               EditPersona(c, g, value)
        PROVE  LedgerInv'
    BY <2>3, EditKeeps
  <2>4. ASSUME NEW c \in Characters, Finalize(c) \/ Recompute(c) PROVE LedgerInv'
    BY <2>4, FinalizeKeeps, RecomputeKeeps
  <2>5. ASSUME NEW known \in Passed, BeginRebuild(known) PROVE LedgerInv'
    BY <2>5, BeginKeeps
  <2>6. CASE ListDirectory \/ EndRebuild \/ Crash
    BY <2>6, ListKeeps, EndKeeps, CrashKeeps
  <2>7. CASE UNCHANGED vars
    BY <2>7 DEF vars, LedgerInv, TypeOK, SettledMarkersTrue, RebuiltIsDerived, RebuildTrue,
               ArtifactsFor, Mismatch, Agrees
  <2> QED
    BY <2>1, <2>2, <2>3, <2>4, <2>5, <2>6, <2>7 DEF Next
<1> QED
  BY <1>1, <1>2, PTL DEF Spec

(* Rows are copies of receipts that loaded.                                *)
THEOREM LedgerTypes == Spec => []TypeOK
<1>1. LedgerInv => TypeOK
  BY DEF LedgerInv
<1> QED
  BY <1>1, LedgerInvariant, PTL

(* Once settled, markers stay true under every edit: it is enough that the *)
(* hook looks at the rows that mention the edited group.                   *)
THEOREM SettledStayTrue == Spec => []SettledMarkersTrue
<1>1. LedgerInv => SettledMarkersTrue
  BY DEF LedgerInv
<1> QED
  BY <1>1, LedgerInvariant, PTL

(* A rebuild that has gone through undisturbed leaves one row a receipt.   *)
THEOREM RebuildDerives == Spec => []RebuiltIsDerived
<1>1. LedgerInv => RebuiltIsDerived
  BY DEF LedgerInv
<1> QED
  BY <1>1, LedgerInvariant, PTL

(* Then the grade is what the receipt files alone say.                     *)
THEOREM GradeFromReceipts == Spec => []GradeIsDerived
<1>1. ASSUME TypeOK, RebuiltIsDerived PROVE GradeIsDerived
  <2> SUFFICES ASSUME whole, NEW c \in Characters, NEW hasSet \in RingAnswers
               PROVE  LET grade == DeriveGrade(c, hasSet)
                      IN  IF hasSet = "unknown" THEN grade \notin Grades
                          ELSE /\ Holds(c, hasSet, grade)
                               /\ \A g \in Grades : Holds(c, hasSet, g) => g \in Below(grade)
    BY DEF GradeIsDerived
  <2>1. ActiveLoras(c) # {} <=> LoraOnFile(c)
    <3>1. ASSUME ActiveLoras(c) # {} PROVE LoraOnFile(c)
      <4>1. PICK p \in Paths : /\ rows[p] # NoRow
                               /\ rows[p].receipt.character = c
                               /\ rows[p].receipt.kind = "identity_lora"
                               /\ rows[p].receipt.active
        BY <3>1 DEF ActiveLoras, ArtifactsFor
      <4>2. rows[p].receipt = sidecar[p] /\ rows[p].receipt \in Receipts
        BY <1>1, <4>1, RowTypes DEF RebuiltIsDerived
      <4> QED
        BY <4>1, <4>2 DEF LoraOnFile
    <3>2. ASSUME LoraOnFile(c) PROVE ActiveLoras(c) # {}
      <4>1. PICK p \in Paths : /\ sidecar[p] \in Receipts
                               /\ sidecar[p].character = c
                               /\ sidecar[p].kind = "identity_lora"
                               /\ sidecar[p].active
        BY <3>2 DEF LoraOnFile
      <4>2. rows[p] # NoRow /\ rows[p].receipt = sidecar[p]
        BY <1>1, <4>1, LedgerAssumption DEF RebuiltIsDerived
      <4> QED
        BY <4>1, <4>2 DEF ActiveLoras, ArtifactsFor
    <3> QED
      BY <3>1, <3>2
  <2>2. CASE hasSet = "unknown"
    BY <2>2 DEF DeriveGrade, Grades
  <2>3. CASE hasSet = "no"
    BY <2>3 DEF DeriveGrade, Grades, Holds, Below, Earned
  <2>4. CASE hasSet = "yes" /\ LoraOnFile(c)
    BY <2>1, <2>4 DEF DeriveGrade, Grades, Holds, Below, Earned
  <2>5. CASE hasSet = "yes" /\ ~ LoraOnFile(c)
    BY <2>1, <2>5 DEF DeriveGrade, Grades, Holds, Below, Earned
  <2> QED
    BY <2>2, <2>3, <2>4, <2>5 DEF RingAnswers
<1>2. LedgerInv => GradeIsDerived
  BY <1>1 DEF LedgerInv
<1> QED
  BY <1>2, LedgerInvariant, PTL

(***************************************************************************)
(* The index as a function of what it is derived from.                     *)
(***************************************************************************)

(* The row the receipt files and the live values call for at path p.       *)
DerivedRow(p) ==
  IF sidecar[p] = NoFile THEN NoRow
  ELSE [receipt |-> sidecar[p],
        stale |-> Mismatch(sidecar[p], current[sidecar[p].character])]

(* The whole table can be thrown away: after a rebuild that has gone       *)
(* through, with every character's markers settled, it holds what the      *)
(* files and the characters determine and nothing else, so a second        *)
(* rebuild given the current values finds the same rows (index.py,         *)
(* rebuild and recompute_variable_stale).                                  *)
THEOREM TableIsDerived ==
  Spec => [](whole /\ (\A c \in Characters : settled[c])
               => rows = [p \in Paths |-> DerivedRow(p)])
<1>1. LedgerInv => (whole /\ (\A c \in Characters : settled[c])
                     => rows = [p \in Paths |-> DerivedRow(p)])
  <2>. SUFFICES ASSUME LedgerInv, whole, \A c \in Characters : settled[c]
                PROVE  rows = [p \in Paths |-> DerivedRow(p)]
    OBVIOUS
  <2>1. rows \in [Paths -> Rows \cup {NoRow}]
    BY DEF LedgerInv, TypeOK
  <2>2. ASSUME NEW p \in Paths
        PROVE  rows[p] = DerivedRow(p)
    <3>1. CASE rows[p] = NoRow
      BY <3>1 DEF LedgerInv, RebuiltIsDerived, DerivedRow
    <3>2. CASE rows[p] # NoRow
      <4>1. rows[p] \in Rows /\ rows[p].receipt = sidecar[p]
        BY <2>1, <3>2 DEF LedgerInv, RebuiltIsDerived
      <4>2. sidecar[p] \in Receipts /\ sidecar[p] # NoFile
        BY <4>1, LedgerAssumption DEF Rows
      <4>. DEFINE c == sidecar[p].character
                  m == Mismatch(sidecar[p], current[c])
      <4>3. c \in Characters /\ p \in ArtifactsFor(c)
        BY <3>2, <4>1, <4>2 DEF Receipts, ArtifactsFor
      <4>4. rows[p].stale <=> m
        BY <4>1, <4>3 DEF LedgerInv, SettledMarkersTrue
      <4>5. rows[p].stale \in BOOLEAN /\ m \in BOOLEAN
        BY <4>1 DEF Rows, Mismatch
      <4>6. rows[p] = [receipt |-> rows[p].receipt, stale |-> rows[p].stale]
        BY <4>1 DEF Rows
      <4>7. DerivedRow(p) = [receipt |-> sidecar[p], stale |-> m]
        BY <4>2 DEF DerivedRow
      <4>. HIDE DEF m
      <4>8. rows[p].stale = m
        BY <4>4, <4>5
      <4>. QED
        BY <4>1, <4>6, <4>7, <4>8
    <3>. QED
      BY <3>1, <3>2
  <2>. QED
    BY <2>1, <2>2
<1>. QED
  BY LedgerInvariant, <1>1, PTL

=============================================================================

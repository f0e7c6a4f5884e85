-------------------------- MODULE IdentityHistory --------------------------
(***************************************************************************)
(* What a character record promises about identity, and nothing else: a    *)
(* history of committed snapshots that only grows, and at most one working *)
(* copy.  A commit appends the working copy verbatim and closes it.  A new *)
(* working copy starts from the newest snapshot without its paragraph:     *)
(* user-written paragraph text reaches a snapshot only if it was written   *)
(* in that snapshot's own working copy.                                    *)
(***************************************************************************)
EXTENDS Sequences, Naturals

CONSTANTS
  Pictures,    \* everything a snapshot says but the paragraph
  Paragraphs,  \* user-written paragraphs
  Unwritten,   \* no user-written paragraph
  Closed       \* no working copy is open

VARIABLES history, working

Snapshot == [picture : Pictures, paragraph : Paragraphs \cup {Unwritten}]

Init ==
  /\ history = <<>>
  /\ working \in {s \in Snapshot : s.paragraph = Unwritten}

Edit ==
  /\ working # Closed
  /\ working' \in Snapshot
  /\ history' = history

Reopen ==
  /\ working = Closed
  /\ history # <<>>
  /\ working' = [picture |-> history[Len(history)].picture, paragraph |-> Unwritten]
  /\ history' = history

Commit ==
  /\ working # Closed
  /\ history' = Append(history, working)
  /\ working' = Closed

Next == Edit \/ Reopen \/ Commit

Spec == Init /\ [][Next]_<<history, working>>

============================================================================

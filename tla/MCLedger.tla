------------------------------ MODULE MCLedger ------------------------------
(***************************************************************************)
(* Two characters and two sidecars in two directories: a portrait of ann   *)
(* that uses a value of each layer, rendered again whenever ann changes,   *)
(* and a LoRA of bob that uses none and may be rendered again inactive.    *)
(* Whoever rebuilds knows ann's values.                                    *)
(***************************************************************************)
EXTENDS Ledger

CONSTANTS ann, bob, species, callname

TwoDirectories == [p \in Paths |-> p]

TwoFinalizations == [c \in Characters |-> IF c = ann THEN 2 ELSE 1]

AnnOnly == {{ann}}

Renderings ==
  {[path |-> 1, character |-> ann, kind |-> "portrait", active |-> TRUE,
    uses |-> {species, callname}]}
  \cup [path : {2}, character : {bob}, kind : {"identity_lora"}, active : BOOLEAN,
        uses : {{}}]

==============================================================================

------------------------------ MODULE MCClient -------------------------------
(***************************************************************************)
(* An instance of Client for TLC: two characters, and two of the four      *)
(* surfaces of a refresh, the record and the creator view.                 *)
(***************************************************************************)
EXTENDS Client

CONSTANTS a, b

MCCharacters == {a, b}
MCSurfaces   == {"record", "view"}
==============================================================================

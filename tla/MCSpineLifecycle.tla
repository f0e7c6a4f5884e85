-------------------------- MODULE MCSpineLifecycle --------------------------
(***************************************************************************)
(* Instances of SpineLifecycle for TLC.                                    *)
(***************************************************************************)
EXTENDS SpineLifecycle

=============================================================================

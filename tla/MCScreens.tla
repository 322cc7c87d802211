----------------------------- MODULE MCScreens -----------------------------
(* Small instances of Screens for TLC. *)
EXTENDS Screens
=============================================================================

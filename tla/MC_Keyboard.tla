----------------------------- MODULE MC_Keyboard -----------------------------
(* The keyboard controller with either controller at the other end.          *)
EXTENDS KeyboardController
=============================================================================

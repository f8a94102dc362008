----------------------------- MODULE MCScreens ------------------------------
(* A TLC instance of Screens.                                              *)
EXTENDS Screens
=============================================================================

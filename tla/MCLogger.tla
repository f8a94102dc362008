------------------------------ MODULE MCLogger ------------------------------
(* A TLC instance of Logger.                                               *)
EXTENDS Logger
=============================================================================

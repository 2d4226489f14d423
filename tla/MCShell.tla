------------------------------ MODULE MCShell ------------------------------
(* Model checking of Shell: the constant is a number, given in the cfg.     *)
EXTENDS Shell
=============================================================================

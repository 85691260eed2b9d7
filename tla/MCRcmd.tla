-------------------------------- MODULE MCRcmd --------------------------------
(* Seven reserved ports for the run of Rcmd, of which four are sought for by  *)
(* others too.                                                                *)
EXTENDS Rcmd

Upper == 4 .. 7
==============================================================================

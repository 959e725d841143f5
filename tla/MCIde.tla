-------------------------------- MODULE MCIde --------------------------------
(* One channel with two units.                                             *)
EXTENDS Ide

MCUnits == 0 .. 1
==============================================================================

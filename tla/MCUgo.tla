-------------------------------- MODULE MCUgo --------------------------------
(* Model values for the instances of Ugo that TLC checks. *)
EXTENDS Ugo

CONSTANTS a, b
=============================================================================

-------------------------------- MODULE MCOnCall --------------------------------
(* Constants for OnCall. *)
EXTENDS OnCall

CONSTANTS a, b, c

MCRotations == {<<a>>, <<a, b>>, <<b, a, a>>}
=============================================================================

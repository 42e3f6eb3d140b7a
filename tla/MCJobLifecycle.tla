--------------------------- MODULE MCJobLifecycle ---------------------------
(* Names for the constants of JobLifecycle, for model checking. *)
EXTENDS JobLifecycle

CONSTANTS j1, j2
=============================================================================

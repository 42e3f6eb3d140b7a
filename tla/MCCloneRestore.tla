--------------------------- MODULE MCCloneRestore ----------------------------
(* Names for the constants of CloneRestore, for model checking. *)
EXTENDS CloneRestore, TLC

CONSTANTS j1, j2, v1, v2

\* Jobs are interchangeable.
Symmetry == Permutations(Jobs)

\* Every kind and every protocol, without the pairs that differ from one of
\* these only in how the temporary clone is made.
Kinds == {<<"clone", "nfs">>, <<"clone", "iscsi">>, <<"cloneLive", "nvme">>,
          <<"drClone", "nfs">>, <<"drClone", "iscsi">>,
          <<"restore", "nfs">>, <<"restore", "iscsi">>, <<"flexclone", "nfs">>,
          <<"restoreDr", "nfs">>, <<"restoreDr", "nvme">>, <<"revert", "iscsi">>}
SanClones == {<<"clone", "iscsi">>}
=============================================================================

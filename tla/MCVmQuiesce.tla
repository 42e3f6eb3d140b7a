----------------------------- MODULE MCVmQuiesce -----------------------------
(* Values for the constants of VmQuiesce, for model checking. *)
EXTENDS VmQuiesce

CONSTANTS t1, t2,       \* threads
          vm1, vm2,     \* virtual machines
          ct1           \* container

Apart == [t \in Threads |-> IF t = t1 THEN {vm1, ct1} ELSE {vm2}]

AppAndSuspend == [t \in Threads |-> IF t = t1 THEN "app" ELSE "suspend"]
=============================================================================

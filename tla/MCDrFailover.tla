---------------------------- MODULE MCDrFailover ----------------------------
(* Values for the constants of DrFailover, for model checking. *)
EXTENDS DrFailover, TLC

CONSTANTS p1,       \* plan
          v1, v2,   \* volumes
          s1, s2    \* storage ids

\* The first volume is mapped, the second one is not.
FirstMapped == v1 :> s1 @@ v2 :> NoSid

Target(r, v, s, h) == [rel |-> r, vol |-> v, sid |-> s, hosts |-> h]

\* Each volume as it should be, the first one under the id of its source; an entry without
\* hosts; and the second copy under the id of the first source.
Entered == {Target(v1, v1, NoSid, TRUE), Target(v2, v2, s2, TRUE),
            Target(NoVolume, v2, s2, FALSE), Target(v2, v2, s1, TRUE)}
=============================================================================

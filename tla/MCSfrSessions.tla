----------------------------- MODULE MCSfrSessions -----------------------------
(* Names for the constants of SfrSessions, for model checking. *)
EXTENDS SfrSessions

CONSTANTS s1, s2, c1, c2, a, b

\* The mounts of which something is there or being made, and the sessions that a
\* request or the daemon can still be about.
Live == {m \in DOMAIN owner : Kept(m)} \union Pending
Known == {s \in Sessions : Open(s)} \union req.sid \union sweep.sid \union sweep.todo

\* What a mount that is gone, or a session that is over, had in the histories plays no
\* part in any step or property: states that differ only there are one state.
Relevant ==
    <<row, home, req, sweep, thread, running, cancelled, dev, clones, faults,
      [m \in DOMAIN owner |-> IF m \in Live THEN {owner[m]} ELSE {}],
      leaky \intersect Live, astray \intersect Live, misled \intersect Known>>
================================================================================

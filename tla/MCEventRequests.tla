-------------------------- MODULE MCEventRequests --------------------------
(* Two coordinators, one Lead and two requests in flight at one time. *)
EXTENDS EventRequests, TLC

CONSTANTS c1, c2, r1, r2

Interchangeable == Permutations({c1, c2}) \cup Permutations({r1, r2})
=============================================================================

---------------------------- MODULE MCPluginCall ----------------------------
(***************************************************************************)
(* An instance of PluginCall for TLC: a C.int of 3 bits with lengths that  *)
(* fit it, turn negative and wrap around, one payload for each way an      *)
(* answer of the host can fail, two that succeed, and a buffer without     *)
(* bytes.                                                                  *)
(***************************************************************************)
EXTENDS PluginCall, TLC

Success(body) ==
  [size |-> "some", envelope |-> TRUE, ok |-> TRUE, hasError |-> FALSE,
   result |-> TRUE, status |-> 200, body |-> body]

MCHostReplies ==
  LET good == Success("one")
  IN {good, Success("two")}
     \cup {[good EXCEPT !.size = "empty"], [good EXCEPT !.envelope = FALSE],
           [good EXCEPT !.ok = FALSE], [good EXCEPT !.ok = FALSE, !.hasError = TRUE],
           [good EXCEPT !.result = FALSE], [good EXCEPT !.status = 400],
           [good EXCEPT !.status = 399]}

Symmetry == Permutations(Callers) \cup Permutations(Addresses) \cup Permutations(Cells)
=============================================================================

---------------------------- MODULE MCShareLease ----------------------------
(* Values for model checking ShareLease. *)
EXTENDS ShareLease, TLC

(* Sessions, tokens and peers are interchangeable. *)
Symmetry == Permutations(Session) \cup Permutations(Token) \cup Permutations(Peer)
=============================================================================

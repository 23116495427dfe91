----------------------------- MODULE MCWebUsers -----------------------------
(* Small instances of WebUsers for TLC. *)
EXTENDS WebUsers, TLC

CONSTANTS root, alice, b1, b2, i1, i2, x1, x2

\* Handlers, browsers and password hashes are interchangeable.
Symmetry == Permutations(Handlers) \cup Permutations(Browsers) \cup Permutations(Hashes)
=============================================================================

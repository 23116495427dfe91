--------------------------- MODULE MCVtyshSession ---------------------------
(* A small instance of VtyshSession for TLC. *)
EXTENDS VtyshSession

CONSTANTS r1, r2

\* Two rules, and one behind a line that is none.
MCTexts == {<<r1, r2>>, <<Junk, r2>>}
=============================================================================

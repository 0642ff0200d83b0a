----------------------------- MODULE MCFraming ------------------------------
(***************************************************************************)
(* Framing for TLC: no message, and those around one and two pieces.       *)
(***************************************************************************)
EXTENDS Framing

MCLengths == 0 .. 2 * CHUNK + 1
=============================================================================

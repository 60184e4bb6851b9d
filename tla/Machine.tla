------------------------------ MODULE Machine ------------------------------
(***************************************************************************)
(* What the front end's modules share of machine.h.                        *)
(***************************************************************************)
CONSTANT NULL       \* a pointer to nothing

=============================================================================

------------------------------- MODULE MCRelay -------------------------------
(* Three connections compete for the two seats of two rooms, so that a     *)
(* full room, a seat freed and taken again, a sweep with late close events *)
(* and a code drawn again while one is pending all happen.                 *)
EXTENDS Relay
==============================================================================

------------------------------ MODULE MCSwitch ------------------------------
(* Switch for TLC. The mark is one frame and a buffer holds two, the least *)
(* that can be below the mark, at it and past it.                          *)
EXTENDS Switch
=============================================================================

------------------------------ MODULE MCTransfer ------------------------------
(* Transfer for TLC: a file of two chunks, so that one can be lost in the  *)
(* middle, and behind it in the batch an empty one, which no chunk opens.  *)
(* Where one file shows the question, there is one.                        *)
EXTENDS Transfer

TwoFiles == <<2, 0>>
OneFile == <<2>>
===============================================================================

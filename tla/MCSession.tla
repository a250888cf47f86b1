------------------------------ MODULE MCSession ------------------------------
(* Three devices and the two seats of one room: two that pair, and one that  *)
(* finds a seat free while one of them is away. When the other then goes     *)
(* too, the first may come back into a seat that is not the one it had.      *)
EXTENDS Session

JoinerThenCreator == <<2, 1>>
CreatorThenThird == <<1, 3>>
=============================================================================

---------------------------- MODULE MCShareInbox ----------------------------
(* Three shares, one of them of two files.                                 *)
EXTENDS ShareInbox

CONSTANTS a, b, c

Sizes == [s \in Shares |-> IF s = a THEN 2 ELSE 1]

=============================================================================

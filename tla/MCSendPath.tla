------------------------------ MODULE MCSendPath ------------------------------
(* SendPath for TLC: two control calls, so that one can be chained behind    *)
(* the other, and a data call between them.                                  *)
EXTENDS SendPath
=============================================================================

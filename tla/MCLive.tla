------------------------------- MODULE MCLive -------------------------------
(* A camera that either device may be asked to share, and a screen that b  *)
(* may: two shares of one device follow each other or overlap, and two of  *)
(* two devices cross.                                                      *)
EXTENDS Live

CONSTANTS k1, k2
CameraOrScreen == {<<"a", k1>>, <<"b", k1>>, <<"b", k2>>}
=============================================================================

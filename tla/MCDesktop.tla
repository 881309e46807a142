----------------------------- MODULE MCDesktop ------------------------------
(***************************************************************************)
(* Effects under TLC: a page whose script animates two boxes as it likes,  *)
(* or the desktop of comment.js.                                           *)
(***************************************************************************)
EXTENDS Desktop

CONSTANTS none, b1, b2

MCBoxes == {b1, b2}
=============================================================================

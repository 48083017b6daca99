------------------------------ MODULE MCAssets ------------------------------
(* TLC checks Assets with model values only.                               *)
EXTENDS Assets
=============================================================================

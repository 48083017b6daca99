---------------------------- MODULE MCHandlers ----------------------------
(* Values for the constants of Handlers.                                   *)
EXTENDS Handlers

(* One program for every kind of call.                                     *)
Shapes == {<<"gpu">>, FadeOut, <<"cpu">>, <<"http">>, <<"speech">>, <<>>}
=============================================================================

---------------------------- MODULE MCLoginUpdate ----------------------------
(* Instance for TLC of the update of the login by itself.                   *)
EXTENDS LoginUpdate

RootOrder == <<"auth", "css">>
UserOrder == <<"session", "wants">>
=============================================================================

------------------------------ MODULE MCAppIcons ------------------------------
(* Two applications, one of whose first icons the server will not take.       *)
EXTENDS AppIcons

MCBad == {<<1, 1>>}
=============================================================================

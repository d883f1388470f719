---------------------------- MODULE MCSessions ----------------------------
(***************************************************************************)
(* One account, the administrator's, with two passwords, two requests at a *)
(* time, three tokens (a login and two rotations, or logins), one API key, *)
(* and a clock that passes the end of a token issued at its second tick.   *)
(* Nothing but the requests' own reads relates accounts to each other.     *)
(***************************************************************************)
EXTENDS Sessions

CONSTANTS admin, r1, r2, old, new
RequestsMC == {r1, r2}
=============================================================================

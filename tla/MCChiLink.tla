----------------------------- MODULE MCChiLink -----------------------------
(***************************************************************************)
(* Two channels in one direction and one in the other.                     *)
(***************************************************************************)
EXTENDS ChiLink

ThreeLinks == {<<"rn", 1>>, <<"rn", 2>>, <<"hn", 1>>}
OneLink == {<<"rn", 1>>}
=============================================================================

---------------------------- MODULE MCWebPlayer ----------------------------
(* Constants of the WebPlayer instances TLC checks.                        *)
EXTENDS WebPlayer

CONSTANTS a, b

OneList == {<<a, b>>}
=============================================================================

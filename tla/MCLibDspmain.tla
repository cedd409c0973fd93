---------------------------- MODULE MCLibDspmain ----------------------------
(* The answer to the first request is 16, which is also the size that a    *)
(* header of a reply has.                                                  *)
EXTENDS LibDspmain

MCAnswer(kind, n) == IF kind = MULT THEN 15 + n ELSE 30 + n
=============================================================================

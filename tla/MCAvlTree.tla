----------------------------- MODULE MCAvlTree -----------------------------
(* A second entry for the ids of Doubled, which an insertion must not let  *)
(* in while the first is there.                                            *)
EXTENDS AvlTree

CONSTANTS LastId, Doubled

MCEntry == [tunnel : 1..LastId, value : {"first"}]
             \cup [tunnel : Doubled, value : {"second"}]
=============================================================================

------------------------------ MODULE MCDialogue ------------------------------
(***************************************************************************)
(* Two updates of one customer, handled by two processes, from the start or  *)
(* from the middle of a draft: any two handlers with one fault between them. *)
(***************************************************************************)
EXTENDS Dialogue

CONSTANTS w1, w2, d1

MCWorkers == {w1, w2}
MCDrafts  == {d1}
===============================================================================

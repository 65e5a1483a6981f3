-------------------------------- MODULE NoValue --------------------------------
(***************************************************************************)
(* Python's None, in the modules that are put together: what is not there, *)
(* and no number.                                                          *)
(***************************************************************************)
EXTENDS Integers

CONSTANT None

ASSUME NoneIsNoNumber == None \notin Int
=============================================================================

------------------------- MODULE MCCharacterTokens -------------------------
(***************************************************************************)
(* TLC instances of CharacterTokens.                                       *)
(***************************************************************************)
EXTENDS CharacterTokens, TLC

(* Requests are interchangeable.                                           *)
Symmetry == Permutations(Requests)
=============================================================================

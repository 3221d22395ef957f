----------------------------- MODULE MCEsiCache -----------------------------
(***************************************************************************)
(* TLC instances of EsiCache.                                              *)
(***************************************************************************)
EXTENDS EsiCache, TLC

OnePersonal == <<"assets">>
OneCorp == <<"corp_assets">>

(* Requests are interchangeable.                                           *)
Symmetry == Permutations(Requests)
=============================================================================

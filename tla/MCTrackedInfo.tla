--------------------------- MODULE MCTrackedInfo ---------------------------
(***************************************************************************)
(* TLC instances of TrackedInfo: the times of the code in quarters of an   *)
(* hour (colonies 15 minutes, corporation assets an hour, a dispatch every *)
(* half hour).                                                             *)
(***************************************************************************)
EXTENDS TrackedInfo

MCTtl == [colonies |-> 1, corp_assets |-> 4]
MCPersonalKinds == {"colonies"}
MCCorpKinds == {"corp_assets"}
============================================================================

--------------------------- MODULE MCMarketPrices ---------------------------
(***************************************************************************)
(* TLC instance of MarketPrices: two fetch workers, as many as the         *)
(* autoscaler may run, so that a job can be redone while the one that lost *)
(* it goes on; one write worker, as without the autoscaler, beside which   *)
(* upserts that were cut off go on.                                        *)
(***************************************************************************)
EXTENDS MarketPrices

MCFetchers == {"fetch1", "fetch2"}
MCWriters == {"write1"}
MCTypes == {"ore", "fuel"}
=============================================================================

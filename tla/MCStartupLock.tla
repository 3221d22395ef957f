--------------------------- MODULE MCStartupLock ---------------------------
(***************************************************************************)
(* The TLC instance of StartupLock: the order of the defaults (poll 2s <   *)
(* wait 420s < ttl 480s), bodies that end within their lease, releases     *)
(* that may still be under way when it expires.                            *)
(***************************************************************************)
EXTENDS StartupLock
=============================================================================

----------------------------- MODULE MCStartup -----------------------------
(***************************************************************************)
(* TLC instance of Startup: three starts of pods of three releases.  From  *)
(* `base` on, `unique` changes an index and drops one, `renamed` gives an  *)
(* index another name.                                                     *)
(***************************************************************************)
EXTENDS Startup, TLC

MCReleases == {"base", "unique", "renamed"}

MCConfigs ==
    [base    |-> (ProductIndex :> ProductKeys) @@ ("owner" :> "owner") @@ ("old" :> "name"),
     unique  |-> (ProductIndex :> ProductKeys) @@ ("owner" :> "owner, unique"),
     renamed |-> (ProductIndex :> ProductKeys) @@ ("owner_id" :> "owner")]

(* The executions are interchangeable.                                     *)
Symmetry == Permutations(Holders)
============================================================================

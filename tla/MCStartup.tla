----------------------------- MODULE MCStartup -----------------------------
(***************************************************************************)
(* Startup with two shells, two checkouts that share a cache, and a port   *)
(* beside the default one.                                                 *)
(***************************************************************************)
EXTENDS Startup

MCSymmetry == Permutations(Processes) \union Permutations(Repos)
=============================================================================

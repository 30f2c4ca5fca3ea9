------------------------------ MODULE MCLogin ------------------------------
(***************************************************************************)
(* An instance of Login for TLC: three requests; the name "Al" is another  *)
(* spelling of "al", an administrator, and "bo" is not registered yet.     *)
(***************************************************************************)
EXTENDS Login, TLC

MCNormal == ("al" :> "al") @@ ("Al" :> "al") @@ ("bo" :> "bo")
MCAccounts == "al" :> 1
============================================================================

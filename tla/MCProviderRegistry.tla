------------------------- MODULE MCProviderRegistry -------------------------
(***************************************************************************)
(* A small instance of ProviderRegistry: two administrators at work on two *)
(* providers with a model, while a request looks for it.                   *)
(***************************************************************************)
EXTENDS ProviderRegistry, TLC

CONSTANTS a1, a2, p1, p2, s1, s2

AnyOrder == Permutations(Admins) \cup Permutations(Providers) \cup Permutations(Secrets)
=============================================================================

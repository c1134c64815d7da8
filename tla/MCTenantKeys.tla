---------------------------- MODULE MCTenantKeys ----------------------------
(***************************************************************************)
(* A small instance of TenantKeys: a generated key and a key of the        *)
(* environment, whose user may differ from one start to the next.          *)
(***************************************************************************)
EXTENDS TenantKeys, TLC

CONSTANTS k1, k2, u1, u2

Generated == [k \in Managed |-> u1]
EnvOf(u) == [k \in Keys |-> IF k = k2 THEN u ELSE NoUser]
AnyOrder == Permutations(Requests)
TwoEnvs == {EnvOf(u1), EnvOf(u2)}
=============================================================================

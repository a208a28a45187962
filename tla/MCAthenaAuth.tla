---------------------------- MODULE MCAthenaAuth ----------------------------
(* Small instances of AthenaAuth for TLC.                                  *)
EXTENDS AthenaAuth, TLC

\* Production issues JWTs; the development store has an opaque token.
AllTokens == {[e \in Envs |-> IF e = "production" THEN "jwt" ELSE "opaque"]}

\* The development store has no access token, or does not exist.
SomeMissing ==
    {[e \in Envs |-> IF e = "production" THEN "jwt" ELSE k] : k \in {"empty", "absent"}}

\* Coroutines of one kind run the same code.
ProcSymmetry == Permutations(Switches) \cup Permutations(Requests)
=============================================================================

--------------------------- MODULE MCSafeFactory ----------------------------
(* An instance of PagedReading: a factory and its successor, and a reader.   *)
EXTENDS PagedReading, TLC

CONSTANTS
  f1, f2, t1, t2, u1,
  MaxDeployedRead   \* bound: deployments in all once a reader began

Alike == {p @@ q : p \in Permutations(Factories), q \in Permutations(Tenants)}

Clones == [factory : Factories, tenant : Tenants, signer : Signers, nonce : 0 .. MaxNonce]

FewWhenRead == tenantRead' # None => Cardinality(code') <= MaxDeployedRead
MCSpec == ReaderInit /\ [][ReaderNext /\ FewWhenRead]_<<vars, readerVars>>
=============================================================================

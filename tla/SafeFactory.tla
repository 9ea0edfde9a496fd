---------------------------- MODULE SafeFactory -----------------------------
(***************************************************************************)
(* The factories of M2 Safes (contracts/src/SafeFactory.sol) over one      *)
(* TenantRegistry.  A factory is replaced by deploying another and         *)
(* authorizing it; each points at a registry of its owner's choice.        *)
(*                                                                         *)
(* CREATE2 makes an address of the factory and a salt, the hash of tenant, *)
(* signer and nonce: the four are the address here.  A call is atomic, and *)
(* one that reverts anywhere is no step.  The modules a Safe gets depend   *)
(* on its custody model and the factory's other settings and matter to     *)
(* nothing here: of deploying, enabling and setting them up only that any  *)
(* failure reverts the deployment is kept.                                 *)
(***************************************************************************)
EXTENDS TenantRegistry, FiniteSets

CONSTANTS
  Signers,     \* the owners of Safes
  MaxNonce,    \* bound: deployments of a factory for a tenant
  MaxDeployed  \* bound: deployments in all

ASSUME FactoryAssumption ==
  /\ MaxNonce \in Nat /\ MaxDeployed \in Nat
  /\ Safes = [factory : Factories, tenant : Tenants, signer : Signers, nonce : 0 .. MaxNonce]

VARIABLES
  registryOf,       \* registryOf[f]: the registry it calls; "here" is the one above
  deploymentNonce,  \* deploymentNonce[f][t]
  deployedSafes,    \* deployedSafes[f][t]: _deployedSafes
  code,             \* the addresses that hold a Safe
  removed           \* history: the Safes taken out of the registry

deployments == <<deploymentNonce, deployedSafes, code>>
vars        == <<registry, registryOf, deployments, removed>>

TypeOK ==
  /\ RegistryTypeOK
  /\ registryOf \in [Factories -> {"none", "here", "elsewhere"}]
  /\ deploymentNonce \in [Factories -> [Tenants -> 0 .. MaxNonce + 1]]
  /\ deployedSafes \in [Factories -> [Tenants -> Seq(Safes)]]
  /\ code \subseteq Safes
  /\ removed \subseteq Safes

Init ==
  /\ RegistryInit
  /\ registryOf = [f \in Factories |-> "none"]
  /\ deploymentNonce = [f \in Factories |-> [t \in Tenants |-> 0]]
  /\ deployedSafes = [f \in Factories |-> [t \in Tenants |-> <<>>]]
  /\ code = {}
  /\ removed = {}

-----------------------------------------------------------------------------
\* A registry can be replaced, not unset.
setRegistry(f, r) ==
  /\ r # "none"
  /\ registryOf' = [registryOf EXCEPT ![f] = r]
  /\ UNCHANGED <<registry, deployments, removed>>

\* computeSafeAddress for the nonce the factory is at.
SafeAddress(f, t, u) == [factory |-> f, tenant |-> t, signer |-> u, nonce |-> deploymentNonce[f][t]]

NextNonceMutant(f, t) == deploymentNonce[f][t]
NextNonce(f, t) == deploymentNonce[f][t] + 1

\* cloneDeterministic fails on an address that has code.
CloneSucceeds(s) == s \notin code

\* A registration that fails, as with a factory no longer trusted, reverts it all.
deploySafe(f, t, u) ==
  LET s == SafeAddress(f, t, u)
  IN  /\ deploymentNonce[f][t] <= MaxNonce /\ Cardinality(code) < MaxDeployed
      /\ CloneSucceeds(s)
      /\ code' = code \cup {s}
      /\ deployedSafes' = [deployedSafes EXCEPT ![f][t] = Append(@, s)]
      /\ deploymentNonce' = [deploymentNonce EXCEPT ![f][t] = NextNonce(f, t)]
      /\ \/ registryOf[f] = "here" /\ registerUser(f, t, s)
         \/ registryOf[f] = "elsewhere" /\ UNCHANGED registry
      /\ UNCHANGED <<registryOf, removed>>

-----------------------------------------------------------------------------
OwnerCall ==
  /\ \/ \E f \in Factories : setFactory(f)
     \/ \E t \in Tenants : registerTenant(t) \/ deactivateTenant(t) \/ reactivateTenant(t)
  /\ UNCHANGED <<registryOf, deployments, removed>>

RemoveUser(t, s) ==
  /\ removeUser(t, s)
  /\ removed' = removed \cup {s}
  /\ UNCHANGED <<registryOf, deployments>>

Next ==
  \/ OwnerCall
  \/ \E f \in Factories, r \in {"here", "elsewhere"} : setRegistry(f, r)
  \/ \E f \in Factories, t \in Tenants, u \in Signers : deploySafe(f, t, u)
  \/ \E t \in Tenants, s \in Safes : RemoveUser(t, s)

Spec == Init /\ [][Next]_vars

-----------------------------------------------------------------------------
(* Properties *)

\* No deployment fails because its address is taken: every address with code is
\* of a nonce the factory has used, and its list holds the Safe under that
\* nonce, through changes of registry and deployments that revert.
AddressesByNonce ==
  \A s \in code :
    LET list == deployedSafes[s.factory][s.tenant]
    IN  /\ Len(list) = deploymentNonce[s.factory][s.tenant]
        /\ s.nonce < Len(list) /\ list[s.nonce + 1] = s

\* A Safe enters the registry once, under its own tenant, and never returns.
TenantOfSafe == [s \in Safes |-> s.tenant]
Life == INSTANCE SafeLife WITH tenant <- safeToTenant, TenantOf <- TenantOfSafe
EntersOnce == Life!Spec
=============================================================================

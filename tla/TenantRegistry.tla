--------------------------- MODULE TenantRegistry ---------------------------
(***************************************************************************)
(* The storage and the calls of contracts/src/TenantRegistry.sol: which M2 *)
(* Safe belongs to which tenant, held five times over (a flag, a list, an  *)
(* index into the list, a count and a reverse map).                        *)
(*                                                                         *)
(* A call that reverts changes nothing and is no step.  The owner makes    *)
(* the calls that are not the factory's.                                   *)
(***************************************************************************)
EXTENDS Integers, Sequences

CONSTANTS
  Tenants,
  Safes,       \* the addresses of M2 Safes
  Factories,   \* the contracts the owner may authorize
  None         \* address(0), bytes32(0)

ASSUME RegistryAssumption == None \notin Tenants \cup Factories

VARIABLES
  factory,       \* who may register users
  tenantInfo,    \* _tenantInfo: registered (tenantSafe # 0), active, userCount
  isUser,        \* isUser[t]: the Safes s with _isUser[t][s]
  tenantUsers,   \* _tenantUsers[t]
  userIndex,     \* _userIndex[t][s], counted from 0
  safeToTenant   \* _safeToTenant[s]

registry == <<factory, tenantInfo, isUser, tenantUsers, userIndex, safeToTenant>>

TenantInfo == [registered : BOOLEAN, active : BOOLEAN, userCount : Nat]

RegistryTypeOK ==
  /\ factory \in Factories \cup {None}
  /\ tenantInfo \in [Tenants -> TenantInfo]
  /\ isUser \in [Tenants -> SUBSET Safes]
  /\ tenantUsers \in [Tenants -> Seq(Safes)]
  /\ userIndex \in [Tenants -> [Safes -> Nat]]
  /\ safeToTenant \in [Safes -> Tenants \cup {None}]

RegistryInit ==
  /\ factory = None
  /\ tenantInfo = [t \in Tenants |-> [registered |-> FALSE, active |-> FALSE, userCount |-> 0]]
  /\ isUser = [t \in Tenants |-> {}]
  /\ tenantUsers = [t \in Tenants |-> <<>>]
  /\ userIndex = [t \in Tenants |-> [s \in Safes |-> 0]]
  /\ safeToTenant = [s \in Safes |-> None]

users == <<isUser, tenantUsers, userIndex, safeToTenant>>

-----------------------------------------------------------------------------
(* Calls of the owner *)

setFactory(f) ==
  /\ factory' = f
  /\ UNCHANGED <<tenantInfo, users>>

IsNewMutant(t) == TRUE
IsNew(t) == ~tenantInfo[t].registered

registerTenant(t) ==
  /\ IsNew(t)
  /\ tenantInfo' = [tenantInfo EXCEPT ![t] =
       [registered |-> TRUE, active |-> TRUE, userCount |-> 0]]
  /\ UNCHANGED <<factory, users>>

deactivateTenant(t) ==
  /\ tenantInfo[t].registered
  /\ tenantInfo' = [tenantInfo EXCEPT ![t].active = FALSE]
  /\ UNCHANGED <<factory, users>>

reactivateTenant(t) ==
  /\ tenantInfo[t].registered
  /\ tenantInfo' = [tenantInfo EXCEPT ![t].active = TRUE]
  /\ UNCHANGED <<factory, users>>

\* Swap-and-pop: the last user takes the place of the one removed.
WithoutUser(t, s) ==
  [i \in 1 .. Len(tenantUsers[t]) - 1 |->
     IF i = userIndex[t][s] + 1 THEN tenantUsers[t][Len(tenantUsers[t])] ELSE tenantUsers[t][i]]

\* The index of the user that moved, then that of the one removed.
IndexWithoutUserMutant(t, s) == [userIndex[t] EXCEPT ![s] = 0]
IndexWithoutUser(t, s) ==
  [userIndex[t] EXCEPT ![tenantUsers[t][Len(tenantUsers[t])]] = userIndex[t][s], ![s] = 0]

ReverseWithoutMutant(s) == safeToTenant
ReverseWithout(s) == [safeToTenant EXCEPT ![s] = None]

MayRemoveMutant(t, s) == tenantUsers[t] # <<>>
MayRemove(t, s) == s \in isUser[t]

removeUser(t, s) ==
  /\ MayRemove(t, s)
  /\ tenantUsers' = [tenantUsers EXCEPT ![t] = WithoutUser(t, s)]
  /\ userIndex' = [userIndex EXCEPT ![t] = IndexWithoutUser(t, s)]
  /\ isUser' = [isUser EXCEPT ![t] = @ \ {s}]
  /\ safeToTenant' = ReverseWithout(s)
  /\ tenantInfo' = [tenantInfo EXCEPT ![t].userCount = @ - 1]
  /\ UNCHANGED factory

-----------------------------------------------------------------------------
(* The call of the factory *)

MayRegister(f, t, s) ==
  /\ f = factory
  /\ tenantInfo[t].registered /\ tenantInfo[t].active
  /\ s \notin isUser[t]

registerUser(f, t, s) ==
  /\ MayRegister(f, t, s)
  /\ isUser' = [isUser EXCEPT ![t] = @ \cup {s}]
  /\ safeToTenant' = [safeToTenant EXCEPT ![s] = t]
  /\ userIndex' = [userIndex EXCEPT ![t][s] = Len(tenantUsers[t])]
  /\ tenantUsers' = [tenantUsers EXCEPT ![t] = Append(@, s)]
  /\ tenantInfo' = [tenantInfo EXCEPT ![t].userCount = @ + 1]
  /\ UNCHANGED factory

-----------------------------------------------------------------------------
(* A view *)

PageSizeMutant(remaining, limit) == IF remaining <= limit THEN remaining - 1 ELSE limit
PageSize(remaining, limit) == IF remaining < limit THEN remaining ELSE limit

getUsersForTenant(t, offset, limit) ==
  LET total == Len(tenantUsers[t])
  IN  IF offset >= total \/ limit = 0 THEN <<>>
      ELSE SubSeq(tenantUsers[t], offset + 1, offset + PageSize(total - offset, limit))

-----------------------------------------------------------------------------
(* Properties *)

\* The flag, the list, the index and the count describe one set of users, each
\* listed once at its index, after any swaps (TenantRegistryInvariant.t.sol:37-64
\* samples it).
ListsAgree ==
  \A t \in Tenants :
    /\ tenantInfo[t].userCount = Len(tenantUsers[t])
    /\ \A i \in 1 .. Len(tenantUsers[t]) :
         tenantUsers[t][i] \in isUser[t] /\ userIndex[t][tenantUsers[t][i]] = i - 1
    /\ \A s \in isUser[t] :
         /\ userIndex[t][s] < Len(tenantUsers[t])
         /\ tenantUsers[t][userIndex[t][s] + 1] = s

\* The reverse map names the one tenant that lists a Safe, and no other lists
\* it.  registerUser only looks at the tenant it is given.
ReverseAgrees == \A t \in Tenants, s \in Safes : s \in isUser[t] <=> safeToTenant[s] = t
=============================================================================

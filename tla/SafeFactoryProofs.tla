------------------------- MODULE SafeFactoryProofs -------------------------
(***************************************************************************)
(* For any number of factories, tenants and Safes: the five views of a     *)
(* tenant's users agree, no address is used twice, a Safe enters the       *)
(* registry once, and a reader of the pages misses only what was moved.    *)
(***************************************************************************)
EXTENDS PagedReading, TLAPS

\* What the registry's calls keep among themselves.
RegistryInv == RegistryTypeOK /\ ListsAgree

\* A tenant's users are its own Safes, deployed and not removed since; a tenant
\* that is not registered has none.
UsersAreOwn ==
  /\ \A t \in Tenants, s \in Safes :
       s \in isUser[t] => s.tenant = t /\ s \in code /\ s \notin removed
  /\ removed \subseteq code
  /\ \A t \in Tenants : ~tenantInfo[t].registered => tenantUsers[t] = <<>>

\* Every deployment took the next nonce and the next place of its list.
NoncesCount ==
  /\ \A f \in Factories, t \in Tenants : Len(deployedSafes[f][t]) = deploymentNonce[f][t]
  /\ \A s \in code :
       /\ s.nonce < deploymentNonce[s.factory][s.tenant]
       /\ deployedSafes[s.factory][s.tenant][s.nonce + 1] = s

IInv == TypeOK /\ ListsAgree /\ ReverseAgrees /\ UsersAreOwn /\ NoncesCount

-----------------------------------------------------------------------------
(* The registry's own calls *)

\* A registration appends the Safe, at the index the list had as its length.
LEMMA RegisterKeepsLists ==
  ASSUME NEW f, NEW t \in Tenants, NEW s \in Safes, RegistryInv, registerUser(f, t, s)
  PROVE  RegistryInv'
<1> USE DEF RegistryInv
<1>1. factory' = factory
  BY DEF registerUser
<1>2. isUser' = [isUser EXCEPT ![t] = @ \cup {s}] /\ isUser' \in [Tenants -> SUBSET Safes]
  BY DEF registerUser, RegistryTypeOK
<1>3. /\ tenantUsers' = [tenantUsers EXCEPT ![t] = Append(@, s)]
      /\ tenantUsers' \in [Tenants -> Seq(Safes)]
  BY DEF registerUser, RegistryTypeOK
<1>4. /\ userIndex' = [userIndex EXCEPT ![t][s] = Len(tenantUsers[t])]
      /\ userIndex' \in [Tenants -> [Safes -> Nat]]
  BY DEF registerUser, RegistryTypeOK
<1>5. safeToTenant' \in [Safes -> Tenants \cup {None}]
  BY DEF registerUser, RegistryTypeOK
<1>6. /\ tenantInfo' = [tenantInfo EXCEPT ![t].userCount = @ + 1]
      /\ tenantInfo' \in [Tenants -> TenantInfo]
  <2>1. tenantInfo \in [Tenants -> TenantInfo] /\ tenantInfo[t] \in TenantInfo
    BY DEF RegistryTypeOK
  <2>2. [tenantInfo[t] EXCEPT !.userCount = @ + 1] \in TenantInfo
    BY <2>1 DEF TenantInfo
  <2>3. tenantInfo' = [tenantInfo EXCEPT ![t].userCount = @ + 1]
    BY DEF registerUser
  <2> QED BY <2>1, <2>2, <2>3
<1>7. RegistryTypeOK'
  BY <1>1, <1>2, <1>3, <1>4, <1>5, <1>6 DEF RegistryTypeOK
<1>8. ListsAgree'
  <2> SUFFICES ASSUME NEW u \in Tenants
               PROVE  /\ tenantInfo'[u].userCount = Len(tenantUsers'[u])
                      /\ \A i \in 1 .. Len(tenantUsers'[u]) :
                           /\ tenantUsers'[u][i] \in isUser'[u]
                           /\ userIndex'[u][tenantUsers'[u][i]] = i - 1
                      /\ \A x \in isUser'[u] :
                           /\ userIndex'[u][x] < Len(tenantUsers'[u])
                           /\ tenantUsers'[u][userIndex'[u][x] + 1] = x
    BY DEF ListsAgree
  <2>1. CASE u # t
    <3>1. /\ tenantInfo'[u] = tenantInfo[u] /\ tenantUsers'[u] = tenantUsers[u]
          /\ isUser'[u] = isUser[u] /\ userIndex'[u] = userIndex[u]
      BY <2>1, <1>2, <1>3, <1>4, <1>6 DEF RegistryTypeOK
    <3> QED BY <3>1 DEF ListsAgree
  <2>2. CASE u = t
    <3>1. /\ tenantUsers[t] \in Seq(Safes) /\ isUser[t] \subseteq Safes
          /\ userIndex[t] \in [Safes -> Nat] /\ s \notin isUser[t]
      BY DEF RegistryTypeOK, registerUser, MayRegister
    <3>2. /\ isUser'[t] = isUser[t] \cup {s}
          /\ tenantUsers'[t] = Append(tenantUsers[t], s)
          /\ userIndex'[t] = [userIndex[t] EXCEPT ![s] = Len(tenantUsers[t])]
          /\ tenantInfo'[t].userCount = tenantInfo[t].userCount + 1
      BY <1>2, <1>3, <1>4, <1>6 DEF RegistryTypeOK, TenantInfo
    <3>3. Len(tenantUsers'[t]) = Len(tenantUsers[t]) + 1 /\ Len(tenantUsers[t]) \in Nat
      BY <3>1, <3>2
    <3>4. tenantInfo'[t].userCount = Len(tenantUsers'[t])
      BY <3>2, <3>3 DEF ListsAgree
    <3>5. ASSUME NEW i \in 1 .. Len(tenantUsers'[t])
          PROVE  /\ tenantUsers'[t][i] \in isUser'[t]
                 /\ userIndex'[t][tenantUsers'[t][i]] = i - 1
      <4>1. CASE i = Len(tenantUsers[t]) + 1
        BY <4>1, <3>1, <3>2, <3>3
      <4>2. CASE i # Len(tenantUsers[t]) + 1
        <5>1. i \in 1 .. Len(tenantUsers[t]) /\ tenantUsers'[t][i] = tenantUsers[t][i]
          BY <4>2, <3>1, <3>2, <3>3
        <5>2. tenantUsers[t][i] \in isUser[t] /\ userIndex[t][tenantUsers[t][i]] = i - 1
          BY <5>1 DEF ListsAgree
        <5> QED BY <5>1, <5>2, <3>1, <3>2
      <4> QED BY <4>1, <4>2
    <3>6. ASSUME NEW x \in isUser'[t]
          PROVE  /\ userIndex'[t][x] < Len(tenantUsers'[t])
                 /\ tenantUsers'[t][userIndex'[t][x] + 1] = x
      <4>1. CASE x = s
        BY <4>1, <3>1, <3>2, <3>3
      <4>2. CASE x # s
        <5>1. x \in isUser[t] /\ userIndex'[t][x] = userIndex[t][x] /\ userIndex[t][x] \in Nat
          BY <4>2, <3>1, <3>2
        <5>2. userIndex[t][x] < Len(tenantUsers[t]) /\ tenantUsers[t][userIndex[t][x] + 1] = x
          BY <5>1 DEF ListsAgree
        <5> QED BY <5>1, <5>2, <3>1, <3>2, <3>3
      <4> QED BY <4>1, <4>2
    <3> QED BY <2>2, <3>4, <3>5, <3>6
  <2> QED BY <2>1, <2>2
<1> QED BY <1>7, <1>8

\* A removal moves the last Safe of the list into the gap and sets its index.
LEMMA RemoveKeepsLists ==
  ASSUME NEW t \in Tenants, NEW s \in Safes, RegistryInv, removeUser(t, s)
  PROVE  RegistryInv'
<1> USE DEF RegistryInv
<1> DEFINE list == tenantUsers[t]
           index == userIndex[t]
           last == list[Len(list)]
<1>1. /\ list \in Seq(Safes) /\ isUser[t] \subseteq Safes /\ index \in [Safes -> Nat]
      /\ tenantInfo[t] \in TenantInfo /\ s \in isUser[t]
  BY DEF RegistryTypeOK, removeUser, MayRemove
<1>2. Len(list) \in Nat /\ index[s] \in Nat /\ index[s] < Len(list) /\ list[index[s] + 1] = s
  BY <1>1 DEF ListsAgree
<1>3. last \in isUser[t] /\ last \in Safes /\ index[last] = Len(list) - 1
  <2>1. Len(list) \in 1 .. Len(list)
    BY <1>2
  <2> QED BY <2>1, <1>1 DEF ListsAgree
<1>4. \A i \in 1 .. Len(list) : list[i] \in isUser[t] /\ index[list[i]] = i - 1
  BY DEF ListsAgree
<1>5. \A x \in isUser[t] : index[x] < Len(list) /\ list[index[x] + 1] = x /\ index[x] \in Nat
  BY <1>1 DEF ListsAgree
<1>6. tenantInfo[t].userCount = Len(list)
  BY DEF ListsAgree
<1> DEFINE list1 == WithoutUser(t, s)
           index1 == IndexWithoutUser(t, s)
<1>7. list1 \in Seq(Safes) /\ Len(list1) = Len(list) - 1
  <2>1. Len(list) - 1 \in Nat
    BY <1>2
  <2>2. \A i \in 1 .. Len(list) - 1 : list1[i] \in Safes
    BY <1>1, <1>2, <1>3 DEF WithoutUser
  <2>3. list1 = [i \in 1 .. Len(list) - 1 |-> list1[i]]
    BY DEF WithoutUser
  <2>4. PICK n \in Nat : n = Len(list) - 1
    BY <2>1
  <2> HIDE DEF list1
  <2>5. list1 \in [1 .. n -> Safes]
    BY <2>2, <2>3, <2>4
  <2>6. list1 \in Seq(Safes)
    BY <2>5
  <2>7. Len(list1) = n
    BY <2>5, <2>6
  <2> QED BY <2>4, <2>6, <2>7
<1>8. \A i \in 1 .. Len(list) - 1 : list1[i] = IF i = index[s] + 1 THEN last ELSE list[i]
  BY DEF WithoutUser
<1>9. /\ index1 \in [Safes -> Nat]
      /\ \A x \in Safes : index1[x] = IF x = s THEN 0 ELSE IF x = last THEN index[s] ELSE index[x]
  BY <1>1, <1>2, <1>3 DEF IndexWithoutUser
<1>10. /\ tenantUsers' = [tenantUsers EXCEPT ![t] = list1]
       /\ userIndex' = [userIndex EXCEPT ![t] = index1]
       /\ isUser' = [isUser EXCEPT ![t] = @ \ {s}]
       /\ tenantInfo' = [tenantInfo EXCEPT ![t].userCount = @ - 1]
  BY DEF removeUser
<1> HIDE DEF list1, index1
<1>11. [tenantInfo[t] EXCEPT !.userCount = @ - 1] \in TenantInfo
  BY <1>1, <1>2, <1>6 DEF TenantInfo
<1>12. RegistryTypeOK'
  <2>1. factory' \in Factories \cup {None}
    BY DEF RegistryTypeOK, removeUser
  <2>2. tenantInfo' \in [Tenants -> TenantInfo]
    BY <1>10, <1>11 DEF RegistryTypeOK
  <2>3. /\ isUser' \in [Tenants -> SUBSET Safes]
        /\ tenantUsers' \in [Tenants -> Seq(Safes)]
        /\ userIndex' \in [Tenants -> [Safes -> Nat]]
    BY <1>7, <1>9, <1>10 DEF RegistryTypeOK
  <2>4. safeToTenant' \in [Safes -> Tenants \cup {None}]
    BY DEF RegistryTypeOK, removeUser, ReverseWithout
  <2> QED BY <2>1, <2>2, <2>3, <2>4 DEF RegistryTypeOK
<1>13. ListsAgree'
  <2> SUFFICES ASSUME NEW u \in Tenants
               PROVE  /\ tenantInfo'[u].userCount = Len(tenantUsers'[u])
                      /\ \A i \in 1 .. Len(tenantUsers'[u]) :
                           /\ tenantUsers'[u][i] \in isUser'[u]
                           /\ userIndex'[u][tenantUsers'[u][i]] = i - 1
                      /\ \A x \in isUser'[u] :
                           /\ userIndex'[u][x] < Len(tenantUsers'[u])
                           /\ tenantUsers'[u][userIndex'[u][x] + 1] = x
    BY DEF ListsAgree
  <2>1. CASE u # t
    <3>1. /\ tenantInfo'[u] = tenantInfo[u] /\ tenantUsers'[u] = tenantUsers[u]
          /\ isUser'[u] = isUser[u] /\ userIndex'[u] = userIndex[u]
      BY <2>1, <1>10 DEF RegistryTypeOK
    <3> QED BY <3>1 DEF ListsAgree
  <2>2. CASE u = t
    <3>1. /\ isUser'[t] = isUser[t] \ {s}
          /\ tenantUsers'[t] = list1 /\ userIndex'[t] = index1
          /\ tenantInfo'[t].userCount = tenantInfo[t].userCount - 1
      BY <1>10, <1>1 DEF RegistryTypeOK, TenantInfo
    <3>2. tenantInfo'[t].userCount = Len(tenantUsers'[t])
      BY <3>1, <1>6, <1>7
    <3>3. ASSUME NEW i \in 1 .. Len(list1)
          PROVE  list1[i] \in isUser[t] \ {s} /\ index1[list1[i]] = i - 1
      <4>1. i \in 1 .. Len(list) - 1 /\ i \in 1 .. Len(list) /\ i # Len(list)
        BY <1>2, <1>7
      <4>2. CASE i = index[s] + 1
        <5>1. list1[i] = last /\ last # s
          BY <4>1, <4>2, <1>2, <1>3, <1>8
        <5> QED BY <5>1, <4>2, <1>2, <1>3, <1>9
      <4>3. CASE i # index[s] + 1
        <5>1. list1[i] = list[i] /\ list[i] \in isUser[t] /\ index[list[i]] = i - 1
          BY <4>1, <4>3, <1>4, <1>8
        <5>2. list[i] \in Safes
          BY <5>1, <1>1
        <5>3. list[i] # s
          BY <5>1, <4>1, <4>3, <1>2
        <5>4. list[i] # last
          BY <5>1, <4>1, <1>2, <1>3
        <5> QED BY <5>1, <5>2, <5>3, <5>4, <1>9
      <4> QED BY <4>2, <4>3
    <3>4. ASSUME NEW x \in isUser[t] \ {s}
          PROVE  index1[x] < Len(list1) /\ list1[index1[x] + 1] = x
      <4>1. x \in Safes /\ x # s
        BY <1>1
      <4>2. CASE x = last
        <5>1. index1[x] = index[s]
          BY <4>1, <4>2, <1>9
        <5>2. index[s] # Len(list) - 1
          BY <4>1, <4>2, <1>2
        <5>3. index[s] + 1 \in 1 .. Len(list) - 1
          BY <5>2, <1>2
        <5> QED BY <5>1, <5>2, <5>3, <4>2, <1>2, <1>7, <1>8
      <4>3. CASE x # last
        <5>1. /\ index1[x] = index[x] /\ index[x] \in Nat
              /\ index[x] < Len(list) /\ list[index[x] + 1] = x
          BY <4>1, <4>3, <1>5, <1>9
        <5>2. index[x] # Len(list) - 1 /\ index[x] # index[s]
          BY <5>1, <4>1, <4>3, <1>2
        <5>3. index[x] + 1 \in 1 .. Len(list) - 1 /\ index[x] + 1 # index[s] + 1
          BY <5>1, <5>2, <1>2
        <5>4. list1[index[x] + 1] = x
          BY <5>1, <5>3, <1>8
        <5> QED BY <5>1, <5>3, <5>4, <1>2, <1>7
      <4> QED BY <4>2, <4>3
    <3> QED BY <2>2, <3>1, <3>2, <3>3, <3>4
  <2> QED BY <2>1, <2>2
<1> QED BY <1>12, <1>13

\* The owner's calls change no user; a tenant is registered with none.
LEMMA OwnerCallKeepsLists ==
  ASSUME IInv, OwnerCall
  PROVE  RegistryInv' /\ UNCHANGED users
               /\ \A t \in Tenants : ~tenantInfo[t].registered' => ~tenantInfo[t].registered
<1> USE DEF IInv, TypeOK
<1>1. ASSUME NEW f \in Factories, setFactory(f)
      PROVE  /\ RegistryInv' /\ UNCHANGED users
             /\ \A t \in Tenants : ~tenantInfo[t].registered' => ~tenantInfo[t].registered
  BY <1>1 DEF setFactory, users, RegistryInv, RegistryTypeOK, ListsAgree
<1>2. ASSUME NEW t \in Tenants, registerTenant(t) \/ deactivateTenant(t) \/ reactivateTenant(t)
      PROVE  /\ RegistryInv' /\ UNCHANGED users
             /\ \A u \in Tenants : ~tenantInfo[u].registered' => ~tenantInfo[u].registered
  <2>1. UNCHANGED <<factory, users>>
    BY <1>2 DEF registerTenant, deactivateTenant, reactivateTenant
  <2>2. /\ \A u \in Tenants : tenantInfo[u] \in TenantInfo
        /\ tenantInfo \in [Tenants -> TenantInfo]
    BY DEF RegistryTypeOK
  <2>3. PICK new \in TenantInfo :
          /\ tenantInfo' = [tenantInfo EXCEPT ![t] = new]
          /\ new.userCount = Len(tenantUsers[t])
          /\ ~new.registered => ~tenantInfo[t].registered
    <3>1. CASE registerTenant(t)
      <4>1. Len(tenantUsers[t]) = 0
        BY <3>1 DEF registerTenant, IsNew, UsersAreOwn
      <4> DEFINE fresh == [registered |-> TRUE, active |-> TRUE, userCount |-> 0]
      <4>2. tenantInfo' = [tenantInfo EXCEPT ![t] = fresh]
        BY <3>1 DEF registerTenant
      <4>3. fresh \in TenantInfo /\ fresh.userCount = 0 /\ fresh.registered
        BY DEF TenantInfo
      <4> QED BY <4>1, <4>2, <4>3
    <3>2. CASE deactivateTenant(t)
      <4>1. tenantInfo' = [tenantInfo EXCEPT ![t] = [tenantInfo[t] EXCEPT !.active = FALSE]]
        BY <3>2, <2>2 DEF deactivateTenant
      <4>2. [tenantInfo[t] EXCEPT !.active = FALSE] \in TenantInfo
        BY <2>2 DEF TenantInfo
      <4>3. tenantInfo[t].userCount = Len(tenantUsers[t])
        BY DEF ListsAgree
      <4> QED BY <4>1, <4>2, <4>3, <2>2 DEF TenantInfo
    <3>3. CASE reactivateTenant(t)
      <4>1. tenantInfo' = [tenantInfo EXCEPT ![t] = [tenantInfo[t] EXCEPT !.active = TRUE]]
        BY <3>3, <2>2 DEF reactivateTenant
      <4>2. [tenantInfo[t] EXCEPT !.active = TRUE] \in TenantInfo
        BY <2>2 DEF TenantInfo
      <4>3. tenantInfo[t].userCount = Len(tenantUsers[t])
        BY DEF ListsAgree
      <4> QED BY <4>1, <4>2, <4>3, <2>2 DEF TenantInfo
    <3> QED BY <1>2, <3>1, <3>2, <3>3
  <2>4. \A u \in Tenants : tenantInfo'[u] = IF u = t THEN new ELSE tenantInfo[u]
    BY <2>2, <2>3
  <2>5. RegistryTypeOK'
    BY <2>1, <2>2, <2>3 DEF RegistryTypeOK, users
  <2>6. ListsAgree'
    BY <2>1, <2>3, <2>4 DEF ListsAgree, users
  <2> QED BY <2>1, <2>3, <2>4, <2>5, <2>6 DEF RegistryInv
<1> QED BY <1>1, <1>2 DEF OwnerCall

-----------------------------------------------------------------------------
(* Deployment *)

\* The address of the next deployment is new, and of the tenant.
LEMMA AddressIsNew ==
  ASSUME TypeOK, NEW f \in Factories, NEW t \in Tenants, NEW u \in Signers, deploySafe(f, t, u)
  PROVE  LET s == SafeAddress(f, t, u)
         IN  /\ s \in Safes /\ s \notin code
             /\ s.factory = f /\ s.tenant = t /\ s.nonce = deploymentNonce[f][t]
<1>1. deploymentNonce[f][t] \in 0 .. MaxNonce
  BY FactoryAssumption DEF TypeOK, deploySafe
<1> QED BY <1>1, FactoryAssumption DEF SafeAddress, deploySafe, CloneSucceeds

\* The lists and nonces after a deployment.
LEMMA DeployCounts ==
  ASSUME TypeOK, NoncesCount,
         NEW f \in Factories, NEW t \in Tenants, NEW u \in Signers, deploySafe(f, t, u)
  PROVE  /\ deploymentNonce' \in [Factories -> [Tenants -> 0 .. MaxNonce + 1]]
         /\ deployedSafes' \in [Factories -> [Tenants -> Seq(Safes)]]
         /\ code' \subseteq Safes
         /\ NoncesCount'
<1> DEFINE s == SafeAddress(f, t, u)
           list == deployedSafes[f][t]
           n == deploymentNonce[f][t]
<1>1. /\ s \in Safes /\ s \notin code
      /\ s.factory = f /\ s.tenant = t /\ s.nonce = n
  BY AddressIsNew
<1>2. /\ code' = code \cup {s}
      /\ deployedSafes' = [deployedSafes EXCEPT ![f][t] = Append(@, s)]
      /\ deploymentNonce' = [deploymentNonce EXCEPT ![f][t] = n + 1]
      /\ n <= MaxNonce
  BY DEF deploySafe, NextNonce
<1>3. n \in Nat /\ list \in Seq(Safes) /\ Len(list) = n
  <2>1. n \in 0 .. MaxNonce + 1 /\ list \in Seq(Safes)
    BY DEF TypeOK
  <2>2. Len(list) = n
    BY DEF NoncesCount
  <2> QED BY <2>1, <2>2, FactoryAssumption
<1>4. n + 1 \in 0 .. MaxNonce + 1
  BY <1>2, <1>3, FactoryAssumption
<1> HIDE DEF s
<1>5. Append(list, s) \in Seq(Safes) /\ Len(Append(list, s)) = n + 1
  BY <1>1, <1>3
<1>6. /\ deploymentNonce' \in [Factories -> [Tenants -> 0 .. MaxNonce + 1]]
      /\ deployedSafes' \in [Factories -> [Tenants -> Seq(Safes)]]
      /\ code' \subseteq Safes
  BY <1>1, <1>2, <1>4, <1>5 DEF TypeOK
<1>7. ASSUME NEW g \in Factories, NEW v \in Tenants
      PROVE  /\ g = f /\ v = t => deployedSafes'[g][v] = Append(list, s) /\ deploymentNonce'[g][v] = n + 1
             /\ ~(g = f /\ v = t) => /\ deployedSafes'[g][v] = deployedSafes[g][v]
                                   /\ deploymentNonce'[g][v] = deploymentNonce[g][v]
  BY <1>2 DEF TypeOK
<1>8. ASSUME NEW g \in Factories, NEW v \in Tenants
      PROVE  Len(deployedSafes'[g][v]) = deploymentNonce'[g][v]
  BY <1>5, <1>7 DEF NoncesCount
<1>9. ASSUME NEW x \in code'
      PROVE  /\ x.nonce < deploymentNonce'[x.factory][x.tenant]
             /\ deployedSafes'[x.factory][x.tenant][x.nonce + 1] = x
  <2>1. CASE x = s
    <3>1. /\ deploymentNonce'[x.factory][x.tenant] = n + 1
          /\ deployedSafes'[x.factory][x.tenant] = Append(list, s)
      BY <2>1, <1>1, <1>7
    <3> QED BY <3>1, <2>1, <1>1, <1>3
  <2>2. CASE x # s
    <3>1. x \in code /\ x \in Safes
      BY <2>2, <1>2 DEF TypeOK
    <3>2. x.factory \in Factories /\ x.tenant \in Tenants /\ x.nonce \in Nat
      BY <3>1, FactoryAssumption
    <3>3. /\ x.nonce < deploymentNonce[x.factory][x.tenant]
          /\ deployedSafes[x.factory][x.tenant][x.nonce + 1] = x
      BY <3>1 DEF NoncesCount
    <3>4. CASE x.factory = f /\ x.tenant = t
      <4>1. x.nonce < n /\ list[x.nonce + 1] = x
        BY <3>3, <3>4
      <4>2. x.nonce + 1 \in 1 .. Len(list)
        BY <4>1, <3>2, <1>3
      <4>3. Append(list, s)[x.nonce + 1] = x
        BY <4>1, <4>2, <1>1, <1>3
      <4> QED BY <4>1, <4>3, <3>2, <3>4, <1>3, <1>7
    <3>5. CASE ~(x.factory = f /\ x.tenant = t)
      BY <3>2, <3>3, <3>5, <1>7
    <3> QED BY <3>4, <3>5
  <2> QED BY <2>1, <2>2
<1> QED BY <1>6, <1>8, <1>9 DEF NoncesCount

-----------------------------------------------------------------------------
(* The invariant *)

LEMMA InitInv == Init => IInv
<1> SUFFICES ASSUME Init PROVE IInv
  OBVIOUS
<1> USE DEF Init, RegistryInit
<1>1. RegistryTypeOK
  BY DEF RegistryTypeOK, TenantInfo
<1>2. TypeOK
  BY <1>1, FactoryAssumption DEF TypeOK
<1>3. ListsAgree /\ UsersAreOwn
  BY DEF ListsAgree, UsersAreOwn
<1>4. ReverseAgrees
  BY RegistryAssumption DEF ReverseAgrees
<1>5. NoncesCount
  BY DEF NoncesCount
<1> QED BY <1>2, <1>3, <1>4, <1>5 DEF IInv

LEMMA DeployInv ==
  ASSUME IInv, NEW f \in Factories, NEW t \in Tenants, NEW u \in Signers, deploySafe(f, t, u)
  PROVE  IInv'
<1> USE DEF IInv
<1> DEFINE s == SafeAddress(f, t, u)
<1>1. s \in Safes /\ s \notin code /\ s.tenant = t
  BY AddressIsNew
<1>2. /\ code' = code \cup {s}
      /\ UNCHANGED <<registryOf, removed>>
      /\ registerUser(f, t, s) \/ UNCHANGED registry
  BY DEF deploySafe
<1> HIDE DEF s
<1>3. /\ deploymentNonce' \in [Factories -> [Tenants -> 0 .. MaxNonce + 1]]
      /\ deployedSafes' \in [Factories -> [Tenants -> Seq(Safes)]]
      /\ code' \subseteq Safes
      /\ NoncesCount'
  BY DeployCounts
<1>4. CASE UNCHANGED registry
  <2>1. RegistryTypeOK' /\ ListsAgree' /\ ReverseAgrees'
    BY <1>4 DEF registry, TypeOK, RegistryTypeOK, ListsAgree, ReverseAgrees
  <2>2. UsersAreOwn'
    BY <1>2, <1>4 DEF registry, UsersAreOwn
  <2> QED BY <1>2, <1>3, <2>1, <2>2 DEF TypeOK
<1>5. CASE registerUser(f, t, s)
  <2>1. RegistryTypeOK' /\ ListsAgree'
    BY <1>1, <1>5, RegisterKeepsLists DEF RegistryInv, TypeOK
  <2>2. /\ \A v \in Tenants, x \in Safes :
             x \in isUser'[v] <=> x \in isUser[v] \/ (v = t /\ x = s)
        /\ \A x \in Safes : x # s => safeToTenant'[x] = safeToTenant[x]
        /\ safeToTenant'[s] = t
    BY <1>1, <1>5 DEF registerUser, TypeOK, RegistryTypeOK
  <2>3. \A v \in Tenants : s \notin isUser[v]
    BY <1>1 DEF UsersAreOwn
  <2>4. ReverseAgrees'
    <3> SUFFICES ASSUME NEW v \in Tenants, NEW x \in Safes
                 PROVE  x \in isUser'[v] <=> safeToTenant'[x] = v
      BY DEF ReverseAgrees
    <3>1. x \in isUser[v] <=> safeToTenant[x] = v
      BY DEF ReverseAgrees
    <3> QED BY <3>1, <2>2, <2>3
  <2>5. ASSUME NEW v \in Tenants, NEW x \in Safes, x \in isUser'[v]
        PROVE  x.tenant = v /\ x \in code' /\ x \notin removed'
    <3>1. x \in isUser[v] => x.tenant = v /\ x \in code /\ x \notin removed
      BY DEF UsersAreOwn
    <3>2. s \notin removed
      BY <1>1 DEF UsersAreOwn
    <3> QED BY <3>1, <3>2, <1>1, <1>2, <2>2, <2>5
  <2>6. \A v \in Tenants : ~tenantInfo'[v].registered => tenantUsers'[v] = <<>>
    <3>1. /\ tenantInfo[t].registered
          /\ tenantInfo \in [Tenants -> TenantInfo] /\ tenantUsers \in [Tenants -> Seq(Safes)]
      BY <1>5 DEF registerUser, MayRegister, TypeOK, RegistryTypeOK
    <3>2. /\ tenantInfo' = [tenantInfo EXCEPT ![t] = [tenantInfo[t] EXCEPT !.userCount = @ + 1]]
          /\ \A v \in Tenants : v # t => tenantUsers'[v] = tenantUsers[v]
      BY <1>5, <3>1 DEF registerUser
    <3>3. \A v \in Tenants : tenantInfo'[v].registered = tenantInfo[v].registered
      BY <3>1, <3>2 DEF TenantInfo
    <3> QED BY <3>1, <3>2, <3>3 DEF UsersAreOwn
  <2>7. UsersAreOwn'
    BY <1>2, <2>5, <2>6 DEF UsersAreOwn
  <2> QED BY <1>2, <1>3, <2>1, <2>4, <2>7 DEF TypeOK
<1> QED BY <1>2, <1>4, <1>5

LEMMA RemoveInv ==
  ASSUME IInv, NEW t \in Tenants, NEW s \in Safes, RemoveUser(t, s)
  PROVE  IInv'
<1> USE DEF IInv
<1>1. removeUser(t, s) /\ removed' = removed \cup {s} /\ UNCHANGED <<registryOf, deployments>>
  BY DEF RemoveUser
<1>2. RegistryTypeOK' /\ ListsAgree'
  BY <1>1, RemoveKeepsLists DEF RegistryInv, TypeOK
<1>3. s \in isUser[t] /\ s.tenant = t /\ s \in code
  BY <1>1 DEF removeUser, MayRemove, UsersAreOwn
<1>4. /\ \A v \in Tenants, x \in Safes :
           x \in isUser'[v] <=> x \in isUser[v] /\ ~(v = t /\ x = s)
      /\ \A x \in Safes : x # s => safeToTenant'[x] = safeToTenant[x]
      /\ safeToTenant'[s] = None
  BY <1>1 DEF removeUser, ReverseWithout, TypeOK, RegistryTypeOK
<1>5. ReverseAgrees'
  <2> SUFFICES ASSUME NEW v \in Tenants, NEW x \in Safes
               PROVE  x \in isUser'[v] <=> safeToTenant'[x] = v
    BY DEF ReverseAgrees
  <2>1. (x \in isUser[v] <=> safeToTenant[x] = v) /\ v # None
    BY RegistryAssumption DEF ReverseAgrees
  <2>2. x = s /\ v # t => x \notin isUser[v]
    BY <1>3 DEF UsersAreOwn
  <2> QED BY <2>1, <2>2, <1>4
<1>6. ASSUME NEW v \in Tenants, NEW x \in Safes, x \in isUser'[v]
      PROVE  x.tenant = v /\ x \in code' /\ x \notin removed'
  <2>1. x \in isUser[v]
    BY <1>4, <1>6
  <2>2. x.tenant = v /\ x \in code /\ x \notin removed
    BY <2>1 DEF UsersAreOwn
  <2>3. x # s
    BY <2>1, <2>2, <1>3, <1>4, <1>6
  <2> QED BY <2>2, <2>3, <1>1 DEF deployments
<1>7. \A v \in Tenants : ~tenantInfo'[v].registered => tenantUsers'[v] = <<>>
  <2>1. /\ tenantInfo \in [Tenants -> TenantInfo] /\ tenantUsers \in [Tenants -> Seq(Safes)]
        /\ userIndex[t][s] \in Nat
    BY DEF TypeOK, RegistryTypeOK
  <2>2. userIndex[t][s] < Len(tenantUsers[t])
    BY <1>3 DEF ListsAgree
  <2>3. tenantInfo[t].registered
    BY <2>1, <2>2 DEF UsersAreOwn
  <2>4. /\ tenantInfo' = [tenantInfo EXCEPT ![t] = [tenantInfo[t] EXCEPT !.userCount = @ - 1]]
        /\ \A v \in Tenants : v # t => tenantUsers'[v] = tenantUsers[v]
    BY <1>1, <2>1 DEF removeUser
  <2>5. \A v \in Tenants : tenantInfo'[v].registered = tenantInfo[v].registered
    BY <2>1, <2>4 DEF TenantInfo
  <2> QED BY <2>3, <2>4, <2>5 DEF UsersAreOwn
<1>8. UsersAreOwn' /\ NoncesCount'
  BY <1>1, <1>3, <1>6, <1>7 DEF UsersAreOwn, NoncesCount, deployments
<1>9. TypeOK'
  BY <1>1, <1>2 DEF TypeOK, deployments
<1> QED BY <1>2, <1>5, <1>8, <1>9

LEMMA StepInv == IInv /\ [Next]_vars => IInv'
<1> SUFFICES ASSUME IInv, [Next]_vars PROVE IInv'
  OBVIOUS
<1> USE DEF IInv
<1>1. CASE OwnerCall
  <2>1. /\ RegistryInv' /\ UNCHANGED users
        /\ \A t \in Tenants : ~tenantInfo[t].registered' => ~tenantInfo[t].registered
    BY <1>1, OwnerCallKeepsLists
  <2>2. UNCHANGED <<registryOf, deployments, removed>>
    BY <1>1 DEF OwnerCall
  <2>3. TypeOK' /\ ListsAgree'
    BY <2>1, <2>2 DEF RegistryInv, TypeOK, deployments
  <2>4. ReverseAgrees' /\ NoncesCount' /\ UsersAreOwn'
    BY <2>1, <2>2 DEF ReverseAgrees, NoncesCount, UsersAreOwn, users, deployments
  <2> QED BY <2>3, <2>4
<1>2. ASSUME NEW f \in Factories, NEW r \in {"here", "elsewhere"}, setRegistry(f, r)
      PROVE  IInv'
  BY <1>2 DEF setRegistry, registry, deployments, TypeOK, RegistryTypeOK, ListsAgree,
              ReverseAgrees, UsersAreOwn, NoncesCount
<1>3. ASSUME NEW f \in Factories, NEW t \in Tenants, NEW u \in Signers, deploySafe(f, t, u)
      PROVE  IInv'
  BY <1>3, DeployInv
<1>4. ASSUME NEW t \in Tenants, NEW s \in Safes, RemoveUser(t, s)
      PROVE  IInv'
  BY <1>4, RemoveInv
<1>5. CASE UNCHANGED vars
  BY <1>5 DEF vars, registry, deployments, TypeOK, RegistryTypeOK, ListsAgree,
              ReverseAgrees, UsersAreOwn, NoncesCount
<1> QED BY <1>1, <1>2, <1>3, <1>4, <1>5 DEF Next

LEMMA Inductive == Spec => []IInv
<1> QED BY InitInv, StepInv, PTL DEF Spec

\* Every variable keeps its type, a tenant's user count its sign.
THEOREM TypeCorrect == Spec => []TypeOK
<1>1. IInv => TypeOK
  BY DEF IInv
<1> QED BY <1>1, Inductive, PTL

\* The flag, list, index and count of every tenant's users agree, after swaps
\* and pops in any order and for any number of users.
THEOREM ListsAgreeHolds == Spec => []ListsAgree
<1>1. IInv => ListsAgree
  BY DEF IInv
<1> QED BY <1>1, Inductive, PTL

\* The reverse map names the one tenant that lists a Safe.
THEOREM ReverseAgreesHolds == Spec => []ReverseAgrees
<1>1. IInv => ReverseAgrees
  BY DEF IInv
<1> QED BY <1>1, Inductive, PTL

\* No deployment fails because its address is taken.
THEOREM AddressesByNonceHolds == Spec => []AddressesByNonce
<1>1. IInv => AddressesByNonce
  <2> SUFFICES ASSUME IInv, NEW s \in code
               PROVE  LET list == deployedSafes[s.factory][s.tenant]
                      IN  /\ Len(list) = deploymentNonce[s.factory][s.tenant]
                          /\ s.nonce < Len(list) /\ list[s.nonce + 1] = s
    BY DEF AddressesByNonce
  <2>1. s.factory \in Factories /\ s.tenant \in Tenants
    BY FactoryAssumption DEF IInv, TypeOK
  <2> QED BY <2>1 DEF IInv, NoncesCount
<1> QED BY <1>1, Inductive, PTL

-----------------------------------------------------------------------------
(* Reading page by page *)

\* A page shows the users whose index it covers.
LEMMA PageShows ==
  ASSUME RegistryInv, NEW t \in Tenants, NEW from \in Nat, NEW n \in Nat \ {0}
  PROVE  UsersOn(getUsersForTenant(t, from, n))
           = {s \in isUser[t] : from <= userIndex[t][s] /\ userIndex[t][s] < from + n}
<1> DEFINE list == tenantUsers[t]
           total == Len(list)
           size == PageSize(total - from, n)
           page == getUsersForTenant(t, from, n)
<1>1. list \in Seq(Safes) /\ total \in Nat /\ userIndex[t] \in [Safes -> Nat] /\ isUser[t] \subseteq Safes
  BY DEF RegistryInv, RegistryTypeOK
<1>2. /\ \A i \in 1 .. total : list[i] \in isUser[t] /\ userIndex[t][list[i]] = i - 1
      /\ \A s \in isUser[t] : userIndex[t][s] < total /\ list[userIndex[t][s] + 1] = s
  BY DEF RegistryInv, ListsAgree
<1>3. CASE from >= total
  <2>1. page = <<>>
    BY <1>3 DEF getUsersForTenant
  <2>2. UsersOn(page) = {}
    BY <2>1 DEF UsersOn
  <2>3. ~ \E s \in isUser[t] : from <= userIndex[t][s]
    BY <1>1, <1>2, <1>3
  <2> QED BY <2>2, <2>3
<1>4. CASE from < total
  <2>1. page = SubSeq(list, from + 1, from + size)
    <3>1. ~(from >= total \/ n = 0)
      BY <1>1, <1>4
    <3> QED BY <3>1 DEF getUsersForTenant
  <2>2. size \in Nat /\ from + size <= total /\ size <= n /\ (size = n \/ from + size = total)
    BY <1>1, <1>4 DEF PageSize
  <2> HIDE DEF size, page
  <2>3. Len(page) = size /\ \A i \in 1 .. size : page[i] = list[from + i]
    BY <1>1, <2>1, <2>2
  <2>4. ASSUME NEW s \in UsersOn(page)
        PROVE  s \in isUser[t] /\ from <= userIndex[t][s] /\ userIndex[t][s] < from + n
    <3>1. PICK i \in 1 .. size : s = list[from + i]
      BY <2>3, <2>4 DEF UsersOn
    <3>2. from + i \in 1 .. total
      BY <1>1, <2>2
    <3>3. s \in isUser[t] /\ userIndex[t][s] = from + i - 1
      BY <1>2, <3>1, <3>2
    <3> QED BY <2>2, <3>3
  <2>5. ASSUME NEW s \in isUser[t], from <= userIndex[t][s], userIndex[t][s] < from + n
        PROVE  s \in UsersOn(page)
    <3>1. userIndex[t][s] \in Nat /\ userIndex[t][s] < total /\ list[userIndex[t][s] + 1] = s
      BY <1>1, <1>2
    <3>2. PICK i \in 1 .. size : from + i = userIndex[t][s] + 1
      <4>1. userIndex[t][s] + 1 - from \in 1 .. size
        BY <1>1, <2>2, <2>5, <3>1
      <4> QED BY <3>1, <4>1
    <3> QED BY <2>3, <3>1, <3>2 DEF UsersOn
  <2> QED BY <2>4, <2>5 DEF page
<1> QED BY <1>1, <1>3, <1>4

\* The index of a user never rises; one that falls below the offset is that of
\* a user that passed the reader.  A Safe that has code does not become a user.
LEMMA IndexFalls ==
  ASSUME IInv, Next, tenantRead \in Tenants, offset \in Nat,
         NEW s \in code, s \in isUser'[tenantRead]
  PROVE  /\ s \in isUser[tenantRead]
         /\ userIndex[tenantRead][s] \in Nat /\ userIndex'[tenantRead][s] \in Nat
         /\ userIndex'[tenantRead][s] <= userIndex[tenantRead][s]
         /\ userIndex'[tenantRead][s] < offset =>
              userIndex[tenantRead][s] < offset \/ s \in PassesReader
<1> DEFINE t == tenantRead
<1>1. /\ isUser \in [Tenants -> SUBSET Safes] /\ tenantUsers \in [Tenants -> Seq(Safes)]
      /\ userIndex \in [Tenants -> [Safes -> Nat]] /\ code \subseteq Safes /\ t \in Tenants
  BY DEF IInv, TypeOK, RegistryTypeOK
<1>2. CASE UNCHANGED users
  BY <1>1, <1>2 DEF users
<1>3. CASE OwnerCall
  BY <1>2, <1>3, OwnerCallKeepsLists
<1>4. ASSUME NEW f \in Factories, NEW r \in {"here", "elsewhere"}, setRegistry(f, r)
      PROVE  UNCHANGED users
  BY <1>4 DEF setRegistry, registry, users
<1>5. ASSUME NEW f \in Factories, NEW u \in Tenants, NEW g \in Signers, deploySafe(f, u, g)
      PROVE  s \in isUser[t] /\ userIndex'[t][s] = userIndex[t][s]
  <2> DEFINE new == SafeAddress(f, u, g)
  <2>1. new \in Safes /\ new \notin code
    BY <1>5, AddressIsNew DEF IInv
  <2>2. registerUser(f, u, new) \/ UNCHANGED users
    BY <1>5 DEF deploySafe, registry, users
  <2> HIDE DEF new
  <2>3. s # new
    BY <2>1
  <2>4. CASE registerUser(f, u, new)
    <3>1. /\ isUser' = [isUser EXCEPT ![u] = @ \cup {new}]
          /\ userIndex' = [userIndex EXCEPT ![u][new] = Len(tenantUsers[u])]
      BY <2>4 DEF registerUser
    <3> QED BY <1>1, <2>1, <2>3, <3>1
  <2> QED BY <2>2, <2>4 DEF users
<1>6. ASSUME NEW u \in Tenants, NEW x \in Safes, RemoveUser(u, x)
      PROVE  /\ s \in isUser[t] /\ userIndex'[t][s] <= userIndex[t][s]
             /\ userIndex'[t][s] < offset => userIndex[t][s] < offset \/ s \in PassesReader
  <2>1. /\ x \in isUser[u] /\ removed' = removed \cup {x}
        /\ isUser' = [isUser EXCEPT ![u] = @ \ {x}]
        /\ userIndex' = [userIndex EXCEPT ![u] = IndexWithoutUser(u, x)]
    BY <1>6 DEF RemoveUser, removeUser, MayRemove
  <2>2. CASE u # t
    BY <1>1, <2>1, <2>2
  <2>3. CASE u = t
    <3> DEFINE list == tenantUsers[t]
               last == list[Len(list)]
    <3>1. /\ Len(list) \in Nat /\ userIndex[t][x] \in Nat /\ userIndex[t][x] < Len(list)
          /\ s \in isUser[t] /\ s # x /\ s \in Safes
      BY <1>1, <2>1, <2>3 DEF IInv, ListsAgree
    <3>2. last \in isUser[t] /\ userIndex[t][last] = Len(list) - 1
      <4>1. Len(list) \in 1 .. Len(list)
        BY <3>1
      <4> QED BY <1>1, <4>1 DEF IInv, ListsAgree
    <3>3. userIndex'[t][s] = IF s = last THEN userIndex[t][x] ELSE userIndex[t][s]
      BY <1>1, <2>1, <2>3, <3>1 DEF IndexWithoutUser
    <3>4. ASSUME s = last, userIndex[t][x] < offset, ~(userIndex[t][s] < offset)
          PROVE  s \in PassesReader
      <4>1. x \in (removed' \ removed) \cap isUser[t]
        BY <1>1, <2>1, <2>3 DEF IInv, UsersAreOwn
      <4>2. offset < Len(list)
        BY <1>1, <3>1, <3>2, <3>4
      <4> QED BY <3>4, <4>1, <4>2 DEF PassesReader
    <3>5. userIndex'[t][s] <= userIndex[t][s]
      BY <1>1, <3>1, <3>2, <3>3
    <3> QED BY <3>1, <3>3, <3>4, <3>5
  <2> QED BY <2>2, <2>3
<1>7. s \in isUser[t] /\ userIndex'[t][s] <= userIndex[t][s]
      /\ (userIndex'[t][s] < offset => userIndex[t][s] < offset \/ s \in PassesReader)
  BY <1>1, <1>2, <1>3, <1>4, <1>5, <1>6 DEF Next
<1>8. userIndex[t][s] \in Nat /\ userIndex'[t][s] \in Nat
  <2>1. IInv'
    BY StepInv
  <2>2. userIndex' \in [Tenants -> [Safes -> Nat]]
    BY <2>1 DEF IInv, TypeOK, RegistryTypeOK
  <2> QED BY <1>1, <2>2
<1> QED BY <1>7, <1>8

\* Of the users that stayed, those below the offset were seen or moved there,
\* and all are once the reading ends; those seen stay below it.
PagesReadInv ==
  /\ \A s \in began \cap isUser[tenantRead] :
       userIndex[tenantRead][s] < offset => s \in seen \cup moved
  /\ ended => \A s \in began \cap isUser[tenantRead] : userIndex[tenantRead][s] < offset
  /\ \A s \in seen \cap isUser[tenantRead] : userIndex[tenantRead][s] < offset

ReaderInv ==
  /\ IInv
  /\ tenantRead \in Tenants \cup {None}
  /\ offset \in Nat /\ ended \in BOOLEAN
  /\ seen \cup began \subseteq code
  /\ repeated = {}
  /\ tenantRead = None => offset = 0 /\ seen = {} /\ ~ended
  /\ tenantRead # None => limit \in PageSizes /\ PagesReadInv

LEMMA ReadPageInv ==
  ASSUME ReaderInv, ReadPage
  PROVE  ReaderInv'
<1> DEFINE t == tenantRead
           page == UsersOn(getUsersForTenant(t, offset, limit))
<1>1. /\ t \in Tenants /\ t # None /\ limit \in PageSizes /\ limit \in Nat \ {0} /\ ~ended
      /\ offset \in Nat /\ PagesReadInv /\ IInv
  BY PageAssumption DEF ReaderInv, ReadPage, Reading
<1>2. /\ seen' = seen \cup page /\ repeated' = repeated \cup (seen \cap page)
      /\ offset' = offset + limit /\ ended' = (offset' >= Len(tenantUsers[t]))
      /\ UNCHANGED <<vars, tenantRead, limit, began, moved>>
  BY DEF ReadPage, request
<1>3. page = {s \in isUser[t] : offset <= userIndex[t][s] /\ userIndex[t][s] < offset + limit}
  BY <1>1, PageShows DEF IInv, TypeOK, RegistryInv
<1> HIDE DEF page
<1>4. \A s \in isUser[t] : s \in code /\ userIndex[t][s] \in Nat /\ userIndex[t][s] < Len(tenantUsers[t])
  <2>1. isUser[t] \subseteq Safes /\ userIndex[t] \in [Safes -> Nat]
    BY <1>1 DEF IInv, TypeOK, RegistryTypeOK
  <2> QED BY <1>1, <2>1 DEF IInv, UsersAreOwn, ListsAgree
<1>5. Len(tenantUsers[t]) \in Nat
  BY <1>1 DEF IInv, TypeOK, RegistryTypeOK
<1>6. IInv' /\ isUser'[t] = isUser[t] /\ userIndex'[t] = userIndex[t] /\ code' = code
  <2>1. UNCHANGED vars
    BY <1>2
  <2> QED BY <1>1, <2>1, StepInv DEF vars, registry, deployments
<1>7. seen \cap page = {}
  BY <1>1, <1>3, <1>4 DEF PagesReadInv
<1>8. PagesReadInv'
  <2>1. \A s \in began \cap isUser[t] :
          userIndex[t][s] < offset + limit => s \in seen \cup page \cup moved
    BY <1>1, <1>3, <1>4 DEF PagesReadInv
  <2>2. offset + limit >= Len(tenantUsers[t]) => \A s \in isUser[t] : userIndex[t][s] < offset + limit
    BY <1>1, <1>4, <1>5
  <2>3. \A s \in (seen \cup page) \cap isUser[t] : userIndex[t][s] < offset + limit
    BY <1>1, <1>3, <1>4 DEF PagesReadInv
  <2> QED BY <1>2, <1>6, <2>1, <2>2, <2>3 DEF PagesReadInv
<1>9. seen' \cup began' \subseteq code'
  BY <1>2, <1>3, <1>4, <1>6 DEF ReaderInv
<1>10. offset' \in Nat /\ ended' \in BOOLEAN
  BY <1>1, <1>2
<1> QED BY <1>1, <1>2, <1>6, <1>7, <1>8, <1>9, <1>10 DEF ReaderInv

LEMMA ChainMovesInv ==
  ASSUME ReaderInv, ChainMoves
  PROVE  ReaderInv'
<1> DEFINE t == tenantRead
<1>1. /\ Next /\ IInv /\ IInv'
      /\ UNCHANGED <<tenantRead, limit, began, offset, seen, ended, repeated>>
      /\ moved' = IF Reading THEN moved \cup PassesReader ELSE moved
  BY StepInv DEF ChainMoves, ReaderInv, request, progress
<1>2. code \subseteq code'
  <2>1. ASSUME NEW f \in Factories, NEW u \in Tenants, NEW g \in Signers, deploySafe(f, u, g)
        PROVE  code \subseteq code'
    BY <2>1 DEF deploySafe
  <2>2. CASE OwnerCall
    BY <2>2 DEF OwnerCall, deployments
  <2>3. ASSUME NEW f \in Factories, NEW r \in {"here", "elsewhere"}, setRegistry(f, r)
        PROVE  code \subseteq code'
    BY <2>3 DEF setRegistry, deployments
  <2>4. ASSUME NEW u \in Tenants, NEW x \in Safes, RemoveUser(u, x)
        PROVE  code \subseteq code'
    BY <2>4 DEF RemoveUser, deployments
  <2> QED BY <1>1, <2>1, <2>2, <2>3, <2>4 DEF Next
<1>3. ASSUME t # None PROVE PagesReadInv'
  <2>1. t \in Tenants /\ PagesReadInv /\ offset \in Nat /\ seen \cup began \subseteq code
    BY <1>3 DEF ReaderInv
  <2>2. \A s \in (seen \cup began) \cap isUser'[t] :
          /\ s \in isUser[t]
          /\ userIndex[t][s] \in Nat /\ userIndex'[t][s] \in Nat
          /\ userIndex'[t][s] <= userIndex[t][s]
          /\ userIndex'[t][s] < offset => userIndex[t][s] < offset \/ s \in PassesReader
    BY <1>1, <2>1, IndexFalls
  <2>3. \A s \in began \cap isUser'[t] : userIndex'[t][s] < offset => s \in seen \cup moved'
    <3>1. CASE Reading
      BY <1>1, <2>1, <2>2, <3>1 DEF PagesReadInv
    <3>2. CASE ended
      BY <1>1, <2>1, <2>2, <3>2 DEF PagesReadInv, Reading
    <3> QED BY <1>3, <3>1, <3>2 DEF Reading
  <2>4. ended => \A s \in began \cap isUser'[t] : userIndex'[t][s] < offset
    BY <2>1, <2>2 DEF PagesReadInv
  <2>5. \A s \in seen \cap isUser'[t] : userIndex'[t][s] < offset
    BY <2>1, <2>2 DEF PagesReadInv
  <2> QED BY <1>1, <2>3, <2>4, <2>5 DEF PagesReadInv
<1> QED BY <1>1, <1>2, <1>3 DEF ReaderInv

LEMMA ReaderInductive == ReaderSpec => []ReaderInv
<1>1. ReaderInit => ReaderInv
  <2> SUFFICES ASSUME ReaderInit PROVE ReaderInv
    OBVIOUS
  <2>1. IInv
    BY InitInv DEF ReaderInit
  <2> QED BY <2>1 DEF ReaderInit, ReaderInv
<1>2. ReaderInv /\ [ReaderNext]_<<vars, readerVars>> => ReaderInv'
  <2> SUFFICES ASSUME ReaderInv, [ReaderNext]_<<vars, readerVars>> PROVE ReaderInv'
    OBVIOUS
  <2>1. ASSUME NEW t \in Tenants, NEW n \in PageSizes, BeginReading(t, n)
        PROVE  ReaderInv'
    <3>1. /\ tenantRead' = t /\ limit' = n /\ began' = isUser[t] /\ IInv /\ t # None
          /\ UNCHANGED <<vars, offset, seen, ended, repeated>>
      BY <2>1, RegistryAssumption DEF BeginReading, progress, ReaderInv
    <3>2. offset = 0 /\ seen = {} /\ ~ended
      BY <2>1 DEF BeginReading, ReaderInv
    <3>3. IInv' /\ isUser' = isUser /\ userIndex' = userIndex /\ code' = code
      <4>1. UNCHANGED vars
        BY <3>1
      <4> QED BY <3>1, <4>1, StepInv DEF vars, registry, deployments
    <3>4. isUser[t] \subseteq Safes /\ isUser[t] \subseteq code /\ userIndex[t] \in [Safes -> Nat]
      BY <3>1 DEF IInv, TypeOK, RegistryTypeOK, UsersAreOwn
    <3>5. PagesReadInv'
      BY <3>1, <3>2, <3>3, <3>4 DEF PagesReadInv
    <3> QED BY <3>1, <3>2, <3>3, <3>4, <3>5 DEF ReaderInv
  <2>2. CASE ReadPage
    BY <2>2, ReadPageInv
  <2>3. CASE ChainMoves
    BY <2>3, ChainMovesInv
  <2>4. CASE UNCHANGED <<vars, readerVars>>
    <3>1. UNCHANGED vars
      BY <2>4
    <3>2. IInv'
      BY <3>1, StepInv DEF ReaderInv
    <3> QED BY <2>4, <3>2 DEF ReaderInv, PagesReadInv, vars, registry, deployments, readerVars,
           request, progress
  <2> QED BY <2>1, <2>2, <2>3, <2>4 DEF ReaderNext
<1> QED BY <1>1, <1>2, PTL DEF ReaderSpec

\* A reader of the pages, of any size and over any registrations and removals
\* between two of them, sees no Safe twice and misses of the users that stayed
\* only one that a removal moved past it.
THEOREM PagesMissOnlyMovedHolds == ReaderSpec => []PagesMissOnlyMoved
<1>1. ReaderInv => PagesMissOnlyMoved
  BY DEF ReaderInv, PagesReadInv, PagesMissOnlyMoved
<1> QED BY <1>1, ReaderInductive, PTL

-----------------------------------------------------------------------------
(* The abstract life of a Safe *)

\* The factories and the registry implement SafeLife: a Safe enters once, under
\* its own tenant, and does not return.
THEOREM LifeImplemented == Spec => EntersOnce
<1>1. Init => Life!Init
  BY DEF Init, RegistryInit, Life!Init
<1>2. IInv /\ [Next]_vars => [Life!Next]_<<safeToTenant, removed>>
  <2> SUFFICES ASSUME IInv, [Next]_vars, ~UNCHANGED <<safeToTenant, removed>>
               PROVE  Life!Next
    OBVIOUS
  <2>1. ASSUME NEW f \in Factories, NEW t \in Tenants, NEW u \in Signers, deploySafe(f, t, u)
        PROVE  Life!Next
    <3> DEFINE s == SafeAddress(f, t, u)
    <3>1. s \in Safes /\ s \notin code /\ s.tenant = t
      BY <2>1, AddressIsNew DEF IInv
    <3>2. removed' = removed /\ safeToTenant' = [safeToTenant EXCEPT ![s] = t]
      BY <2>1 DEF deploySafe, registerUser, registry
    <3> HIDE DEF s
    <3>3. \A v \in Tenants : s \notin isUser[v]
      BY <3>1 DEF IInv, UsersAreOwn
    <3>4. s \notin removed /\ safeToTenant[s] = None
      BY <3>1, <3>3 DEF IInv, UsersAreOwn, ReverseAgrees, TypeOK, RegistryTypeOK
    <3>5. TenantOfSafe[s] = t
      BY <3>1 DEF TenantOfSafe
    <3> QED BY <3>1, <3>2, <3>4, <3>5 DEF Life!Next, Life!Enter
  <2>2. ASSUME NEW t \in Tenants, NEW s \in Safes, RemoveUser(t, s)
        PROVE  Life!Next
    <3>1. /\ s \in isUser[t] /\ removed' = removed \cup {s}
          /\ safeToTenant' = [safeToTenant EXCEPT ![s] = None]
      BY <2>2 DEF RemoveUser, removeUser, MayRemove, ReverseWithout
    <3>2. safeToTenant[s] # None
      BY <3>1, RegistryAssumption DEF IInv, ReverseAgrees
    <3> QED BY <3>1, <3>2 DEF Life!Next, Life!Leave
  <2>3. CASE OwnerCall
    BY <2>3 DEF OwnerCall, setFactory, registerTenant, deactivateTenant, reactivateTenant, users
  <2>4. ASSUME NEW f \in Factories, NEW r \in {"here", "elsewhere"}, setRegistry(f, r)
        PROVE  FALSE
    BY <2>4 DEF setRegistry, registry
  <2>5. CASE UNCHANGED vars
    BY <2>5 DEF vars, registry
  <2> QED BY <2>1, <2>2, <2>3, <2>4, <2>5 DEF Next
<1> QED BY <1>1, <1>2, Inductive, PTL DEF Spec, EntersOnce, Life!Spec
=============================================================================

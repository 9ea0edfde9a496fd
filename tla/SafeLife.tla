------------------------------ MODULE SafeLife ------------------------------
(***************************************************************************)
(* What the registry and its factories promise of an M2 Safe: it enters    *)
(* the registry once, under the tenant it was made for, stays there until  *)
(* it is removed, and never comes back.                                    *)
(***************************************************************************)
CONSTANTS
  Safes,
  TenantOf,  \* TenantOf[s]: the tenant a Safe was made for
  None

VARIABLES
  tenant,   \* tenant[s]: whose user the Safe is, or None
  removed   \* the Safes that were taken out

Init ==
  /\ tenant = [s \in Safes |-> None]
  /\ removed = {}

Enter(s) ==
  /\ tenant[s] = None /\ s \notin removed
  /\ tenant' = [tenant EXCEPT ![s] = TenantOf[s]]
  /\ UNCHANGED removed

Leave(s) ==
  /\ tenant[s] # None
  /\ tenant' = [tenant EXCEPT ![s] = None]
  /\ removed' = removed \cup {s}

Next == \E s \in Safes : Enter(s) \/ Leave(s)

Spec == Init /\ [][Next]_<<tenant, removed>>
=============================================================================

---------------------------- MODULE PagedReading ----------------------------
(***************************************************************************)
(* An off-chain reader that lists a tenant's users page by page            *)
(* (getUsersForTenant, for "off-chain indexing": docs/infrastructure.md).  *)
(* Each page is a call of its own, between which Safes are registered and  *)
(* removed.  The reader is external: it asks for the next offset until the *)
(* total that came with the last page is reached.                          *)
(***************************************************************************)
EXTENDS SafeFactory

CONSTANT PageSizes   \* the limits a reader may ask with

ASSUME PageAssumption == PageSizes \subseteq Nat \ {0}

VARIABLES
  tenantRead,  \* whose users are read, None before the reading begins
  limit,       \* users to a page
  offset,      \* where the next page begins
  seen,        \* the Safes of the pages read
  ended,       \* the last page was read
  began,       \* history: the users when the reading began
  moved,       \* history: users that a removal moved from pages to come into pages read
  repeated     \* history: Safes that two pages showed

request    == <<tenantRead, limit, began>>
progress   == <<offset, seen, ended, repeated>>
readerVars == <<request, progress, moved>>

ReaderTypeOK ==
  /\ TypeOK
  /\ tenantRead \in Tenants \cup {None}
  /\ limit \in PageSizes \cup {0} /\ offset \in Nat /\ ended \in BOOLEAN
  /\ seen \cup began \cup moved \cup repeated \subseteq Safes

ReaderInit ==
  /\ Init
  /\ tenantRead = None
  /\ limit = 0 /\ offset = 0
  /\ ended = FALSE
  /\ seen = {} /\ began = {} /\ moved = {} /\ repeated = {}

Reading == tenantRead # None /\ ~ended

-----------------------------------------------------------------------------
BeginReading(t, n) ==
  /\ tenantRead = None
  /\ tenantRead' = t
  /\ limit' = n
  /\ began' = isUser[t]
  /\ UNCHANGED <<vars, progress, moved>>

UsersOn(page) == {page[i] : i \in 1 .. Len(page)}

ReadPage ==
  LET page == getUsersForTenant(tenantRead, offset, limit)
  IN  /\ Reading
      /\ seen' = seen \cup UsersOn(page)
      /\ repeated' = repeated \cup (seen \cap UsersOn(page))
      /\ offset' = offset + limit
      /\ ended' = (offset' >= Len(tenantUsers[tenantRead]))
      /\ UNCHANGED <<vars, request, moved>>

\* A removal from the pages read puts the last user in the gap: it passes the
\* reader if it was on a page to come.
PassesReader ==
  LET list == tenantUsers[tenantRead]
  IN  {list[Len(list)] : s \in {s \in (removed' \ removed) \cap isUser[tenantRead] :
                                  userIndex[tenantRead][s] < offset /\ offset < Len(list)}}

ChainMoves ==
  /\ Next
  /\ moved' = IF Reading THEN moved \cup PassesReader ELSE moved
  /\ UNCHANGED <<request, progress>>

ReaderNext ==
  \/ \E t \in Tenants, n \in PageSizes : BeginReading(t, n)
  \/ ReadPage
  \/ ChainMoves

ReaderSpec == ReaderInit /\ [][ReaderNext]_<<vars, readerVars>>

-----------------------------------------------------------------------------
(* Properties *)

\* A reader that went through the pages of any size, over registrations and
\* removals between two of them, has seen every Safe that was a user all the
\* while, but for one that a removal's swap-and-pop moved past it; and no Safe
\* twice.
PagesMissOnlyMoved ==
  /\ ended => began \cap isUser[tenantRead] \subseteq seen \cup moved
  /\ repeated = {}
=============================================================================

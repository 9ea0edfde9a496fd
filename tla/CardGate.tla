------------------------------ MODULE CardGate ------------------------------
(***************************************************************************)
(* What the first steps of an authorization look at, and who changes it:   *)
(* the status of a card, kept in Lithic, Postgres and Redis and set when   *)
(* it is issued, by PATCH /v1/cards/:cardId (backend/src/routes/cards.ts)  *)
(* and by refreshCache; and the KYC status of its user, set by Sumsub's    *)
(* webhooks and by POST .../kyc/session (backend/src/routes/kyc.ts).       *)
(*                                                                         *)
(* Its user has a Safe.  One action is the code between two awaits.  Any   *)
(* request may fail or die at any of them: a call that fails after it took *)
(* effect is that call and a failure at the next.  The requests for a card *)
(* that is there come any number of times, each one after the other.       *)
(***************************************************************************)
EXTENDS FiniteSets

CONSTANTS
  Patches,             \* the PATCHes the backend may have under way
  Charges,             \* authorizations of the card
  Reviews,             \* webhooks of Sumsub under way
  Sessions             \* requests for a KYC session

\* Requests of either kind are told apart.
ASSUME GateAssumption == Reviews \cap Sessions = {}

Action     == {"freeze", "unfreeze", "cancel", "limits"}
CardStatus == {"active", "frozen", "cancelled"}
KycStatus  == {"pending", "approved", "rejected"}

\* The status a webhook stands for, "none" for one that is not of a review.
Result     == KycStatus \cup {"none"}

VARIABLES
  lithic,      \* the state of the card at Lithic, or "none"
  row,         \* SubAccount.status, or "none"
  mapping,     \* the status in card:{token}, or "none"
  kyc,         \* User.kycStatus
  issue,       \* where the request that issues the card stands
  patch,       \* patch[r]: where the PATCH stands
  asked,       \* asked[r]: its action, "limits" for none
  updated,     \* updated[r]: the status its update returned
  charge,      \* charge[a]: where the authorization stands
  review,      \* review[v]: "idle", or the status its handler is to write
  session,     \* session[n]: where the session request stands
  \* History
  disturbed,   \* writers of the card's status overlapped or one was cut short,
               \* and no PATCH with an action has run alone since
  overlapped,  \* the handlers of the KYC status that are under way overlapped
  lastReview   \* the result of the last review handled, "unknown" after an overlap

copies   == <<lithic, row, mapping>>
requests == <<issue, patch, asked, updated, charge>>
kycVars  == <<kyc, review, session, overlapped, lastReview>>
gateVars == <<copies, requests, kycVars, disturbed>>

GateTypeOK ==
  /\ lithic \in {"none", "OPEN", "PAUSED", "CLOSED"}
  /\ row \in CardStatus \cup {"none"}
  /\ mapping \in CardStatus \cup {"none"}
  /\ kyc \in KycStatus
  /\ issue \in {"idle", "create", "map", "done"}
  /\ patch \in [Patches -> {"idle", "update", "map"}]
  /\ asked \in [Patches -> Action]
  /\ updated \in [Patches -> CardStatus]
  /\ charge \in [Charges -> {"idle", "kyc", "cache", "map"}]
  /\ review \in [Reviews -> KycStatus \cup {"idle"}]
  /\ session \in [Sessions -> {"idle", "update"}]
  /\ disturbed \in BOOLEAN /\ overlapped \in BOOLEAN
  /\ lastReview \in KycStatus \cup {"unknown"}

GateInit ==
  /\ lithic = "none" /\ row = "none" /\ mapping = "none"
  /\ kyc = "pending"
  /\ issue = "idle"
  /\ patch = [r \in Patches |-> "idle"]
  /\ asked = [r \in Patches |-> "limits"]
  /\ updated = [r \in Patches |-> "active"]
  /\ charge = [a \in Charges |-> "idle"]
  /\ review = [v \in Reviews |-> "idle"]
  /\ session = [n \in Sessions |-> "idle"]
  /\ disturbed = FALSE /\ overlapped = FALSE
  /\ lastReview = "pending"

-----------------------------------------------------------------------------
(* POST /v1/users/:userId/cards and PATCH /v1/cards/:cardId *)

\* The writers of the status that have not written their copy to Redis yet.
Writing == {x \in {"issue"} : issue \in {"create", "map"}}
             \cup {r \in Patches : patch[r] \in {"update", "map"}}
             \cup {a \in Charges : charge[a] = "map"}

CreateCard ==
  /\ issue = "idle"
  /\ lithic' = "OPEN"
  /\ issue' = "create"
  /\ UNCHANGED <<row, mapping, patch, asked, updated, charge, kycVars, disturbed>>

CreateRow ==
  /\ issue = "create"
  /\ row' = "active"
  /\ issue' = "map"
  /\ UNCHANGED <<lithic, mapping, patch, asked, updated, charge, kycVars, disturbed>>

MapNewCard ==
  /\ issue = "map"
  /\ mapping' = "active"
  /\ issue' = "done"
  /\ UNCHANGED <<lithic, row, patch, asked, updated, charge, kycVars, disturbed>>

IssueFails ==
  /\ issue \in {"create", "map"}
  /\ issue' = "done"
  /\ disturbed' = TRUE
  /\ UNCHANGED <<copies, patch, asked, updated, charge, kycVars>>

ToPatch(r, next) == patch' = [patch EXCEPT ![r] = next]

LithicState(action) ==
  CASE action = "freeze"   -> "PAUSED"
    [] action = "unfreeze" -> "OPEN"
    [] action = "cancel"   -> "CLOSED"
    [] OTHER               -> lithic

\* Lithic refuses any update of a closed card.
LithicAcceptsMutant == TRUE
LithicAccepts == lithic # "CLOSED"

\* What was read before this call only tells that the card is there.
UpdateLithic(r, action) ==
  /\ patch[r] = "idle" /\ row # "none"
  /\ LithicAccepts
  /\ lithic' = LithicState(action)
  /\ ToPatch(r, "update")
  /\ asked' = [asked EXCEPT ![r] = action]
  /\ disturbed' = (Writing # {} \/ (disturbed /\ action = "limits"))
  /\ UNCHANGED <<row, mapping, updated, charge, issue, kycVars>>

\* Without an action or a daily limit Lithic is not called.
SkipLithic(r) ==
  /\ patch[r] = "idle" /\ row # "none"
  /\ ToPatch(r, "update")
  /\ disturbed' = (disturbed \/ Writing # {})
  /\ UNCHANGED <<copies, asked, updated, charge, issue, kycVars>>

NewStatus(r) ==
  CASE asked[r] = "freeze"   -> "frozen"
    [] asked[r] = "unfreeze" -> "active"
    [] asked[r] = "cancel"   -> "cancelled"
    [] OTHER                 -> row

UpdateRow(r) ==
  /\ patch[r] = "update"
  /\ row' = NewStatus(r)
  /\ updated' = [updated EXCEPT ![r] = NewStatus(r)]
  /\ ToPatch(r, "map")
  /\ asked' = [asked EXCEPT ![r] = "limits"]
  /\ UNCHANGED <<lithic, mapping, charge, issue, kycVars, disturbed>>

MappedStatusMutant(r) == "active"
MappedStatusMutant2(r) == lithic
MappedStatus(r) == updated[r]

\* The request is over, and what it has read with it.
ForgetPatch(r) ==
  /\ ToPatch(r, "idle")
  /\ asked' = [asked EXCEPT ![r] = "limits"]
  /\ updated' = [updated EXCEPT ![r] = "active"]

SetCardMapping(r) ==
  /\ patch[r] = "map"
  /\ mapping' = MappedStatus(r)
  /\ ForgetPatch(r)
  /\ UNCHANGED <<lithic, row, charge, issue, kycVars, disturbed>>

\* A failed call or a crash.
PatchFails(r) ==
  /\ patch[r] # "idle"
  /\ ForgetPatch(r)
  /\ disturbed' = TRUE
  /\ UNCHANGED <<copies, charge, issue, kycVars>>

-----------------------------------------------------------------------------
(* authorize() up to the authorization cache *)

ToCharge(a, next) == charge' = [charge EXCEPT ![a] = next]

AuthorizeLooksUp(a) ==
  /\ charge[a] = "idle" /\ mapping = "active"
  /\ ToCharge(a, "kyc")
  /\ UNCHANGED <<copies, issue, patch, asked, updated, kycVars, disturbed>>

AuthorizeChecksKyc(a) ==
  /\ charge[a] = "kyc"
  /\ ToCharge(a, IF kyc = "approved" THEN "cache" ELSE "idle")
  /\ UNCHANGED <<copies, issue, patch, asked, updated, kycVars, disturbed>>

\* refreshCache throws without an active sub-account.
FoundActiveMutant == TRUE
FoundActive == row = "active"

\* The entry auth:{eoa} is not there, and may be missing at any time.
AuthorizeReads(a) ==
  /\ charge[a] = "cache" /\ FoundActive
  /\ ToCharge(a, "map")
  /\ disturbed' = (disturbed \/ Writing # {})
  /\ UNCHANGED <<copies, issue, patch, asked, updated, kycVars>>

\* The status it read, once the entry is written.
AuthorizeMaps(a) ==
  /\ charge[a] = "map"
  /\ mapping' = "active"
  /\ ToCharge(a, "idle")
  /\ UNCHANGED <<lithic, row, issue, patch, asked, updated, kycVars, disturbed>>

\* The entry was there, or something failed.
AuthorizeEnds(a) ==
  /\ charge[a] # "idle"
  /\ ToCharge(a, "idle")
  /\ UNCHANGED <<copies, issue, patch, asked, updated, kycVars, disturbed>>

ExpireMapping ==
  /\ mapping # "none"
  /\ mapping' = "none"
  /\ UNCHANGED <<lithic, row, requests, kycVars, disturbed>>

-----------------------------------------------------------------------------
(* POST /webhooks/sumsub and POST /v1/users/:userId/kyc/session *)

\* The handlers that have read the status and are to write it.
Deciding == {v \in Reviews : review[v] # "idle"} \cup {n \in Sessions : session[n] # "idle"}

Overlap ==
  /\ overlapped' = (Deciding # {})
  /\ lastReview' = IF Deciding # {} THEN "unknown" ELSE lastReview

EndDeciding(x) == overlapped' = (overlapped /\ Deciding \ {x} # {})

\* Nothing is written for an event without a result, or for the status there is.
MustWriteMutant(result) == result # "none" /\ kyc = "pending"
MustWrite(result) == result # "none" /\ result # kyc

\* The status is read and compared in one turn.
ReceiveReview(v) ==
  /\ review[v] = "idle"
  /\ \E result \in Result :
       \/ /\ MustWrite(result)
          /\ review' = [review EXCEPT ![v] = result]
          /\ Overlap
       \/ /\ ~MustWrite(result)
          /\ lastReview' = IF result = "none" THEN lastReview
                          ELSE IF Deciding # {} THEN "unknown" ELSE result
          /\ UNCHANGED <<review, overlapped>>
  /\ UNCHANGED <<copies, requests, kyc, session, disturbed>>

\* An audit log that fails answers 500, and Sumsub sends the event again.
ApplyReview(v) ==
  /\ review[v] # "idle"
  /\ kyc' = review[v]
  /\ lastReview' = IF overlapped THEN lastReview ELSE review[v]
  /\ review' = [review EXCEPT ![v] = "idle"]
  /\ EndDeciding(v)
  /\ UNCHANGED <<copies, requests, session, disturbed>>

ReviewFails(v) ==
  /\ review[v] # "idle"
  /\ review' = [review EXCEPT ![v] = "idle"]
  /\ EndDeciding(v)
  /\ UNCHANGED <<copies, requests, kyc, session, lastReview, disturbed>>

\* A session that finds another status writes nothing.  createApplicant and
\* createAccessToken follow, however long they take.
StartSession(n) ==
  /\ session[n] = "idle" /\ kyc = "pending"
  /\ Overlap
  /\ session' = [session EXCEPT ![n] = "update"]
  /\ UNCHANGED <<copies, requests, kyc, review, disturbed>>

\* The write of "pending" where "pending" was read, before the calls to Sumsub.
SetPending(n) ==
  /\ session[n] = "update"
  /\ kyc' = "pending"
  /\ session' = [session EXCEPT ![n] = "idle"]
  /\ EndDeciding(n)
  /\ UNCHANGED <<copies, requests, review, lastReview, disturbed>>

SessionFails(n) ==
  /\ session[n] # "idle"
  /\ session' = [session EXCEPT ![n] = "idle"]
  /\ EndDeciding(n)
  /\ UNCHANGED <<copies, requests, kyc, review, lastReview, disturbed>>

-----------------------------------------------------------------------------
PatchStep(r) == UpdateRow(r) \/ SetCardMapping(r) \/ PatchFails(r)
ChargeStep(a) ==
  AuthorizeChecksKyc(a) \/ AuthorizeReads(a) \/ AuthorizeMaps(a) \/ AuthorizeEnds(a)

IssueStep == CreateRow \/ MapNewCard \/ IssueFails

GateNext ==
  \/ CreateCard \/ IssueStep
  \/ \E r \in Patches :
       SkipLithic(r) \/ PatchStep(r) \/ \E action \in Action : UpdateLithic(r, action)
  \/ \E a \in Charges : AuthorizeLooksUp(a) \/ ChargeStep(a)
  \/ \E v \in Reviews : ReceiveReview(v) \/ ApplyReview(v) \/ ReviewFails(v)
  \/ \E n \in Sessions : StartSession(n) \/ SetPending(n) \/ SessionFails(n)
  \/ ExpireMapping

GateSpec == GateInit /\ [][GateNext]_gateVars

\* Every await of a request ends, and Redis removes a mapping that nothing
\* writes again before its TTL runs out.
GateFairness ==
  /\ WF_gateVars(IssueStep)
  /\ \A r \in Patches : WF_gateVars(PatchStep(r))
  /\ \A a \in Charges : WF_gateVars(ChargeStep(a))
  /\ WF_gateVars(ExpireMapping)

GateFairSpec == GateSpec /\ GateFairness

-----------------------------------------------------------------------------
(* Properties *)

\* A card cancelled in the database or in Redis is closed at Lithic for good:
\* Lithic is told first, and no PATCH, however late, opens it again.
CancelledIsClosed == "cancelled" \in {row, mapping} => lithic = "CLOSED"

\* The three copies of the status agree whenever no writer is under way, unless
\* writers overlapped or a PATCH was cut short; and the next PATCH of the status
\* that runs alone brings them together again.
CopiesAgree ==
  Writing = {} /\ ~disturbed =>
    /\ mapping \in {row, "none"}
    /\ <<row, lithic>> \in {<<"none", "none">>, <<"active", "OPEN">>, <<"frozen", "PAUSED">>, <<"cancelled", "CLOSED">>}

\* A card that stays blocked in the database is blocked on the fast path in the
\* end: the "active" mapping a race or a failure left is not renewed forever.
BlockTakesHold == <>[](row # "active") => <>[](mapping # "active")

\* The user's status is that of the last review applied, unless two handlers
\* overlapped; and the next review that runs alone makes it so again.
KycFollowsReviews == Deciding = {} => lastReview \in {kyc, "unknown"}
=============================================================================

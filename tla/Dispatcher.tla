----------------------------- MODULE Dispatcher -----------------------------
(***************************************************************************)
(* WebhookDispatcher (backend/src/services/webhook-dispatcher.ts): the ASA *)
(* webhook leaves a dispatch running for every authorization it decides,   *)
(* which finds the card's tenant, signs one event and posts it up to three *)
(* times to the tenant's URL.  Each await of dispatchForCard() and         *)
(* dispatch() is a step; the dispatches of several events, on several      *)
(* backend processes, run beside each other and beside the route that      *)
(* changes the tenant (backend/src/routes/tenants.ts).                     *)
(*                                                                         *)
(* The tenant verifies what it gets with the SDK (sdk/src/webhook.ts),     *)
(* which refuses an event whose signature is too old, in seconds.          *)
(***************************************************************************)
EXTENDS Naturals, Sequences

CONSTANTS
  Events, Processes,
  ProcessOf,         \* ProcessOf[e]: the process that decided it
  Urls, NoUrl,
  Faults,            \* what may go wrong: a subset of Fault
  RETRY_DELAYS,      \* RETRY_DELAYS_MS, in seconds
  REQUEST_TIMEOUT,   \* REQUEST_TIMEOUT_MS, in seconds
  maxAgeSeconds,     \* the SDK's bound on the age of an event
  MaxUpdates,        \* bound: changes of the tenant's URL
  MaxCrashes         \* bound: process crashes

Fault == {"lookup", "refused", "lost", "audit"}

ASSUME DispatcherAssumption ==
  /\ ProcessOf \in [Events -> Processes]
  /\ NoUrl \notin Urls
  /\ Faults \subseteq Fault
  /\ RETRY_DELAYS \in Seq(Nat) /\ Len(RETRY_DELAYS) > 0
  /\ REQUEST_TIMEOUT \in Nat /\ maxAgeSeconds \in Nat
  /\ MaxUpdates \in Nat /\ MaxCrashes \in Nat

VARIABLES
  tenant,     \* the Tenant row: webhookUrl, and whether it has a webhookSecret
  mapped,     \* whether Redis has the card's mapping, which names the tenant
  at,         \* at[e]: where the dispatch of the event stands
  url,        \* url[e]: the URL the dispatch holds
  attempt,    \* attempt[e]: the counter of its loop
  age,        \* age[e]: the seconds since the event was signed
  inbox,      \* inbox[e]: the copies of the event the tenant has taken
  auditLog,   \* the events with a webhook_delivery_failed row
  updates, crashes,
  unanswered  \* history: the events the tenant took while the answer was lost

dispatch == <<at, url, attempt, age>>
vars     == <<tenant, mapped, dispatch, inbox, auditLog, updates, crashes, unanswered>>

Ended == {"delivered", "audited", "unlogged", "skipped", "crashed"}

TypeOK ==
  /\ tenant \in [webhookUrl : Urls \cup {NoUrl}, webhookSecret : BOOLEAN]
  /\ mapped \in BOOLEAN
  /\ at \in [Events -> {"idle", "mapping", "tenant", "send", "audit"} \cup Ended]
  /\ url \in [Events -> Urls \cup {NoUrl}]
  /\ attempt \in [Events -> 0 .. Len(RETRY_DELAYS) - 1]
  /\ age \in [Events -> Nat]
  /\ inbox \in [Events -> 0 .. Len(RETRY_DELAYS)]
  /\ auditLog \subseteq Events /\ unanswered \subseteq Events
  /\ updates \in 0 .. MaxUpdates /\ crashes \in 0 .. MaxCrashes

\* No route writes webhookSecret: a tenant has one or it has none.
Init ==
  /\ tenant \in [webhookUrl : Urls, webhookSecret : BOOLEAN]
  /\ mapped = TRUE
  /\ at = [e \in Events |-> "idle"]
  /\ url = [e \in Events |-> NoUrl]
  /\ attempt = [e \in Events |-> 0]
  /\ age = [e \in Events |-> 0]
  /\ inbox = [e \in Events |-> 0]
  /\ auditLog = {} /\ unanswered = {}
  /\ updates = 0 /\ crashes = 0

MayFail(kind) == kind \in Faults
Goto(e, next) == at' = [at EXCEPT ![e] = next] /\ UNCHANGED <<url, attempt, age>>

\* A dispatch ends and drops what it held.
End(e, how) ==
  /\ at' = [at EXCEPT ![e] = how]
  /\ url' = [url EXCEPT ![e] = NoUrl]
  /\ attempt' = [attempt EXCEPT ![e] = 0]
  /\ age' = [age EXCEPT ![e] = 0]

-----------------------------------------------------------------------------
(* dispatchForCard() and dispatch() up to the loop *)

\* The handler has decided: it leaves the dispatch running, and answers Lithic.
Decide(e) ==
  /\ at[e] = "idle"
  /\ Goto(e, "mapping")
  /\ UNCHANGED <<tenant, mapped, inbox, auditLog, updates, crashes, unanswered>>

GetMapping(e) ==
  /\ at[e] = "mapping"
  /\ \/ mapped /\ Goto(e, "tenant")
     \/ (~mapped \/ MayFail("lookup")) /\ End(e, "skipped")
  /\ UNCHANGED <<tenant, mapped, inbox, auditLog, updates, crashes, unanswered>>

\* The URL and the secret are read once; the event is signed with the time.
FindTenant(e) ==
  /\ at[e] = "tenant"
  /\ \/ /\ tenant.webhookUrl # NoUrl /\ tenant.webhookSecret
        /\ at' = [at EXCEPT ![e] = "send"]
        /\ url' = [url EXCEPT ![e] = tenant.webhookUrl]
        /\ UNCHANGED <<attempt, age>>
     \/ /\ tenant.webhookUrl = NoUrl \/ ~tenant.webhookSecret \/ MayFail("lookup")
        /\ End(e, "skipped")
  /\ UNCHANGED <<tenant, mapped, inbox, auditLog, updates, crashes, unanswered>>

-----------------------------------------------------------------------------
(* The attempts *)

\* verifyWebhookWithTimestamp() for an event of that age.
FreshEnough(seconds) == seconds <= maxAgeSeconds

\* How long an attempt lasts that fails: no longer than the abort timer lets it.
DurationsMutant == {0, 30 * REQUEST_TIMEOUT}
Durations == {0, REQUEST_TIMEOUT}

AttemptsLeft(e) == attempt[e] < Len(RETRY_DELAYS) - 1

\* The loop's catch: another attempt after the delay, or none.
Caught(e, seconds) ==
  \/ /\ AttemptsLeft(e)
     /\ attempt' = [attempt EXCEPT ![e] = @ + 1]
     /\ age' = [age EXCEPT ![e] = @ + seconds + RETRY_DELAYS[attempt[e] + 1]]
     /\ UNCHANGED <<at, url>>
  \/ ~AttemptsLeft(e) /\ Goto(e, "audit")

\* Anything but a 2xx is thrown.
AfterResponseMutant(e, ok) == End(e, "delivered")
AfterResponseMutant2(e, ok) == Caught(e, 0)
AfterResponse(e, ok) == IF ok THEN End(e, "delivered") ELSE Caught(e, 0)

\* The tenant takes the event; a copy of it is one it has under the same id.
TakeEvent(e) ==
  /\ FreshEnough(age[e])
  /\ inbox' = [inbox EXCEPT ![e] = @ + 1]

SendWebhook(e) ==
  /\ at[e] = "send"
  /\ \/ TakeEvent(e) /\ AfterResponse(e, TRUE)
     \/ /\ MayFail("refused") \/ ~FreshEnough(age[e])
        /\ AfterResponse(e, FALSE)
        /\ UNCHANGED inbox
  /\ UNCHANGED <<tenant, mapped, auditLog, updates, crashes, unanswered>>

\* The URL no longer validates, the connection fails, or the timer aborts the
\* request: the tenant has not seen it, or has and its answer is lost.
SendThrows(e) ==
  /\ at[e] = "send"
  /\ \/ MayFail("refused") /\ UNCHANGED <<inbox, unanswered>>
     \/ MayFail("lost") /\ TakeEvent(e) /\ unanswered' = unanswered \cup {e}
  /\ \E seconds \in Durations : Caught(e, seconds)
  /\ UNCHANGED <<tenant, mapped, auditLog, updates, crashes>>

\* The error of the insert is logged and dropped.
LogFailure(e) ==
  /\ at[e] = "audit"
  /\ \/ auditLog' = auditLog \cup {e} /\ End(e, "audited")
     \/ MayFail("audit") /\ UNCHANGED auditLog /\ End(e, "unlogged")
  /\ UNCHANGED <<tenant, mapped, inbox, updates, crashes, unanswered>>

-----------------------------------------------------------------------------
(* Around the dispatches *)

\* PATCH /v1/tenants/:id sets another URL, or takes it away.
UpdateTenant ==
  /\ updates < MaxUpdates
  /\ updates' = updates + 1
  /\ \E u \in Urls \cup {NoUrl} : tenant' = [tenant EXCEPT !.webhookUrl = u]
  /\ UNCHANGED <<mapped, dispatch, inbox, auditLog, crashes, unanswered>>

MappingExpires ==
  /\ mapped
  /\ mapped' = FALSE
  /\ UNCHANGED <<tenant, dispatch, inbox, auditLog, updates, crashes, unanswered>>

\* The dispatches of a process live in its memory.
Crash(p) ==
  /\ crashes < MaxCrashes
  /\ crashes' = crashes + 1
  /\ LET lost == {e \in Events : ProcessOf[e] = p /\ at[e] \notin Ended \cup {"idle"}}
     IN  /\ at' = [e \in Events |-> IF e \in lost THEN "crashed" ELSE at[e]]
         /\ url' = [e \in Events |-> IF e \in lost THEN NoUrl ELSE url[e]]
         /\ attempt' = [e \in Events |-> IF e \in lost THEN 0 ELSE attempt[e]]
         /\ age' = [e \in Events |-> IF e \in lost THEN 0 ELSE age[e]]
  /\ UNCHANGED <<tenant, mapped, inbox, auditLog, updates, unanswered>>

-----------------------------------------------------------------------------
Step(e) == GetMapping(e) \/ FindTenant(e) \/ SendWebhook(e) \/ SendThrows(e) \/ LogFailure(e)

Next ==
  \/ \E e \in Events : Decide(e) \/ Step(e)
  \/ UpdateTenant \/ MappingExpires
  \/ \E p \in Processes : Crash(p)

Spec == Init /\ [][Next]_vars

\* Node runs every ready continuation, and a request ends by its timer.  Nothing
\* makes an authorization come, a tenant change or a process die.
FairSpec == Spec /\ \A e \in Events : WF_vars(Step(e))

-----------------------------------------------------------------------------
(* Properties *)

\* Every event that is signed is taken by the tenant or has its row in the
\* AuditLog, for a tenant that fails, refuses or answers late, unless the insert
\* of the row fails or the process dies (dispatch() in webhook-dispatcher.ts).
EventAccountedFor ==
  \A e \in Events :
    at[e] = "send" ~> inbox[e] > 0 \/ e \in auditLog \/ at[e] \in {"unlogged", "crashed"}

\* What the dispatcher believes of an event and what the tenant has agree, but
\* for lost answers: only they make the tenant hear of an event again, or of one
\* that is logged as not delivered; and a delivered event has arrived.
CopiesExplained ==
  \A e \in Events :
    /\ at[e] = "delivered" => inbox[e] > 0
    /\ e \notin unanswered =>
         /\ inbox[e] <= 1
         /\ inbox[e] = 1 => at[e] = "delivered"

\* The retries are over before the SDK refuses the event for its age: no
\* attempt is spent on an event that the tenant would throw away.
RetriesStayFresh == \A e \in Events : at[e] = "send" => FreshEnough(age[e])
=============================================================================

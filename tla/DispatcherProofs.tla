-------------------------- MODULE DispatcherProofs --------------------------
(* What holds of Dispatcher for any number of events and processes, every    *)
(* schedule of retries and every fault.                                      *)
EXTENDS Dispatcher, TLAPS

Places == {"idle", "mapping", "tenant", "send", "audit"} \cup Ended
Attempts == 0 .. Len(RETRY_DELAYS) - 1

\* The types of a dispatch, and those of what is around it.
DispatchOK ==
  /\ at \in [Events -> Places]
  /\ url \in [Events -> Urls \cup {NoUrl}]
  /\ attempt \in [Events -> Attempts]
  /\ age \in [Events -> Nat]
  /\ inbox \in [Events -> 0 .. Len(RETRY_DELAYS)]
AroundOK ==
  /\ tenant \in [webhookUrl : Urls \cup {NoUrl}, webhookSecret : BOOLEAN]
  /\ mapped \in BOOLEAN
  /\ auditLog \subseteq Events /\ unanswered \subseteq Events
  /\ updates \in 0 .. MaxUpdates /\ crashes \in 0 .. MaxCrashes

\* A copy costs an attempt: before the loop there is none, and in it there are
\* no more than the attempts that are over.
CopiesCounted ==
  \A e \in Events :
    /\ at[e] \in {"idle", "mapping", "tenant"} => inbox[e] = 0
    /\ at[e] = "send" => inbox[e] <= attempt[e]

IInv == DispatchOK /\ AroundOK /\ CopiesCounted /\ CopiesExplained

LEMMA LengthType == Len(RETRY_DELAYS) \in Nat \ {0}
  BY DispatcherAssumption

LEMMA InvImpliesTypes == IInv => TypeOK
  BY DEF IInv, DispatchOK, AroundOK, TypeOK, Places, Attempts

-----------------------------------------------------------------------------
\* The ways out of a place.
LEMMA GotoKeepsTypes ==
  ASSUME DispatchOK, NEW e \in Events, NEW next \in Places, Goto(e, next), UNCHANGED inbox
  PROVE  /\ DispatchOK' /\ at'[e] = next /\ UNCHANGED <<url, attempt, age>>
         /\ \A o \in Events \ {e} : at'[o] = at[o]
  BY DEF DispatchOK, Goto

LEMMA EndKeepsTypes ==
  ASSUME DispatchOK, NEW e \in Events, NEW how \in Ended, End(e, how),
         inbox' \in [Events -> 0 .. Len(RETRY_DELAYS)]
  PROVE  /\ DispatchOK' /\ at'[e] = how
         /\ \A o \in Events \ {e} : at'[o] = at[o] /\ attempt'[o] = attempt[o]
  <1>1. 0 \in Attempts /\ how \in Places
    BY LengthType DEF Attempts, Places
  <1>2. at' \in [Events -> Places] /\ attempt' \in [Events -> Attempts]
    BY <1>1 DEF DispatchOK, End
  <1>3. url' \in [Events -> Urls \cup {NoUrl}] /\ age' \in [Events -> Nat]
    BY DEF DispatchOK, End
  <1> QED BY <1>2, <1>3 DEF DispatchOK, End

LEMMA CaughtKeepsTypes ==
  ASSUME DispatchOK, NEW e \in Events, at[e] = "send", NEW seconds \in Nat, Caught(e, seconds),
         inbox' \in [Events -> 0 .. Len(RETRY_DELAYS)]
  PROVE  /\ DispatchOK'
         /\ \/ at'[e] = "send" /\ attempt'[e] = attempt[e] + 1
            \/ at'[e] = "audit"
         /\ \A o \in Events \ {e} : at'[o] = at[o] /\ attempt'[o] = attempt[o]
  <1>1. CASE /\ AttemptsLeft(e)
             /\ attempt' = [attempt EXCEPT ![e] = @ + 1]
             /\ age' = [age EXCEPT ![e] = @ + seconds + RETRY_DELAYS[attempt[e] + 1]]
             /\ UNCHANGED <<at, url>>
    <2>1. attempt[e] + 1 \in Attempts /\ attempt[e] + 1 \in 1 .. Len(RETRY_DELAYS)
      BY <1>1, LengthType DEF AttemptsLeft, DispatchOK, Attempts
    <2>2. RETRY_DELAYS[attempt[e] + 1] \in Nat
      BY <2>1, DispatcherAssumption
    <2>3. age[e] + seconds + RETRY_DELAYS[attempt[e] + 1] \in Nat
      BY <2>2 DEF DispatchOK
    <2>4. attempt' \in [Events -> Attempts] /\ age' \in [Events -> Nat]
      BY <1>1, <2>1, <2>3 DEF DispatchOK
    <2> QED BY <1>1, <2>4 DEF DispatchOK
  <1>2. CASE Goto(e, "audit")
    BY <1>2 DEF DispatchOK, Goto, Places
  <1> QED BY <1>1, <1>2 DEF Caught

\* The copies of other events are as they were.
LEMMA OthersKeepCopies ==
  ASSUME CopiesCounted, CopiesExplained, NEW e \in Events,
         \A o \in Events \ {e} :
           /\ at'[o] = at[o] /\ attempt'[o] = attempt[o] /\ inbox'[o] = inbox[o]
           /\ o \in unanswered' <=> o \in unanswered,
         at'[e] \in {"idle", "mapping", "tenant"} => inbox'[e] = 0,
         at'[e] = "send" => inbox'[e] <= attempt'[e],
         at'[e] = "delivered" => inbox'[e] > 0,
         e \notin unanswered' => inbox'[e] <= 1 /\ (inbox'[e] = 1 => at'[e] = "delivered")
  PROVE  CopiesCounted' /\ CopiesExplained'
  BY DEF CopiesCounted, CopiesExplained

\* What the tenant has taken of an event that is being sent.
LEMMA BeforeSend ==
  ASSUME IInv, NEW e \in Events, at[e] = "send"
  PROVE  /\ inbox[e] \in Nat /\ inbox[e] <= attempt[e] /\ attempt[e] \in Attempts
         /\ e \notin unanswered => inbox[e] = 0
  BY LengthType DEF IInv, DispatchOK, CopiesCounted, CopiesExplained

LEMMA TakeEventType ==
  ASSUME IInv, NEW e \in Events, at[e] = "send", TakeEvent(e)
  PROVE  /\ inbox' \in [Events -> 0 .. Len(RETRY_DELAYS)] /\ inbox'[e] = inbox[e] + 1
         /\ \A o \in Events \ {e} : inbox'[o] = inbox[o]
  <1>1. inbox[e] + 1 \in 0 .. Len(RETRY_DELAYS)
    BY BeforeSend, LengthType DEF Attempts
  <1> QED BY <1>1 DEF TakeEvent, IInv, DispatchOK

-----------------------------------------------------------------------------
\* The steps of a dispatch keep the invariant.
LEMMA BeforeLoopKeepsInv ==
  ASSUME IInv, NEW e \in Events, Decide(e) \/ GetMapping(e) \/ FindTenant(e)
  PROVE  IInv'
  <1>1. UNCHANGED inbox /\ UNCHANGED <<tenant, mapped, auditLog, updates, crashes, unanswered>>
    BY DEF Decide, GetMapping, FindTenant
  <1>2. inbox[e] = 0 /\ attempt[e] \in Nat
    BY LengthType DEF Decide, GetMapping, FindTenant, IInv, CopiesCounted, DispatchOK, Attempts
  <1>3. CASE \E next \in {"mapping", "tenant"} : Goto(e, next)
    <2> PICK next \in {"mapping", "tenant"} : Goto(e, next)
      BY <1>3
    <2>1. /\ DispatchOK' /\ at'[e] = next /\ UNCHANGED attempt
          /\ \A o \in Events \ {e} : at'[o] = at[o]
      BY <1>1, GotoKeepsTypes DEF Places, IInv
    <2>2. CopiesCounted' /\ CopiesExplained'
      BY <1>1, <1>2, <2>1, OthersKeepCopies DEF IInv
    <2> QED BY <1>1, <2>1, <2>2 DEF IInv, AroundOK
  <1>4. CASE End(e, "skipped")
    <2>1. /\ DispatchOK' /\ at'[e] = "skipped"
          /\ \A o \in Events \ {e} : at'[o] = at[o] /\ attempt'[o] = attempt[o]
      BY <1>1, <1>4, EndKeepsTypes DEF Ended, IInv, DispatchOK
    <2>2. CopiesCounted' /\ CopiesExplained'
      BY <1>1, <1>2, <2>1, OthersKeepCopies DEF IInv
    <2> QED BY <1>1, <2>1, <2>2 DEF IInv, AroundOK
  <1>5. CASE /\ at' = [at EXCEPT ![e] = "send"]
             /\ url' = [url EXCEPT ![e] = tenant.webhookUrl]
             /\ UNCHANGED <<attempt, age>>
    <2>1. DispatchOK'
      BY <1>1, <1>5 DEF IInv, DispatchOK, AroundOK, Places
    <2>2. at'[e] = "send" /\ \A o \in Events \ {e} : at'[o] = at[o]
      BY <1>5 DEF IInv, DispatchOK
    <2>3. CopiesCounted' /\ CopiesExplained'
      BY <1>1, <1>2, <1>5, <2>2, OthersKeepCopies DEF IInv
    <2> QED BY <1>1, <2>1, <2>3 DEF IInv, AroundOK
  <1> QED BY <1>3, <1>4, <1>5 DEF Decide, GetMapping, FindTenant

LEMMA SendWebhookKeepsInv ==
  ASSUME IInv, NEW e \in Events, SendWebhook(e)
  PROVE  IInv'
  <1>1. at[e] = "send" /\ UNCHANGED <<tenant, mapped, auditLog, updates, crashes, unanswered>>
    BY DEF SendWebhook
  <1>2. /\ inbox[e] \in Nat /\ inbox[e] <= attempt[e] /\ attempt[e] \in Nat
        /\ e \notin unanswered => inbox[e] = 0
    BY <1>1, BeforeSend, LengthType DEF Attempts
  <1>3. CASE TakeEvent(e) /\ AfterResponse(e, TRUE)
    <2>1. /\ inbox' \in [Events -> 0 .. Len(RETRY_DELAYS)] /\ inbox'[e] = inbox[e] + 1
          /\ \A o \in Events \ {e} : inbox'[o] = inbox[o]
      BY <1>1, <1>3, TakeEventType
    <2>2. /\ DispatchOK' /\ at'[e] = "delivered"
          /\ \A o \in Events \ {e} : at'[o] = at[o] /\ attempt'[o] = attempt[o]
      BY <1>3, <2>1, EndKeepsTypes DEF AfterResponse, Ended, IInv
    <2>3. CopiesCounted' /\ CopiesExplained'
      BY <1>1, <1>2, <2>1, <2>2, OthersKeepCopies DEF IInv
    <2> QED BY <1>1, <2>2, <2>3 DEF IInv, AroundOK
  <1>4. CASE AfterResponse(e, FALSE) /\ UNCHANGED inbox
    <2>1. Caught(e, 0) /\ inbox' \in [Events -> 0 .. Len(RETRY_DELAYS)]
      BY <1>4 DEF AfterResponse, IInv, DispatchOK
    <2>2. /\ DispatchOK'
          /\ \/ at'[e] = "send" /\ attempt'[e] = attempt[e] + 1
             \/ at'[e] = "audit"
          /\ \A o \in Events \ {e} : at'[o] = at[o] /\ attempt'[o] = attempt[o]
      BY <1>1, <2>1, CaughtKeepsTypes DEF IInv
    <2>3. CopiesCounted' /\ CopiesExplained'
      BY <1>1, <1>2, <1>4, <2>2, OthersKeepCopies DEF IInv
    <2> QED BY <1>1, <2>2, <2>3 DEF IInv, AroundOK
  <1> QED BY <1>3, <1>4 DEF SendWebhook

LEMMA SendThrowsKeepsInv ==
  ASSUME IInv, NEW e \in Events, SendThrows(e)
  PROVE  IInv'
  <1>1. at[e] = "send" /\ UNCHANGED <<tenant, mapped, auditLog, updates, crashes>>
    BY DEF SendThrows
  <1>2. /\ inbox[e] \in Nat /\ inbox[e] <= attempt[e] /\ attempt[e] \in Nat
        /\ e \notin unanswered => inbox[e] = 0
    BY <1>1, BeforeSend, LengthType DEF Attempts
  <1>3. PICK seconds \in Nat : Caught(e, seconds)
    BY DispatcherAssumption DEF SendThrows, Durations
  <1>4. \/ UNCHANGED <<inbox, unanswered>>
        \/ TakeEvent(e) /\ unanswered' = unanswered \cup {e}
    BY DEF SendThrows
  <1>5. /\ inbox' \in [Events -> 0 .. Len(RETRY_DELAYS)]
        /\ inbox'[e] \in Nat /\ inbox'[e] <= attempt[e] + 1
        /\ \A o \in Events \ {e} : inbox'[o] = inbox[o] /\ (o \in unanswered' <=> o \in unanswered)
        /\ e \notin unanswered' => inbox'[e] = 0
    <2>1. CASE UNCHANGED <<inbox, unanswered>>
      BY <1>2, <2>1 DEF IInv, DispatchOK
    <2>2. CASE TakeEvent(e) /\ unanswered' = unanswered \cup {e}
      BY <1>1, <1>2, <2>2, TakeEventType
    <2> QED BY <1>4, <2>1, <2>2
  <1>6. /\ DispatchOK'
        /\ \/ at'[e] = "send" /\ attempt'[e] = attempt[e] + 1
           \/ at'[e] = "audit"
        /\ \A o \in Events \ {e} : at'[o] = at[o] /\ attempt'[o] = attempt[o]
    BY <1>1, <1>3, <1>5, CaughtKeepsTypes DEF IInv
  <1>7. CopiesCounted' /\ CopiesExplained'
    BY <1>5, <1>6, OthersKeepCopies DEF IInv
  <1>8. AroundOK'
    BY <1>1, <1>4 DEF IInv, AroundOK
  <1> QED BY <1>6, <1>7, <1>8 DEF IInv

LEMMA LogFailureKeepsInv ==
  ASSUME IInv, NEW e \in Events, LogFailure(e)
  PROVE  IInv'
  <1>1. /\ at[e] = "audit" /\ UNCHANGED inbox
        /\ UNCHANGED <<tenant, mapped, updates, crashes, unanswered>>
    BY DEF LogFailure
  <1>2. PICK how \in {"audited", "unlogged"} : End(e, how)
    BY DEF LogFailure
  <1>3. /\ DispatchOK' /\ at'[e] = how
        /\ \A o \in Events \ {e} : at'[o] = at[o] /\ attempt'[o] = attempt[o]
    BY <1>1, <1>2, EndKeepsTypes DEF Ended, IInv, DispatchOK
  <1>4. e \notin unanswered => inbox[e] <= 1 /\ inbox[e] # 1
    BY <1>1 DEF IInv, CopiesExplained
  <1>5. CopiesCounted' /\ CopiesExplained'
    BY <1>1, <1>3, <1>4, OthersKeepCopies DEF IInv
  <1>6. AroundOK'
    BY <1>1 DEF LogFailure, IInv, AroundOK
  <1> QED BY <1>3, <1>5, <1>6 DEF IInv

\* A crash ends the dispatches of its process and takes nothing back.
LEMMA CrashKeepsInv ==
  ASSUME IInv, NEW p \in Processes, Crash(p)
  PROVE  IInv'
  <1> DEFINE lost == {e \in Events : ProcessOf[e] = p /\ at[e] \notin Ended \cup {"idle"}}
  <1>1. /\ at' = [e \in Events |-> IF e \in lost THEN "crashed" ELSE at[e]]
        /\ url' = [e \in Events |-> IF e \in lost THEN NoUrl ELSE url[e]]
        /\ attempt' = [e \in Events |-> IF e \in lost THEN 0 ELSE attempt[e]]
        /\ age' = [e \in Events |-> IF e \in lost THEN 0 ELSE age[e]]
        /\ UNCHANGED <<tenant, mapped, inbox, auditLog, updates, unanswered>>
    BY DEF Crash
  <1>2. DispatchOK'
    <2>1. 0 \in Attempts /\ "crashed" \in Places
      BY LengthType DEF Attempts, Places, Ended
    <2> QED BY <1>1, <2>1 DEF IInv, DispatchOK
  <1>3. AroundOK'
    BY <1>1, DispatcherAssumption DEF Crash, IInv, AroundOK
  <1>4. \A e \in Events : e \in lost => at[e] # "delivered"
    BY DEF Ended
  <1>5. CopiesCounted' /\ CopiesExplained'
    BY <1>1, <1>4 DEF IInv, CopiesCounted, CopiesExplained
  <1> QED BY <1>2, <1>3, <1>5 DEF IInv

LEMMA NextKeepsInv == IInv /\ [Next]_vars => IInv'
  <1> SUFFICES ASSUME IInv, [Next]_vars PROVE IInv'
    OBVIOUS
  <1>1. ASSUME NEW e \in Events, Decide(e) \/ Step(e) PROVE IInv'
    BY <1>1, BeforeLoopKeepsInv, SendWebhookKeepsInv, SendThrowsKeepsInv, LogFailureKeepsInv DEF Step
  <1>2. CASE UpdateTenant
    <2>1. tenant' \in [webhookUrl : Urls \cup {NoUrl}, webhookSecret : BOOLEAN]
      BY <1>2 DEF UpdateTenant, IInv, AroundOK
    <2>2. updates' \in 0 .. MaxUpdates
      BY <1>2, DispatcherAssumption DEF UpdateTenant, IInv, AroundOK
    <2>3. AroundOK'
      BY <1>2, <2>1, <2>2 DEF UpdateTenant, IInv, AroundOK
    <2> QED BY <1>2, <2>3 DEF UpdateTenant, dispatch, IInv, DispatchOK, CopiesCounted, CopiesExplained
  <1>3. CASE MappingExpires
    BY <1>3 DEF MappingExpires, dispatch, IInv, DispatchOK, AroundOK, CopiesCounted, CopiesExplained
  <1>4. ASSUME NEW p \in Processes, Crash(p) PROVE IInv'
    BY <1>4, CrashKeepsInv
  <1>5. CASE UNCHANGED vars
    BY <1>5 DEF vars, dispatch, IInv, DispatchOK, AroundOK, CopiesCounted, CopiesExplained
  <1> QED BY <1>1, <1>2, <1>3, <1>4, <1>5 DEF Next

LEMMA InvHolds == Spec => []IInv
  <1>1. Init => IInv
    <2> SUFFICES ASSUME Init PROVE IInv
      OBVIOUS
    <2>1. 0 \in Attempts /\ 0 \in 0 .. Len(RETRY_DELAYS) /\ "idle" \in Places
      BY LengthType DEF Attempts, Places
    <2>2. DispatchOK
      BY <2>1 DEF Init, DispatchOK
    <2>3. AroundOK
      BY DispatcherAssumption DEF Init, AroundOK
    <2> QED BY <2>2, <2>3 DEF Init, IInv, CopiesCounted, CopiesExplained
  <1> QED BY <1>1, NextKeepsInv, PTL DEF Spec

-----------------------------------------------------------------------------
\* Every variable keeps its type: no attempt is counted beyond the delays, and
\* the tenant gets no more copies than there are attempts.
THEOREM TypeCorrect == Spec => []TypeOK
  BY InvHolds, InvImpliesTypes, PTL

\* A second copy of an event, or a copy of one that is logged as undelivered, has
\* a lost answer for its reason, whatever crashes, changes and fails.
THEOREM CopiesExplainedHolds == Spec => []CopiesExplained
  <1>1. IInv => CopiesExplained
    BY DEF IInv
  <1> QED BY <1>1, InvHolds, PTL

-----------------------------------------------------------------------------
(* The age of an event.                                                      *)

\* d bounds an attempt that fails with the wait after it, and all the attempts
\* but the last fit the age the SDK accepts.
Fits(d) ==
  /\ d \in Nat
  /\ \A k \in 1 .. Len(RETRY_DELAYS) : RETRY_DELAYS[k] + REQUEST_TIMEOUT <= d
  /\ (Len(RETRY_DELAYS) - 1) * d <= maxAgeSeconds

\* An event has aged by no more than its attempts that are over.
Aged(d) ==
  \A e \in Events :
    /\ at[e] \in {"idle", "mapping", "tenant"} => age[e] = 0
    /\ at[e] = "send" => age[e] <= attempt[e] * d

LEMMA CaughtAges ==
  ASSUME DispatchOK, NEW d, Fits(d), Aged(d), NEW e \in Events, at[e] = "send",
         NEW seconds \in Nat, seconds <= REQUEST_TIMEOUT, Caught(e, seconds)
  PROVE  Aged(d)'
  <1>1. CASE /\ AttemptsLeft(e)
             /\ attempt' = [attempt EXCEPT ![e] = @ + 1]
             /\ age' = [age EXCEPT ![e] = @ + seconds + RETRY_DELAYS[attempt[e] + 1]]
             /\ UNCHANGED <<at, url>>
    <2> DEFINE n == attempt[e]
               delay == RETRY_DELAYS[n + 1]
    <2>1. n \in Nat /\ n + 1 \in 1 .. Len(RETRY_DELAYS)
      BY <1>1, LengthType DEF AttemptsLeft, DispatchOK, Attempts
    <2>2. delay \in Nat /\ delay + REQUEST_TIMEOUT <= d /\ REQUEST_TIMEOUT \in Nat /\ d \in Nat
      BY <2>1, DispatcherAssumption DEF Fits
    <2>3. age[e] \in Nat /\ age[e] <= n * d
      BY DEF DispatchOK, Aged
    <2>4. n * d \in Nat /\ (n + 1) * d = n * d + d
      <3> HIDE DEF n, delay
      <3> QED BY <2>1, <2>2
    <2>5. age[e] + seconds + delay <= (n + 1) * d
      <3> HIDE DEF n, delay
      <3> QED BY <2>2, <2>3, <2>4
    <2>6. /\ at'[e] = "send" /\ attempt'[e] = n + 1 /\ age'[e] = age[e] + seconds + delay
          /\ \A o \in Events \ {e} : at'[o] = at[o] /\ attempt'[o] = attempt[o] /\ age'[o] = age[o]
      BY <1>1 DEF DispatchOK
    <2> QED BY <2>5, <2>6 DEF Aged
  <1>2. CASE Goto(e, "audit")
    <2>1. /\ at'[e] = "audit" /\ UNCHANGED <<attempt, age>>
          /\ \A o \in Events \ {e} : at'[o] = at[o]
      BY <1>2 DEF Goto, DispatchOK
    <2> QED BY <2>1 DEF Aged
  <1> QED BY <1>1, <1>2 DEF Caught

LEMMA NextKeepsAged ==
  ASSUME NEW d, Fits(d)
  PROVE  IInv /\ Aged(d) /\ [Next]_vars => Aged(d)'
  <1> SUFFICES ASSUME IInv, Aged(d), [Next]_vars PROVE Aged(d)'
    OBVIOUS
  <1> USE DEF IInv
  <1>1. ASSUME NEW e \in Events, NEW how \in Ended, End(e, how) PROVE Aged(d)'
    BY <1>1 DEF End, Ended, DispatchOK, Aged
  <1>2. ASSUME NEW e \in Events, Decide(e) PROVE Aged(d)'
    BY <1>2 DEF Decide, Goto, DispatchOK, Aged
  <1>3. ASSUME NEW e \in Events, GetMapping(e) PROVE Aged(d)'
    <2>1. CASE Goto(e, "tenant")
      BY <1>3, <2>1 DEF GetMapping, Goto, DispatchOK, Aged
    <2>2. CASE End(e, "skipped")
      BY <1>1, <2>2 DEF Ended
    <2> QED BY <1>3, <2>1, <2>2 DEF GetMapping
  <1>4. ASSUME NEW e \in Events, FindTenant(e) PROVE Aged(d)'
    <2>1. CASE at' = [at EXCEPT ![e] = "send"] /\ UNCHANGED <<attempt, age>>
      <3>1. age[e] = 0 /\ attempt[e] \in Nat
        BY <1>4, LengthType DEF FindTenant, Aged, DispatchOK, Attempts
      <3> DEFINE n == attempt[e]
      <3>2. n \in Nat /\ d \in Nat
        BY <3>1 DEF Fits
      <3>3. 0 <= n * d
        <4> HIDE DEF n
        <4> QED BY <3>2
      <3> QED BY <2>1, <3>1, <3>3 DEF DispatchOK, Aged
    <2>2. CASE End(e, "skipped")
      BY <1>1, <2>2 DEF Ended
    <2> QED BY <1>4, <2>1, <2>2 DEF FindTenant
  <1>5. ASSUME NEW e \in Events, SendWebhook(e) PROVE Aged(d)'
    <2>1. CASE End(e, "delivered")
      BY <1>1, <2>1 DEF Ended
    <2>2. CASE Caught(e, 0)
      BY <1>5, <2>2, CaughtAges, DispatcherAssumption DEF SendWebhook
    <2> QED BY <1>5, <2>1, <2>2 DEF SendWebhook, AfterResponse
  <1>6. ASSUME NEW e \in Events, SendThrows(e) PROVE Aged(d)'
    <2>1. PICK seconds \in Nat : seconds <= REQUEST_TIMEOUT /\ Caught(e, seconds)
      BY <1>6, DispatcherAssumption DEF SendThrows, Durations
    <2> QED BY <1>6, <2>1, CaughtAges DEF SendThrows
  <1>7. ASSUME NEW e \in Events, LogFailure(e) PROVE Aged(d)'
    BY <1>1, <1>7 DEF LogFailure, Ended
  <1>8. ASSUME NEW p \in Processes, Crash(p) PROVE Aged(d)'
    BY <1>8 DEF Crash, Aged
  <1>9. CASE UpdateTenant \/ MappingExpires \/ UNCHANGED vars
    BY <1>9 DEF UpdateTenant, MappingExpires, vars, dispatch, Aged
  <1> QED BY <1>2, <1>3, <1>4, <1>5, <1>6, <1>7, <1>8, <1>9 DEF Next, Step

\* With at most d seconds for a failed attempt and the wait after it (70 in
\* the code, which waits twice, against 300) no retry comes too late for the SDK,
\* for any number of attempts.
THEOREM RetriesStayFreshHolds ==
  ASSUME NEW d, Fits(d)
  PROVE  Spec => []RetriesStayFresh
  <1>1. Init => Aged(d)
    BY DEF Init, Aged
  <1>2. IInv /\ Aged(d) => RetriesStayFresh
    <2> SUFFICES ASSUME IInv, Aged(d), NEW e \in Events, at[e] = "send"
                 PROVE  age[e] <= maxAgeSeconds
      BY DEF RetriesStayFresh, FreshEnough
    <2> DEFINE n == attempt[e]
               last == Len(RETRY_DELAYS) - 1
    <2>1. n \in Nat /\ last \in Nat /\ n <= last
      BY LengthType DEF IInv, DispatchOK, Attempts
    <2>2. d \in Nat /\ maxAgeSeconds \in Nat /\ last * d <= maxAgeSeconds
      BY DispatcherAssumption DEF Fits
    <2>3. age[e] \in Nat /\ age[e] <= n * d
      BY DEF IInv, DispatchOK, Aged
    <2>4. n * d <= last * d
      <3> HIDE DEF n, last
      <3> QED BY <2>1, <2>2
    <2>5. n * d \in Nat /\ last * d \in Nat
      BY <2>1, <2>2
    <2> HIDE DEF n, last
    <2> QED BY <2>2, <2>3, <2>4, <2>5
  <1>3. IInv /\ Aged(d) /\ [Next]_vars => Aged(d)'
    BY NextKeepsAged
  <1> QED BY <1>1, <1>2, <1>3, InvHolds, PTL DEF Spec
=============================================================================

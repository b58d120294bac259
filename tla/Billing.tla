------------------------------- MODULE Billing -------------------------------
(***************************************************************************)
(* The subscription of one company: its licence row, its checkout          *)
(* sessions, the notifications of Mercado Pago and the requests that the   *)
(* owner and the platform administrator send (src/backend/src/modules/     *)
(* billing).                                                               *)
(*                                                                         *)
(* Every request is a task of its own.  It asks the provider, then reads   *)
(* the session and the licence, then writes what it decided from them: the *)
(* three are separate steps, and nothing in the code locks the licence in  *)
(* between, so tasks overlap in every order.                               *)
(*                                                                         *)
(* A preapproval of the provider carries the id of the checkout session    *)
(* that created it as its external reference, so one set Subs names both.  *)
(***************************************************************************)
EXTENDS Naturals

CONSTANTS Subs,       \* checkout sessions, and the preapproval each creates
          Workers,    \* requests that can be under way at once
          Notices,    \* notifications, by their dedupe key
          MaxTime,    \* the last billing period
          MaxRequests, \* requests of the owner and of the administrator, charges and
                       \* cancellations at the provider
          Order,      \* the order in which sessions are created
          ForcedPlans, ForcedStatuses, \* what an administrator sets by hand
          NoSub, NoNotice, Nothing

ASSUME BillingAssumption ==
    /\ MaxTime \in Nat \ {0} /\ MaxRequests \in Nat
    /\ NoSub \notin Subs /\ NoNotice \notin Notices
    /\ Nothing \notin {"FREE", "BASIC", "PRO"}
    /\ Order \in [Subs -> Nat]
    /\ ForcedPlans \subseteq {"FREE", "BASIC", "PRO"}
    /\ ForcedStatuses \subseteq {"ACTIVE", "SUSPENDED", "EXPIRED"}

VARIABLES now,        \* the current period; a period ends at the start of a later one
          license,    \* the licence row
          session,    \* the billing checkout sessions
          newer,      \* the sessions updated after each session
          provider,   \* what Mercado Pago holds of each preapproval
          event,     \* the notifications and their rows
          task,        \* the request of each worker
          requests,   \* requests, charges and cancellations so far
          billed,     \* history: the highest plan the provider was ever authorised to charge
          forced      \* history: the highest plan an administrator gave

vars == <<now, license, session, newer, provider, event, task,
          requests, billed, forced>>

Plans == {"FREE", "BASIC", "PRO"}
PaidPlans == {"BASIC", "PRO"}
Rank == [FREE |-> 0, BASIC |-> 1, PRO |-> 2]
Highest(p, q) == IF Rank[p] >= Rank[q] THEN p ELSE q

LicenseStatuses == {"ACTIVE", "SUSPENDED", "EXPIRED"}
SessionStatuses == {"NONE", "PENDING", "COMPLETED", "CANCELLED", "FAILED"}
ProviderStatuses == {"none", "pending", "authorized", "paused", "cancelled", "rejected"}
Topics == {"subscription", "payment"}
Settled == {"PROCESSED", "IGNORED_UNKNOWN"}

(***************************************************************************)
(* Rows.  A period end of 0 is a null date.                                *)
(***************************************************************************)

License == [plan: Plans, status: LicenseStatuses, pending: PaidPlans \cup {Nothing},
            ref: Subs \cup {NoSub}, periodEnd: 0 .. MaxTime + 1,
            cancelAtEnd: BOOLEAN, expiresAt: 0 .. MaxTime + 1]

Details == [sub: Subs, status: ProviderStatuses \ {"none"},
            amount: PaidPlans \cup {Nothing}, periodEnd: 0 .. MaxTime + 1]

\* An update names the fields it changes.
WithFields(row, fields) ==
    [f \in DOMAIN row |-> IF f \in DOMAIN fields THEN fields[f] ELSE row[f]]

\* What a task writes: the status of the session, and the licence fields it names.
IsWrites(x) ==
    /\ DOMAIN x = {"action", "session", "fields"}
    /\ x.action \in {"activated", "downgraded", "unchanged", "ignored_unknown"}
    /\ x.session \in SessionStatuses
    /\ DOMAIN x.fields \subseteq DOMAIN license
    /\ WithFields(license, x.fields) \in License

Kinds == {"webhook", "refresh", "cancel", "subscribe", "change", "resume"}
Phases == {"ask", "decide", "write", "supersede", "settle", "checkout", "amount", "mark"}

IsTask(j) ==
    /\ j.kind \in Kinds /\ j.phase \in Phases /\ j.plan \in Plans
    /\ j.notice \in Notices \cup {NoNotice}
    /\ j.sub \in Subs \cup {NoSub} /\ j.prior \in Subs \cup {NoSub}
    /\ j.details # Nothing => j.details \in Details
    /\ j.writes # Nothing => IsWrites(j.writes)

BillingTypeOK ==
    /\ now \in 0 .. MaxTime
    /\ license \in License
    /\ session \in [Subs -> [status: SessionStatuses, plan: PaidPlans \cup {Nothing},
                             linked: BOOLEAN]]
    /\ newer \in [Subs -> SUBSET Subs]
    /\ provider \in [Subs -> [status: ProviderStatuses, amount: PaidPlans \cup {Nothing},
                              periodEnd: 0 .. MaxTime + 1]]
    /\ event \in [Notices -> [topic: Topics \cup {Nothing}, sub: Subs \cup {NoSub},
                              status: Settled \cup {"NONE", "RECEIVED", "FAILED_RETRYABLE"}]]
    /\ DOMAIN task = Workers /\ \A w \in Workers : task[w] # Nothing => IsTask(task[w])
    /\ requests \in 0 .. MaxRequests
    /\ billed \in Plans /\ forced \in Plans

BillingInit ==
    /\ now = 0
    /\ license = [plan |-> "FREE", status |-> "ACTIVE", pending |-> Nothing, ref |-> NoSub,
                  periodEnd |-> 0, cancelAtEnd |-> FALSE, expiresAt |-> 0]
    /\ session = [s \in Subs |-> [status |-> "NONE", plan |-> Nothing, linked |-> FALSE]]
    /\ newer = [s \in Subs |-> {}]
    /\ provider = [s \in Subs |-> [status |-> "none", amount |-> Nothing, periodEnd |-> 0]]
    /\ event = [n \in Notices |-> [topic |-> Nothing, sub |-> NoSub, status |-> "NONE"]]
    /\ task = [w \in Workers |-> Nothing]
    /\ requests = 0
    /\ billed = "FREE" /\ forced = "FREE"

Idle(w) == task[w] = Nothing
Runs(w, kind, phase) == task[w] # Nothing /\ task[w].kind \in kind /\ task[w].phase = phase
NewTask(kind, phase) ==
    [kind |-> kind, phase |-> phase, notice |-> NoNotice, sub |-> NoSub, prior |-> NoSub,
     plan |-> "FREE", details |-> Nothing, writes |-> Nothing]
Goes(w, j) == task' = [task EXCEPT ![w] = j]
Ends(w) == task' = [task EXCEPT ![w] = Nothing]

\* Every update of a session stamps it.
Touched(s) == [t \in Subs |-> IF t = s THEN {} ELSE newer[t] \cup {s}]

\* The most recently updated session with a provider reference in one of these statuses.
Latest(statuses) ==
    LET rows == {s \in Subs : session[s].linked /\ session[s].status \in statuses}
        last == {s \in rows : newer[s] \cap rows = {}}
    IN  IF last = {} THEN NoSub ELSE CHOOSE s \in last : TRUE

Future(end) == end > now

\* The number of requests and charges is bounded, for the model checker only.
Asked == requests < MaxRequests /\ requests' = requests + 1

\* A preapproval as getSubscription returns it.
SubscriptionDetails(s) ==
    [sub |-> s, status |-> provider[s].status, amount |-> provider[s].amount,
     periodEnd |-> provider[s].periodEnd]

\* A payment names its preapproval but carries no period and no plan amount.
PaymentDetails(s) ==
    [sub |-> s,
     status |-> IF provider[s].status = "paused" THEN "rejected" ELSE provider[s].status,
     amount |-> Nothing, periodEnd |-> 0]

------------------------------------------------------------------------------
(***************************************************************************)
(* What a provider status does to the session and the licence.  The        *)
(* decision is taken from the rows as they are read now; a later step      *)
(* writes it.                                                              *)
(***************************************************************************)

Different(d) == license.ref \notin {NoSub, d.sub}
MatchesPending(d) == license.pending = session[d.sub].plan

CanTakeOver(d) ==
    /\ session[d.sub].status = "PENDING"
    /\ \/ MatchesPending(d)
       \/ license.ref = NoSub
       \/ license.plan = "BASIC" /\ session[d.sub].plan = "PRO"

UpgradeMatchesAmount(d) ==
    license.pending = "PRO" /\ license.plan = "BASIC" /\ d.amount = "PRO"

(* Mutant: a requested upgrade is granted whatever amount the provider charges. *)
GrantedPlan_AnyAmount(d) ==
    IF license.pending = "PRO" /\ license.plan = "BASIC" THEN "PRO" ELSE session[d.sub].plan

GrantedPlan(d) == IF UpgradeMatchesAmount(d) THEN "PRO" ELSE session[d.sub].plan

(* Mutant: the fields of the subscription are cleared and the plan is kept. *)
FreeFields_KeepsPlan ==
    [status |-> "ACTIVE", expiresAt |-> 0, ref |-> NoSub,
     periodEnd |-> 0, cancelAtEnd |-> FALSE, pending |-> Nothing]

FreeFields ==
    [plan |-> "FREE", status |-> "ACTIVE", expiresAt |-> 0, ref |-> NoSub,
     periodEnd |-> 0, cancelAtEnd |-> FALSE, pending |-> Nothing]

Written(action, status, fields) == [action |-> action, session |-> status, fields |-> fields]

Activated(d) ==
    Written("activated", "COMPLETED",
            [plan |-> GrantedPlan(d), status |-> "ACTIVE", expiresAt |-> 0, ref |-> d.sub,
             periodEnd |-> d.periodEnd, cancelAtEnd |-> FALSE, pending |-> Nothing])

FailsCheckout(d) ==
    \/ d.status = "rejected"
    \/ d.status = "cancelled"
       /\ (Different(d) \/ MatchesPending(d) \/ license.ref = NoSub)

CheckoutFailed(d) ==
    Written("unchanged", IF d.status = "cancelled" THEN "CANCELLED" ELSE "FAILED",
            [pending |-> IF MatchesPending(d) THEN Nothing ELSE license.pending])

PeriodEnd(d) == IF d.periodEnd = 0 THEN license.periodEnd ELSE d.periodEnd

Cancelled(d) ==
    IF Future(PeriodEnd(d))
    THEN Written("unchanged", "CANCELLED",
                 [expiresAt |-> 0, ref |-> d.sub, periodEnd |-> PeriodEnd(d), cancelAtEnd |-> TRUE])
    ELSE Written("downgraded", "CANCELLED", FreeFields)

Paused(d) ==
    Written("unchanged", "PENDING",
            [ref |-> d.sub,
             periodEnd |-> IF Future(PeriodEnd(d)) THEN PeriodEnd(d) ELSE license.periodEnd])

NoFields == [f \in {} |-> Nothing]

Decision(d) ==
    IF d.status = "authorized" THEN
        IF Different(d) /\ ~CanTakeOver(d)
        THEN Written("ignored_unknown", session[d.sub].status, NoFields)
        ELSE Activated(d)
    ELSE IF FailsCheckout(d) THEN CheckoutFailed(d)
    ELSE IF d.status = "cancelled" THEN Cancelled(d)
    ELSE IF d.status = "paused" THEN Paused(d)
    ELSE Written("unchanged", "PENDING", NoFields)

------------------------------------------------------------------------------
(***************************************************************************)
(* The steps that the tasks share: ask the provider, decide, write.        *)
(***************************************************************************)

\* A notification is of a payment, or of a preapproval; an authorised payment leads to its
\* preapproval.
Answer(j) ==
    IF j.notice # NoNotice /\ event[j.notice].topic = "payment"
    THEN PaymentDetails(j.sub)
    ELSE SubscriptionDetails(j.sub)

Ask(w) ==
    /\ Runs(w, {"webhook", "refresh"}, "ask")
    /\ Goes(w, [task[w] EXCEPT !.phase = "decide", !.details = Answer(task[w])])
    /\ UNCHANGED <<now, license, session, newer, provider, event,
                   requests, billed, forced>>

\* The provider does not answer.  The notification is kept as retryable, and answered ok.
AskFails(w) ==
    /\ Runs(w, {"webhook", "refresh"}, "ask")
    /\ Ends(w)
    /\ event' = IF task[w].notice = NoNotice THEN event
                ELSE [event EXCEPT ![task[w].notice].status = "FAILED_RETRYABLE"]
    /\ UNCHANGED <<now, license, session, newer, provider,
                   requests, billed, forced>>

Decide(w) ==
    /\ Runs(w, Kinds, "decide")
    /\ Goes(w, [task[w] EXCEPT !.phase = "write", !.details = Nothing,
                              !.writes = Decision(task[w].details)])
    /\ UNCHANGED <<now, license, session, newer, provider, event,
                   requests, billed, forced>>

\* A refresh that activated a pending checkout cancels the subscription it replaces.
PhaseAfterWrite(j) ==
    IF j.kind = "webhook" THEN "mark"
    ELSE IF j.kind = "refresh" /\ j.writes.action = "activated" /\ j.prior \notin {NoSub, j.sub}
    THEN "supersede"
    ELSE "settle"

Write(w) ==
    LET j == task[w]
    IN  /\ Runs(w, Kinds, "write")
        /\ license' = WithFields(license, j.writes.fields)
        /\ IF j.writes.action = "ignored_unknown"
           THEN UNCHANGED <<session, newer>>
           ELSE /\ session' = [session EXCEPT ![j.sub].status = j.writes.session,
                                              ![j.sub].linked = TRUE]
                /\ newer' = Touched(j.sub)
        /\ Goes(w, [j EXCEPT !.phase = PhaseAfterWrite(j),
                             !.writes = Written(j.writes.action, "NONE", NoFields)])
        /\ UNCHANGED <<now, provider, event, requests, billed, forced>>

(***************************************************************************)
(* A webhook marks the row of its notification last.                       *)
(***************************************************************************)

MarkEvent(w) ==
    /\ Runs(w, {"webhook"}, "mark")
    /\ event' = [event EXCEPT ![task[w].notice].status =
                    IF task[w].writes.action = "ignored_unknown" THEN "IGNORED_UNKNOWN"
                    ELSE "PROCESSED"]
    /\ Ends(w)
    /\ UNCHANGED <<now, license, session, newer, provider, requests, billed, forced>>

(***************************************************************************)
(* Notifications of the provider.                                          *)
(***************************************************************************)

\* A notification names a preapproval and no more: what it says is asked of the provider when it
\* is handled, so one that is late differs from a new one only by its key.
Named(n, topic, s) ==
    IF event[n].topic = Nothing
    THEN provider[s].status # "none"
    ELSE event[n].topic = topic /\ event[n].sub = s

\* The row of a notification is created or found by its key; one already settled is answered
\* as a duplicate.
ReceiveNotice(w, n, topic, s) ==
    /\ Idle(w)
    /\ Named(n, topic, s) /\ event[n].status \notin Settled
    /\ event' = [event EXCEPT ![n].topic = topic, ![n].sub = s,
                              ![n].status = IF @ = "NONE" THEN "RECEIVED" ELSE @]
    /\ Goes(w, [NewTask("webhook", "ask") EXCEPT !.notice = n, !.sub = s])
    /\ UNCHANGED <<now, license, session, newer, provider,
                   requests, billed, forced>>

(***************************************************************************)
(* Refresh, by the owner or by an administrator.                           *)
(***************************************************************************)

RefreshTarget ==
    IF Latest({"PENDING"}) # NoSub THEN Latest({"PENDING"})
    ELSE IF license.ref # NoSub THEN license.ref
    ELSE Latest({"PENDING", "COMPLETED"})

\* What applyScheduledTransitions leaves of the licence.
Transitioned ==
    IF Future(license.periodEnd) THEN license
    ELSE IF license.cancelAtEnd THEN WithFields(license, FreeFields)
    ELSE IF license.plan = "PRO" /\ license.pending = "BASIC"
    THEN [license EXCEPT !.plan = "BASIC", !.status = "ACTIVE", !.expiresAt = 0,
                         !.pending = Nothing]
    ELSE license

Refresh(w) ==
    /\ Idle(w) /\ Asked
    /\ IF RefreshTarget = NoSub
       THEN license' = Transitioned /\ UNCHANGED task
       ELSE /\ Goes(w, [NewTask("refresh", "ask") EXCEPT
                          !.sub = RefreshTarget,
                          !.prior = IF Latest({"PENDING"}) = NoSub THEN NoSub ELSE license.ref])
            /\ UNCHANGED license
    /\ UNCHANGED <<now, session, newer, provider, event,
                   billed, forced>>

\* An administrator reconciles with the same refresh, when there is something to ask about.
Reconcile(w) ==
    /\ license.ref # NoSub \/ Latest({"PENDING", "COMPLETED"}) # NoSub
    /\ Refresh(w)

\* A failure is only a warning.
Supersede(w) ==
    /\ Runs(w, {"refresh"}, "supersede")
    /\ \/ provider' = [provider EXCEPT ![task[w].prior].status = "cancelled"]
       \/ UNCHANGED provider
    /\ Goes(w, [task[w] EXCEPT !.phase = "settle", !.prior = NoSub])
    /\ UNCHANGED <<now, license, session, newer, event,
                   requests, billed, forced>>

RefreshSettles(w) ==
    /\ Runs(w, {"refresh"}, "settle")
    /\ license' = Transitioned
    /\ Ends(w)
    /\ UNCHANGED <<now, session, newer, provider, event,
                   requests, billed, forced>>

(***************************************************************************)
(* The owner: checkout, change of plan, cancellation, resumption.          *)
(***************************************************************************)

\* A new checkout session; asking for the plan one already has returns at once.
OpenCheckout(w, plan, kind) ==
    \E s \in Subs :
        /\ session[s].status = "NONE"
        /\ \A t \in Subs : session[t].status = "NONE" => Order[s] <= Order[t]
        /\ session' = [session EXCEPT ![s].status = "PENDING", ![s].plan = plan]
        /\ newer' = Touched(s)
        /\ Goes(w, [NewTask(kind, "checkout") EXCEPT !.sub = s, !.plan = plan])

Subscribe(w, plan) ==
    /\ Idle(w) /\ Asked
    /\ license.plan # plan \/ license.status # "ACTIVE"
    /\ OpenCheckout(w, plan, "subscribe")
    /\ UNCHANGED <<now, license, provider, event, billed, forced>>

\* The preapproval is created pending; the session learns its reference and the licence what is
\* pending.
CheckoutCreated(w) ==
    LET j == task[w]
    IN  /\ Runs(w, {"subscribe"}, "checkout")
        /\ provider' = [provider EXCEPT ![j.sub].status = "pending", ![j.sub].amount = j.plan]
        /\ session' = [session EXCEPT ![j.sub].linked = TRUE]
        /\ newer' = Touched(j.sub)
        /\ license' = [license EXCEPT !.pending = j.plan]
        /\ Ends(w)
        /\ UNCHANGED <<now, event, requests, billed, forced>>

CheckoutFails(w) ==
    /\ Runs(w, {"subscribe"}, "checkout")
    /\ session' = [session EXCEPT ![task[w].sub].status = "CANCELLED"]
    /\ newer' = Touched(task[w].sub)
    /\ Ends(w)
    /\ UNCHANGED <<now, license, provider, event,
                   requests, billed, forced>>

\* From FREE a change is a subscription, and to FREE a cancellation.
ChangePlan(w, plan) ==
    /\ Idle(w) /\ Asked
    /\ license.plan # "FREE" /\ license.plan # plan
    /\ license' = [license EXCEPT !.pending = plan]
    /\ IF license.ref # NoSub
       THEN /\ Goes(w, [NewTask("change", "amount") EXCEPT !.sub = license.ref, !.plan = plan])
            /\ UNCHANGED <<session, newer>>
       ELSE IF plan = "PRO" THEN OpenCheckout(w, plan, "subscribe")
       ELSE UNCHANGED <<task, session, newer>>
    /\ UNCHANGED <<now, provider, event, billed, forced>>

\* The provider takes the new amount, and charges it from then on.
AmountChanged(w) ==
    LET j == task[w]
    IN  /\ Runs(w, {"change"}, "amount")
        /\ provider[j.sub].status # "cancelled"
        /\ provider' = [provider EXCEPT ![j.sub].amount = j.plan]
        /\ billed' = IF provider[j.sub].status = "authorized" THEN Highest(billed, j.plan) ELSE billed
        /\ Ends(w)
        /\ UNCHANGED <<now, license, session, newer, event,
                       requests, forced>>

\* It refuses: an upgrade falls back to a new checkout, a downgrade stays pending.
AmountRefused(w) ==
    /\ Runs(w, {"change"}, "amount")
    /\ IF task[w].plan = "PRO"
       THEN OpenCheckout(w, "PRO", "subscribe")
       ELSE Ends(w) /\ UNCHANGED <<session, newer>>
    /\ UNCHANGED <<now, license, provider, event,
                   requests, billed, forced>>

CancelSubscription(w) ==
    /\ Idle(w) /\ Asked
    /\ license.plan # "FREE" \/ license.ref # NoSub
    /\ Goes(w, IF license.ref = NoSub THEN NewTask("cancel", "settle")
               ELSE [NewTask("cancel", "ask") EXCEPT !.sub = license.ref])
    /\ UNCHANGED <<now, license, session, newer, provider, event,
                   billed, forced>>

\* The provider cancels and returns the preapproval, or refuses, or cancels and is not heard.
ProviderCancels(w) ==
    LET s == task[w].sub
    IN  /\ Runs(w, {"cancel"}, "ask")
        /\ \/ /\ provider' = [provider EXCEPT ![s].status = "cancelled"]
              /\ Goes(w, [task[w] EXCEPT !.phase = "decide",
                            !.details = [SubscriptionDetails(s) EXCEPT !.status = "cancelled"]])
           \/ UNCHANGED provider /\ Ends(w)
           \/ provider' = [provider EXCEPT ![s].status = "cancelled"] /\ Ends(w)
        /\ UNCHANGED <<now, license, session, newer, event,
                       requests, billed, forced>>

CancelSettles(w) ==
    /\ Runs(w, {"cancel"}, "settle")
    /\ license' = IF Future(license.periodEnd)
                  THEN [license EXCEPT !.cancelAtEnd = TRUE]
                  ELSE WithFields(license, FreeFields)
    /\ Ends(w)
    /\ UNCHANGED <<now, session, newer, provider, event,
                   requests, billed, forced>>

Resume(w) ==
    /\ Idle(w) /\ license.ref # NoSub /\ Asked
    /\ Goes(w, [NewTask("resume", "ask") EXCEPT !.sub = license.ref, !.plan = license.plan])
    /\ UNCHANGED <<now, license, session, newer, provider, event,
                   billed, forced>>

\* A cancelled preapproval cannot be authorised again; any refusal asks for a new checkout.
ProviderResumes(w) ==
    LET j == task[w]
    IN  /\ Runs(w, {"resume"}, "ask")
        /\ \/ /\ provider[j.sub].status \in {"authorized", "paused"}
              /\ provider' = [provider EXCEPT ![j.sub].status = "authorized"]
              /\ billed' = Highest(billed, provider[j.sub].amount)
              /\ IF j.plan = "FREE" THEN Ends(w) ELSE Goes(w, [j EXCEPT !.phase = "settle"])
           \/ UNCHANGED <<provider, billed>> /\ Ends(w)
        /\ UNCHANGED <<now, license, session, newer, event,
                       requests, forced>>

ResumeSettles(w) ==
    /\ Runs(w, {"resume"}, "settle")
    /\ license' = [license EXCEPT !.cancelAtEnd = FALSE]
    /\ Ends(w)
    /\ UNCHANGED <<now, session, newer, provider, event,
                   requests, billed, forced>>

(***************************************************************************)
(* The administrator, each action in one step, and the maintenance job.     *)
(***************************************************************************)

\* The plan is set by hand; the provider may stay linked.
ForcePlan(plan, status, clear) ==
    /\ Asked
    /\ license' = [license EXCEPT !.plan = plan, !.status = status, !.cancelAtEnd = FALSE,
                                  !.pending = Nothing,
                                  !.ref = IF clear THEN NoSub ELSE @,
                                  !.periodEnd = IF clear THEN 0 ELSE @]
    /\ forced' = Highest(forced, plan)
    /\ UNCHANGED <<now, session, newer, provider, event, task, billed>>

\* The provider is not told.
CancelLocal(atPeriodEnd) ==
    /\ Asked
    /\ license' = IF atPeriodEnd /\ Future(license.periodEnd)
                  THEN [license EXCEPT !.cancelAtEnd = TRUE]
                  ELSE [license EXCEPT !.plan = "FREE", !.status = "ACTIVE", !.expiresAt = 0,
                                       !.cancelAtEnd = FALSE, !.pending = Nothing]
    /\ UNCHANGED <<now, session, newer, provider, event, task,
                   billed, forced>>

ExpiredByDate == license.expiresAt # 0 /\ license.expiresAt <= now
NeedsRecovery == license.status \in {"EXPIRED", "SUSPENDED"} \/ ExpiredByDate

\* A licence without an expiry that needs no recovery cannot be extended.
ExtendInEmergency ==
    /\ Asked
    /\ license.expiresAt > now \/ NeedsRecovery
    /\ license.expiresAt <= MaxTime
    /\ license' = [license EXCEPT !.status = IF NeedsRecovery THEN "ACTIVE" ELSE @,
                                  !.expiresAt = (IF @ > now THEN @ ELSE now) + 1]
    /\ UNCHANGED <<now, session, newer, provider, event, task,
                   billed, forced>>

Suspend ==
    /\ Asked
    /\ license.status # "SUSPENDED"
    /\ license' = [license EXCEPT !.status = "SUSPENDED"]
    /\ UNCHANGED <<now, session, newer, provider, event, task,
                   billed, forced>>

Reactivate ==
    /\ Asked
    /\ license.status = "SUSPENDED" /\ ~ExpiredByDate
    /\ license' = [license EXCEPT !.status = "ACTIVE"]
    /\ UNCHANGED <<now, session, newer, provider, event, task,
                   billed, forced>>

\* The sweep expires active licences whose date has passed.
ExpireLicenses ==
    /\ license.status = "ACTIVE" /\ ExpiredByDate
    /\ license' = [license EXCEPT !.status = "EXPIRED"]
    /\ UNCHANGED <<now, session, newer, provider, event, task,
                   requests, billed, forced>>

(***************************************************************************)
(* The provider and its customer, as the code uses them; time; a restart   *)
(* of the server, which ends a request wherever it is.                     *)
(***************************************************************************)

Becomes(s, status) ==
    /\ Asked
    /\ provider' = [provider EXCEPT ![s].status = status]
    /\ UNCHANGED <<now, license, session, newer, event, task,
                   billed, forced>>

\* The customer completes the checkout or pays what was missing, or a period is renewed.
Charge(s) ==
    /\ Asked
    /\ \/ provider[s].status \in {"pending", "paused"}
       \/ provider[s].status = "authorized" /\ ~Future(provider[s].periodEnd)
    /\ provider' = [provider EXCEPT ![s].status = "authorized", ![s].periodEnd = now + 1]
    /\ billed' = Highest(billed, provider[s].amount)
    /\ UNCHANGED <<now, license, session, newer, event, task, forced>>

ChargeFails(s) ==
    \/ provider[s].status = "pending" /\ Becomes(s, "rejected")
    \/ provider[s].status = "authorized" /\ Becomes(s, "paused")

CustomerCancels(s) ==
    provider[s].status \in {"pending", "authorized", "paused"} /\ Becomes(s, "cancelled")

Tick ==
    /\ now < MaxTime
    /\ now' = now + 1
    /\ UNCHANGED <<license, session, newer, provider, event, task,
                   requests, billed, forced>>

RequestDies(w) ==
    /\ ~Idle(w)
    /\ Ends(w)
    /\ UNCHANGED <<now, license, session, newer, provider, event,
                   requests, billed, forced>>

------------------------------------------------------------------------------
Step(w) ==
    \/ Ask(w) \/ AskFails(w) \/ Decide(w) \/ Write(w)
    \/ MarkEvent(w) \/ Supersede(w) \/ RefreshSettles(w)
    \/ CheckoutCreated(w) \/ CheckoutFails(w) \/ AmountChanged(w) \/ AmountRefused(w)
    \/ ProviderCancels(w) \/ CancelSettles(w) \/ ProviderResumes(w) \/ ResumeSettles(w)

Request(w) ==
    \/ \E n \in Notices, topic \in Topics, s \in Subs : ReceiveNotice(w, n, topic, s)
    \/ Refresh(w) \/ Reconcile(w) \/ Resume(w) \/ CancelSubscription(w)
    \/ \E plan \in PaidPlans : Subscribe(w, plan) \/ ChangePlan(w, plan)

Administer ==
    \/ \E plan \in ForcedPlans, status \in ForcedStatuses, clear \in BOOLEAN :
          ForcePlan(plan, status, clear)
    \/ \E atPeriodEnd \in BOOLEAN : CancelLocal(atPeriodEnd)
    \/ ExtendInEmergency \/ Suspend \/ Reactivate

Environment ==
    \/ \E s \in Subs : Charge(s) \/ ChargeFails(s) \/ CustomerCancels(s)
    \/ Tick \/ ExpireLicenses

BillingNext ==
    \/ \E w \in Workers : Step(w) \/ Request(w) \/ RequestDies(w)
    \/ Administer
    \/ Environment

BillingSpec == BillingInit /\ [][BillingNext]_vars

------------------------------------------------------------------------------
(***************************************************************************)
(* What the subscription promises.                                         *)
(***************************************************************************)

\* The licence never gives more than the provider was once authorised to charge for, or than an
\* administrator set by hand: a plan is not paid for by a checkout that was only opened, by a
\* change of plan that was only asked for, or by an old answer of the provider.
PaidPlanIsCharged ==
    /\ BillingTypeOK
    /\ Rank[license.plan] <= Rank[Highest(billed, forced)]
    /\ \A s \in Subs : session[s].status = "COMPLETED" => provider[s].periodEnd # 0

\* A paid plan that no administrator set always names the preapproval that pays for it, so that
\* a refresh can find out that it ended.
PaidPlanHasSource == license.plan # "FREE" => license.ref # NoSub \/ forced # "FREE"

==============================================================================

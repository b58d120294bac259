---------------------------- MODULE Administration ----------------------------
(***************************************************************************)
(* The administrators of the platform: how the first of them registers, how *)
(* they get, grant and lose permissions, and how one of them revokes a      *)
(* session as a support action, tried out first and executed with a         *)
(* receipt (auth.service.ts, admin-permissions, support-actions).           *)
(*                                                                          *)
(* Almost everything is a read, then a write, then a row of the audit log,  *)
(* in no transaction: requests overlap and may end after any of the three.  *)
(***************************************************************************)
EXTENDS Naturals, FiniteSets, Sequences

CONSTANTS Users,     \* who may register
          Slugs,     \* identifiers of their companies
          Scopes,    \* scopes of permissions, the platform among them
          Platform,
          Sessions,  \* device sessions of one company
          Keys,      \* idempotency keys
          Workers,   \* requests that can be under way at once
          Budgets,   \* bound: how many requests of each kind there are
          Nothing

RequestKinds == {"register", "initial", "appoint", "bootstrap", "grant", "revoke", "dry",
                 "execute", "legacy", "age"}
ASSUME AdministrationAssumption ==
    /\ Platform \in Scopes
    /\ Nothing \notin Users \cup Sessions \cup Keys \cup Slugs
    /\ Budgets \subseteq [RequestKinds -> Nat]

(* What an execution leaves; Nothing is no receipt.                        *)
Receipts == [status: {"PENDING", "SUCCEEDED", "FAILED"}, actor: Users, session: Sessions,
             dryRun: Nat]
ASSUME ReceiptAssumption == Nothing \notin Receipts

Permissions == {"manage", "revoke session"}
Rows == Users \X Permissions \X Scopes
RowsOf(users, p) == users \X {p} \X Scopes

VARIABLES user,      \* User: nobody yet, a user or a platform administrator
          company,   \* Company: the user who registered the slug
          permission,\* AdminUserPermission
          log,       \* AdminAuditLog
          old,       \* how many of its rows are older than fifteen minutes
          session,   \* DeviceSession
          receipt,   \* SupportActionExecution
          job,       \* the request of each worker
          budget,    \* requests still to come
          first,     \* history: users who registered first and met no other registration
          unlogged   \* history: permissions whose last change the log does not tell
tables == <<user, company, permission, session, receipt>>
vars == <<tables, log, old, job, budget, first, unlogged>>

TypeOK ==
    /\ user \in [Users -> {"none", "user", "admin"}]
    /\ company \in [Slugs -> Users \cup {Nothing}]
    /\ permission \in [Rows -> {"none", "active", "inactive"}]
    /\ old \in 0..Len(log)
    /\ session \in [Sessions -> {"live", "revoked"}]
    /\ receipt \in [Keys -> Receipts \cup {Nothing}]
    /\ budget \in [RequestKinds -> Nat]
    /\ first \subseteq Users /\ unlogged \subseteq Rows

Init ==
    /\ user = [u \in Users |-> "none"]
    /\ company = [s \in Slugs |-> Nothing]
    /\ permission = [row \in Rows |-> "none"]
    /\ log = <<>> /\ old = 0
    /\ session = [s \in Sessions |-> "live"]
    /\ receipt = [k \in Keys |-> Nothing]
    /\ job = [w \in Workers |-> Nothing]
    /\ budget \in Budgets
    /\ first = {} /\ unlogged = {}

Spend(kind) == budget[kind] > 0 /\ budget' = [budget EXCEPT ![kind] = @ - 1]
Idle(w) == job[w] = Nothing
At(w, kinds, step) == job[w] # Nothing /\ job[w].kind \in kinds /\ job[w].step = step
Goes(w, step) == job' = [job EXCEPT ![w].step = step]
Ends(w) == job' = [job EXCEPT ![w] = Nothing]
NewJob(kind, step, actor) ==
    [kind |-> kind, step |-> step, actor |-> actor, row |-> Nothing, slug |-> Nothing,
     session |-> Nothing, key |-> Nothing, dryRun |-> 0,
     checked |-> TRUE,  \* what was read to allow it has not changed
     alone |-> TRUE]    \* nobody wrote the same permission after it

Entry(what, j) ==
    [what |-> what, actor |-> j.actor, row |-> j.row, session |-> j.session, key |-> j.key,
     dryRun |-> j.dryRun, checked |-> j.checked]
Audit(what, w) == log' = Append(log, Entry(what, job[w]))

------------------------------------------------------------------------------
(***************************************************************************)
(* Registration.  The password is hashed between the check and the         *)
(* transaction, in which the unique keys decide.                           *)
(***************************************************************************)
StartRegister(w, u, slug) ==
    /\ Idle(w) /\ Spend("register")
    /\ user[u] = "none" /\ company[slug] = Nothing
    /\ job' = [job EXCEPT ![w] = [NewJob("register", "create", u) EXCEPT !.slug = slug]]
    /\ UNCHANGED <<tables, log, old, first, unlogged>>

StartRegisterInitial(w, u, slug) ==
    /\ Idle(w) /\ Spend("initial")
    /\ \A v \in Users : user[v] = "none"
    /\ job' = [job EXCEPT ![w] = [NewJob("initial", "create", u) EXCEPT !.slug = slug]]
    /\ UNCHANGED <<tables, log, old, first, unlogged>>

CreateOwnerAccount(w) ==
    LET j == job[w]
        taken == user[j.actor] # "none" \/ company[j.slug] # Nothing
    IN /\ At(w, {"register", "initial"}, "create")
       /\ IF taken THEN Ends(w) /\ UNCHANGED <<user, company, first>>
          ELSE /\ user' = [user EXCEPT ![j.actor] = IF j.kind = "initial" THEN "admin" ELSE "user"]
               /\ company' = [company EXCEPT ![j.slug] = j.actor]
               /\ first' = IF j.kind = "initial" /\ j.checked THEN first \cup {j.actor} ELSE first
               /\ job' = [v \in Workers |->
                    IF v = w THEN Nothing
                    ELSE IF At(v, {"initial"}, "create") THEN [job[v] EXCEPT !.checked = FALSE]
                    ELSE job[v]]
       /\ UNCHANGED <<permission, session, receipt, log, old, budget, unlogged>>

\* Further administrators are appointed in the database.
AppointAdmin(u) ==
    /\ Spend("appoint")
    /\ user[u] = "user"
    /\ user' = [user EXCEPT ![u] = "admin"]
    /\ UNCHANGED <<company, permission, session, receipt, log, old, job, first, unlogged>>

------------------------------------------------------------------------------
(***************************************************************************)
(* Permissions.  Only administrators pass the gate of the panel.           *)
(***************************************************************************)
RequirePlatformAdmin(u) == user[u] = "admin"

Holds_EvenRevoked(u, p) == (* Mutant: revoked permissions count. *)
    \E row \in RowsOf({u}, p) : permission[row] # "none"
\* Whatever the scope of the permission is.
Holds(u, p) == \E row \in RowsOf({u}, p) : permission[row] = "active"
Logged(rows) == rows \cap unlogged = {}

\* Every permission that is known is of high or critical risk.
IsCriticalAdminPermission(p) == p \in Permissions

StartMutation(w, kind, actor, row) ==
    LET blocked == kind = "grant" /\ actor = row[1] /\ IsCriticalAdminPermission(row[2])
    IN /\ Idle(w) /\ Spend(kind)
       /\ RequirePlatformAdmin(actor) /\ user[row[1]] # "none"
       /\ job' = [job EXCEPT ![w] =
             [NewJob(kind, IF Holds(actor, "manage") /\ ~blocked THEN "write" ELSE "deny", actor)
                EXCEPT !.row = row, !.checked = Logged(RowsOf({actor}, "manage"))]]
       /\ UNCHANGED <<tables, log, old, first, unlogged>>

\* The script that makes the first manager writes down the attempt before it checks anything.
StartBootstrap(w, u) ==
    /\ Idle(w) /\ Spend("bootstrap")
    /\ LET j == [NewJob("bootstrap", IF RequirePlatformAdmin(u) THEN "managers" ELSE "deny", Nothing)
                   EXCEPT !.row = <<u, "manage", Platform>>]
       IN job' = [job EXCEPT ![w] = j] /\ log' = Append(log, Entry("attempted", j))
    /\ UNCHANGED <<tables, old, first, unlogged>>

FindManagers(w) ==
    LET managers == {row \in RowsOf(Users, "manage") : permission[row] = "active"}
    IN /\ At(w, {"bootstrap"}, "managers")
       /\ job' = [job EXCEPT ![w].step = IF managers = {} THEN "write" ELSE "deny",
                             ![w].checked = Logged(RowsOf(Users, "manage"))]
       /\ UNCHANGED <<tables, log, old, budget, first, unlogged>>

\* The rows a request was allowed by.
Basis(j) == CASE j.kind = "bootstrap" -> RowsOf(Users, "manage")
              [] j.kind \in {"grant", "revoke"} -> RowsOf({j.actor}, "manage")
              [] j.kind \in {"dry", "execute"} -> RowsOf({j.actor}, "revoke session")
              [] j.kind \in {"register", "initial", "legacy"} -> {}
Disturbed(w, row) ==
    [v \in Workers |->
        IF v = w \/ Idle(v) THEN job[v]
        ELSE [job[v] EXCEPT !.checked = @ /\ row \notin Basis(job[v]),
                            !.alone = @ /\ job[v].row # row]]

\* A grant is an upsert; a revocation updates the row if it is active.
WritePermission(w) ==
    LET j == job[w] IN
    /\ At(w, {"grant", "revoke", "bootstrap"}, "write")
    /\ permission' = [permission EXCEPT ![j.row] =
          IF j.kind # "revoke" THEN "active" ELSE IF @ = "active" THEN "inactive" ELSE @]
    /\ unlogged' = unlogged \cup {j.row}
    /\ job' = [Disturbed(w, j.row) EXCEPT ![w].step = "audit", ![w].alone = TRUE]
    /\ UNCHANGED <<user, company, session, receipt, log, old, budget, first>>

AuditMutation(w) ==
    LET j == job[w] IN
    /\ At(w, {"grant", "revoke", "bootstrap"}, "audit")
    /\ Audit(j.kind, w)
    /\ unlogged' = IF j.alone THEN unlogged \ {j.row} ELSE unlogged \cup {j.row}
    /\ job' = [IF j.alone THEN job ELSE Disturbed(w, j.row) EXCEPT ![w] = Nothing]
    /\ UNCHANGED <<tables, old, budget, first>>

Deny(w) ==
    /\ At(w, RequestKinds, "deny")
    /\ Audit("denied", w) /\ Ends(w)
    /\ UNCHANGED <<tables, old, budget, first, unlogged>>

------------------------------------------------------------------------------
(***************************************************************************)
(* The revocation of a session as a support action.                        *)
(***************************************************************************)
StartDryRun(w, actor, s) ==
    /\ Idle(w) /\ Spend("dry")
    /\ RequirePlatformAdmin(actor)
    /\ job' = [job EXCEPT ![w] =
          [NewJob("dry", IF Holds(actor, "revoke session") THEN "record" ELSE "deny", actor)
             EXCEPT !.session = s, !.checked = Logged(RowsOf({actor}, "revoke session"))]]
    /\ UNCHANGED <<tables, log, old, first, unlogged>>

RecordDryRun(w) ==
    /\ At(w, {"dry"}, "record")
    /\ Audit("dry", w) /\ Ends(w)
    /\ UNCHANGED <<tables, old, budget, first, unlogged>>

StartExecution(w, actor, k, s, dryRun) ==
    /\ Idle(w) /\ Spend("execute")
    /\ RequirePlatformAdmin(actor)
    /\ job' = [job EXCEPT ![w] =
          [NewJob("execute", IF Holds(actor, "revoke session") THEN "evidence" ELSE "deny", actor)
             EXCEPT !.session = s, !.key = k, !.dryRun = dryRun,
                    !.checked = Logged(RowsOf({actor}, "revoke session"))]]
    /\ UNCHANGED <<tables, log, old, first, unlogged>>

ValidateDryRunEvidence_AnyActor(j) == (* Mutant: whoever tried it out. *)
    /\ j.dryRun \in old + 1 .. Len(log)
    /\ log[j.dryRun].what = "dry" /\ log[j.dryRun].session = j.session
ValidateDryRunEvidence(j) ==
    /\ j.dryRun \in old + 1 .. Len(log)
    /\ log[j.dryRun].what = "dry"
    /\ log[j.dryRun].actor = j.actor /\ log[j.dryRun].session = j.session

\* A key that has a receipt is answered from it.
FindEvidence(w) ==
    LET j == job[w] IN
    /\ At(w, {"execute"}, "evidence")
    /\ IF receipt[j.key] # Nothing THEN Ends(w)
       ELSE Goes(w, IF ValidateDryRunEvidence(j) /\ session[j.session] = "live"
                    THEN "request" ELSE "deny")
    /\ UNCHANGED <<tables, log, old, budget, first, unlogged>>

RecordRequest(w) ==
    /\ At(w, {"execute"}, "request")
    /\ Audit("requested", w) /\ Goes(w, "receipt")
    /\ UNCHANGED <<tables, old, budget, first, unlogged>>

CreateReceipt(w) ==
    LET j == job[w] IN
    /\ At(w, {"execute"}, "receipt")
    /\ IF receipt[j.key] # Nothing THEN Ends(w) /\ UNCHANGED receipt
       ELSE /\ receipt' = [receipt EXCEPT ![j.key] =
                  [status |-> "PENDING", actor |-> j.actor, session |-> j.session,
                   dryRun |-> j.dryRun]]
            /\ Goes(w, "effect")
    /\ UNCHANGED <<user, company, permission, session, log, old, budget, first, unlogged>>

RevokeCompanySession(w) ==
    /\ At(w, {"execute"}, "effect")
    /\ session' = [session EXCEPT ![job[w].session] = "revoked"]
    /\ Goes(w, "succeed")
    /\ UNCHANGED <<user, company, permission, receipt, log, old, budget, first, unlogged>>

RecordSuccess(w) ==
    /\ At(w, {"execute"}, "succeed")
    /\ Audit("succeeded", w) /\ Goes(w, "finish")
    /\ UNCHANGED <<tables, old, budget, first, unlogged>>

FinishReceipt(w, step, status) ==
    /\ At(w, {"execute"}, step)
    /\ receipt' = [receipt EXCEPT ![job[w].key].status = status]
    /\ Ends(w)
    /\ UNCHANGED <<user, company, permission, session, log, old, budget, first, unlogged>>

\* Any of the steps after the receipt may raise an error, which is written down; the receipt
\* then says that nothing was applied, which it may have been.
Fail(w) ==
    /\ \E step \in {"effect", "succeed", "finish"} : At(w, {"execute"}, step)
    /\ Audit("failed", w) /\ Goes(w, "failed")
    /\ UNCHANGED <<tables, old, budget, first, unlogged>>

\* The older route asks for no permission and writes down the request and its outcome, both
\* of which may fail without a word.
StartLegacyRevoke(w, actor, s) ==
    LET j == [NewJob("legacy", "effect", actor) EXCEPT !.session = s] IN
    /\ Idle(w) /\ Spend("legacy")
    /\ RequirePlatformAdmin(actor)
    /\ job' = [job EXCEPT ![w] = j]
    /\ log' \in {log, Append(log, Entry("legacy requested", j))}
    /\ UNCHANGED <<tables, old, first, unlogged>>

RevokeLegacyAdminSession(w) ==
    /\ At(w, {"legacy"}, "effect")
    /\ session' \in {session, [session EXCEPT ![job[w].session] = "revoked"]}
    /\ Goes(w, "told")
    /\ UNCHANGED <<user, company, permission, receipt, log, old, budget, first, unlogged>>

RecordLegacyRevokeAudit(w) ==
    /\ At(w, {"legacy"}, "told")
    /\ log' \in {log, Append(log, Entry("legacy told", job[w]))}
    /\ Ends(w)
    /\ UNCHANGED <<tables, old, budget, first, unlogged>>

\* Fifteen minutes pass.
Age ==
    /\ Spend("age")
    /\ old' = Len(log)
    /\ UNCHANGED <<tables, log, job, first, unlogged>>

Die(w) ==
    /\ ~Idle(w) /\ Ends(w)
    /\ UNCHANGED <<tables, log, old, budget, first, unlogged>>

Next ==
    \/ \E w \in Workers :
         \/ \E u \in Users, slug \in Slugs :
               StartRegister(w, u, slug) \/ StartRegisterInitial(w, u, slug)
         \/ CreateOwnerAccount(w)
         \/ \E u \in Users : StartBootstrap(w, u)
         \/ \E u \in Users, row \in Rows, kind \in {"grant", "revoke"} :
               StartMutation(w, kind, u, row)
         \/ FindManagers(w) \/ WritePermission(w) \/ AuditMutation(w) \/ Deny(w)
         \/ \E u \in Users, s \in Sessions : StartDryRun(w, u, s) \/ StartLegacyRevoke(w, u, s)
         \/ RevokeLegacyAdminSession(w) \/ RecordLegacyRevokeAudit(w)
         \/ \E u \in Users, k \in Keys, s \in Sessions, d \in 1..Len(log) :
               StartExecution(w, u, k, s, d)
         \/ RecordDryRun(w) \/ FindEvidence(w) \/ RecordRequest(w) \/ CreateReceipt(w)
         \/ RevokeCompanySession(w) \/ RecordSuccess(w) \/ FinishReceipt(w, "finish", "SUCCEEDED")
         \/ Fail(w) \/ FinishReceipt(w, "failed", "FAILED")
         \/ Die(w)
    \/ \E u \in Users : AppointAdmin(u)
    \/ Age
Spec == Init /\ [][Next]_vars

------------------------------------------------------------------------------
(***************************************************************************)
(* Properties.                                                             *)
(***************************************************************************)
\* What the log says of a permission: its last change.
Told(entries, row) ==
    \E i \in DOMAIN entries :
        /\ entries[i].what \in {"grant", "bootstrap"} /\ entries[i].row = row
        /\ \A k \in i + 1 .. Len(entries) :
              entries[k].what = "revoke" => entries[k].row # row
ToldBefore(i, rows) == \E row \in rows : Told(SubSeq(log, 1, i - 1), row)

\* Who may do what can be explained from the audit log.  A permission is active exactly when
\* its last change in the log gave it, unless two changes of it overlapped or a request ended
\* before it wrote its own down; and for every act in the log whose actor's permissions stayed
\* as they were read, the log before it shows the permission: a manager for a change, nobody
\* for a bootstrap, a holder for a support action.  Nobody ever grants themselves anything, and
\* one user at most became administrator as the first, but for registrations that overlapped.
\* (admin-permissions.service.ts; admin-permissions.bootstrap.ts; auth.service.ts
\* registerInitial; support-actions.rbac.ts.)
AuthorityIsExplained ==
    /\ TypeOK
    /\ \A row \in Rows \ unlogged : permission[row] = "active" <=> Told(log, row)
    /\ \A i \in DOMAIN log :
        LET e == log[i] IN
        /\ e.checked /\ e.what \in {"grant", "revoke"} => ToldBefore(i, RowsOf({e.actor}, "manage"))
        /\ e.checked /\ e.what = "bootstrap" => ~ToldBefore(i, RowsOf(Users, "manage"))
        /\ e.checked /\ e.what \in {"dry", "requested"}
              => ToldBefore(i, RowsOf({e.actor}, "revoke session"))
        /\ e.what = "grant" => e.row[1] # e.actor
    /\ Cardinality(first) <= 1

\* However requests with one key overlap, fail and die: one of them at most executes, and a
\* receipt that says so belongs to a session that is revoked and to three rows of the log, in
\* this order: the administrator tried it out, asked for it, and it succeeded.
\* (support-actions.execution.service.ts executeRevokeSession.)
ExecutionsAreEvidenced ==
    \A k \in Keys :
        LET told(what) == {i \in DOMAIN log : log[i].what = what /\ log[i].key = k}
            running == {w \in Workers : \E step \in {"effect", "succeed", "finish", "failed"} :
                            At(w, {"execute"}, step) /\ job[w].key = k}
        IN /\ Cardinality(told("succeeded")) <= 1
           /\ Cardinality(running) <= 1
           /\ running # {} => receipt[k].status = "PENDING"
           /\ receipt[k] # Nothing => LET r == receipt[k] IN
                 /\ log[r.dryRun].what = "dry" /\ log[r.dryRun].actor = r.actor
                 /\ \E i \in told("requested") : r.dryRun < i /\ log[i].actor = r.actor
                 /\ r.status = "SUCCEEDED" =>
                       /\ session[r.session] = "revoked" /\ session[log[r.dryRun].session] = "revoked"
                       /\ \E i \in told("requested"), n \in told("succeeded") :
                             r.dryRun < i /\ i < n /\ log[i].actor = r.actor
==============================================================================

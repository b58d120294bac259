--------------------------- MODULE TenantDeletion ---------------------------
(***************************************************************************)
(* The deletion of a company (tenant):                                     *)
(* backend/src/modules/tenant-deletion/tenant-deletion.service.ts, the     *)
(* workflow the admins drive, tenant-deletion-execution.service.ts, the    *)
(* selective execution, and tenant-lifecycle.service.ts, the gate that     *)
(* every request of the company passes.                                    *)
(*                                                                         *)
(* The workflow reads a request and then updates it under the condition    *)
(* that its status is still the one read, so a transition is one step.     *)
(* The execution takes a lock on the request (executionAttemptId), which   *)
(* another attempt may take over after 30 minutes, and runs the plan       *)
(* category by category, each in a transaction that also checkpoints the   *)
(* progress; it may stop or be killed at any point.                        *)
(***************************************************************************)
EXTENDS Integers

CONSTANTS
    Requests,    \* deletion requests of the company
    Executors,   \* calls of execute: an attempt each
    Last,        \* the number of categories of the plan
    Deleting,    \* the category that deletes the data a device can write
    Closing,     \* the category that removes the memberships of the company
    None,        \* no executor, no request
    MaxLost      \* bound: commits whose outcome the executor never learns

Categories == 1..Last

ASSUME PlanAssumption ==
    /\ Last \in Nat \ {0}
    /\ Deleting \in Categories /\ Closing \in Categories
    /\ None \notin Executors \cup Requests
    /\ MaxLost \in Nat

VARIABLES
    request,    \* TenantDeletionRequest rows
    audit,      \* EXECUTION_CATEGORY_COMPLETED events of a request
    cancelling, \* requests an admin cancels without having seen a quarantine
    pc, job,    \* where each executor is, and its local variables
    lost,       \* commits whose outcome got lost
    devices,    \* the devices of the company
    admitted,   \* a request of the company passed the gate, and is running
    data        \* the company has data of its devices

requestVars == <<request, audit, cancelling>>
executorVars == <<pc, job, lost>>
tenantVars == <<devices, admitted, data>>
deletionVars == <<request, audit, cancelling, pc, job, lost, devices, admitted, data>>

Active == {"REQUESTED", "IDENTITY_PENDING", "VERIFIED", "DRY_RUN_READY",
           "FUTURE_PENDING_DELETION", "EXECUTION_IN_PROGRESS",
           "DELETION_EXECUTED"}
Terminal == {"CANCELLED", "REJECTED", "DELETION_EXECUTED"}
Statuses == {"none"} \cup Active \cup Terminal

RequestRecord ==
    [status : Statuses,
     guard : BOOLEAN,                       \* activeCompanyGuard is set
     identity : {"NOT_STARTED", "PENDING", "VERIFIED", "FAILED"},
     dryRun : BOOLEAN,                      \* a dry run is stored
     attempt : Executors \cup {None},       \* executionAttemptId
     stale : BOOLEAN,                       \* locked for 30 minutes
     progress : SUBSET Categories]          \* completedCategories

Steps == {"idle", "locked", "ready", "running", "category", "failing",
          "releasing", "done"}

JobRecord ==
    [request : Requests \cup {None}, status : Statuses,
     progress : SUBSET Categories]

NoRequest ==
    [status |-> "none", guard |-> FALSE, identity |-> "NOT_STARTED",
     dryRun |-> FALSE, attempt |-> None, stale |-> FALSE, progress |-> {}]
NoJob == [request |-> None, status |-> "none", progress |-> {}]

(* A request that was closed without an execution gave the guard back.     *)
TypeOK ==
    /\ request \in [Requests -> RequestRecord]
    /\ \A r \in Requests :
          request[r].guard => request[r].status \in Active
    /\ audit \in [Requests -> [Categories -> Nat]]
    /\ cancelling \subseteq Requests
    /\ pc \in [Executors -> Steps]
    /\ job \in [Executors -> JobRecord]
    /\ lost \in 0..MaxLost
    /\ devices \in {"operational", "quarantined", "revoked"}
    /\ admitted \in BOOLEAN
    /\ data \in BOOLEAN

Init ==
    /\ request = [r \in Requests |-> NoRequest]
    /\ audit = [r \in Requests |-> [c \in Categories |-> 0]]
    /\ cancelling = {}
    /\ pc = [p \in Executors |-> "idle"]
    /\ job = [p \in Executors |-> NoJob]
    /\ lost = 0
    /\ devices = "operational"
    /\ admitted = FALSE
    /\ data = TRUE

-----------------------------------------------------------------------------
(* The workflow.                                                           *)

Update(r, row) == request' = [request EXCEPT ![r] = row]

Close(r, status) ==
    [request[r] EXCEPT !.status = status, !.guard = FALSE]

(* An active request is reused; the unique guard decides a race.           *)
CreateRequest(r) ==
    /\ request[r].status = "none"
    /\ \A q \in Requests : request[q].status \notin Active /\ ~request[q].guard
    /\ Update(r, [NoRequest EXCEPT !.status = "REQUESTED", !.guard = TRUE])
    /\ UNCHANGED <<audit, cancelling, executorVars, tenantVars>>

(* markIdentityPending and verifyIdentity; either may be repeated.         *)
SetIdentity(r, from, status, identity) ==
    /\ request[r].guard
    /\ request[r].status \in {from, status}
    /\ Update(r, [request[r] EXCEPT !.status = status, !.identity = identity])
    /\ UNCHANGED <<audit, cancelling, executorVars, tenantVars>>

MarkIdentityPending(r) ==
    SetIdentity(r, "REQUESTED", "IDENTITY_PENDING", "PENDING")

VerifyIdentity(r) ==
    SetIdentity(r, "IDENTITY_PENDING", "VERIFIED", "VERIFIED")

DryRun(r) ==
    /\ request[r].guard
    /\ request[r].status \in {"VERIFIED", "DRY_RUN_READY"}
    /\ Update(r, [request[r] EXCEPT !.status = "DRY_RUN_READY", !.dryRun = TRUE])
    /\ UNCHANGED <<audit, cancelling, executorVars, tenantVars>>

(* The devices are revoked, with their former status in the reason.        *)
QuarantineRequest(r) ==
    /\ request[r].guard
    /\ request[r].status = "DRY_RUN_READY"
    /\ request[r].identity = "VERIFIED"
    /\ request[r].dryRun
    /\ Update(r, [request[r] EXCEPT !.status = "FUTURE_PENDING_DELETION"])
    /\ devices' = IF devices = "operational" THEN "quarantined" ELSE devices
    /\ UNCHANGED <<audit, cancelling, executorVars, admitted, data>>

(* cancelRequest reads the request to choose the path: a quarantine is     *)
(* cancelled and the devices it revoked are restored; anything else is     *)
(* left to recordStatusTransition, which reads the request again.          *)
CancelQuarantine(r) ==
    /\ request[r].guard
    /\ request[r].status = "FUTURE_PENDING_DELETION"
    /\ Update(r, Close(r, "CANCELLED"))
    /\ devices' = IF devices = "quarantined" THEN "operational" ELSE devices
    /\ UNCHANGED <<audit, cancelling, executorVars, admitted, data>>

CancelRequest(r) ==
    /\ request[r].status \notin {"none", "FUTURE_PENDING_DELETION"} \cup Terminal
    /\ r \notin cancelling
    /\ cancelling' = cancelling \cup {r}
    /\ UNCHANGED <<request, audit, executorVars, tenantVars>>

(* Mutant: the irreversible part may be cancelled too.                     *)
MayCancel_Always(status) == status \notin Terminal

MayCancel(status) == status \notin Terminal \cup {"EXECUTION_IN_PROGRESS"}

RecordCancel(r) ==
    /\ r \in cancelling
    /\ cancelling' = cancelling \ {r}
    /\ IF request[r].guard /\ MayCancel(request[r].status)
       THEN Update(r, Close(r, "CANCELLED"))
       ELSE UNCHANGED request
    /\ UNCHANGED <<audit, executorVars, tenantVars>>

(* Only a quarantine is not rejected.                                      *)
RejectRequest(r) ==
    /\ request[r].guard
    /\ request[r].status \notin Terminal \cup {"FUTURE_PENDING_DELETION"}
    /\ Update(r, [Close(r, "REJECTED") EXCEPT !.identity = "FAILED"])
    /\ UNCHANGED <<audit, cancelling, executorVars, tenantVars>>

Workflow ==
    \E r \in Requests :
        \/ CreateRequest(r) \/ MarkIdentityPending(r) \/ VerifyIdentity(r)
        \/ DryRun(r) \/ QuarantineRequest(r)
        \/ CancelQuarantine(r) \/ CancelRequest(r) \/ RecordCancel(r)
        \/ RejectRequest(r)

-----------------------------------------------------------------------------
(* The execution.                                                          *)

Row(p) == request[job[p].request]
Owns(p) == Row(p).attempt = p

Goto(p, step) == pc' = [pc EXCEPT ![p] = step]

Lock(p, r) ==
    /\ pc[p] = "idle"
    /\ request[r].identity = "VERIFIED" /\ request[r].dryRun
    /\ request[r].status \in {"FUTURE_PENDING_DELETION", "EXECUTION_IN_PROGRESS"}
    /\ request[r].attempt = None \/ request[r].stale
    /\ Update(r, [request[r] EXCEPT !.attempt = p, !.stale = FALSE])
    /\ job' = [job EXCEPT ![p].request = r]
    /\ Goto(p, "locked")
    /\ UNCHANGED <<audit, cancelling, lost, tenantVars>>

(* The request is read again, the blockers are counted and the snapshot is *)
(* stored under the lock; the executor gives up when there is a blocker.   *)
Revalidate(p) ==
    /\ pc[p] = "locked"
    /\ \/ Goto(p, "releasing") /\ UNCHANGED job
       \/ /\ Owns(p)
          /\ Goto(p, "ready")
          /\ job' = [job EXCEPT ![p].status = Row(p).status,
                                ![p].progress = Row(p).progress]
    /\ UNCHANGED <<requestVars, lost, tenantVars>>

(* The first attempt turns the quarantine into an execution.               *)
Start(p) ==
    /\ pc[p] = "ready"
    /\ IF job[p].status # "FUTURE_PENDING_DELETION"
       THEN Goto(p, "running") /\ UNCHANGED <<request, job>>
       ELSE IF Owns(p) /\ Row(p).status = "FUTURE_PENDING_DELETION"
       THEN /\ Update(job[p].request,
                      [Row(p) EXCEPT !.status = "EXECUTION_IN_PROGRESS",
                                     !.progress = {}])
            /\ job' = [job EXCEPT ![p].progress = {}]
            /\ Goto(p, "running")
       ELSE Goto(p, "releasing") /\ UNCHANGED <<request, job>>
    /\ UNCHANGED <<audit, cancelling, lost, tenantVars>>

(* Mutant: the plan is followed backwards.                                 *)
NextCategory_Last(done) ==
    CHOOSE c \in Categories \ done : \A d \in Categories \ done : d <= c

(* The first category of the plan that is not in the progress.             *)
NextCategory(done) ==
    CHOOSE c \in Categories \ done : \A d \in Categories \ done : c <= d

(* The transaction of a category reads the request afresh; a category that *)
(* is already in the stored progress is skipped.                           *)
BeginCategory(p) ==
    /\ pc[p] = "running"
    /\ job[p].progress # Categories
    /\ IF ~Owns(p) \/ Row(p).status # "EXECUTION_IN_PROGRESS"
       THEN Goto(p, "failing") /\ UNCHANGED job
       ELSE IF NextCategory(job[p].progress) \in Row(p).progress
       THEN /\ job' = [job EXCEPT ![p].progress = Row(p).progress]
            /\ UNCHANGED pc
       ELSE Goto(p, "category") /\ UNCHANGED job
    /\ UNCHANGED <<requestVars, lost, tenantVars>>

(* Mutant: the checkpoint does not look at the lock.                       *)
Checkpoints_Always(p) == TRUE

(* The checkpoint is written under the lock, whatever the status is.       *)
Checkpoints(p) == Owns(p)

(* What category c does: it is recorded, and some concern the devices.     *)
Effects(p, c) ==
    /\ Update(job[p].request, [Row(p) EXCEPT !.progress = @ \cup {c},
                                             !.stale = FALSE])
    /\ audit' = [audit EXCEPT ![job[p].request][c] = @ + 1]
    /\ devices' = IF c = 1 THEN "revoked" ELSE devices
    /\ data' = IF c = Deleting THEN FALSE ELSE data

(* The transaction commits; the executor may never learn that it did.      *)
CommitCategory(p) ==
    /\ pc[p] = "category"
    /\ Checkpoints(p)
    /\ Effects(p, NextCategory(job[p].progress))
    /\ \/ /\ job' = [job EXCEPT ![p].progress =
                        Row(p).progress \cup {NextCategory(@)}]
          /\ Goto(p, "running")
          /\ UNCHANGED lost
       \/ /\ lost < MaxLost
          /\ lost' = lost + 1
          /\ Goto(p, "failing")
          /\ UNCHANGED job
    /\ UNCHANGED <<cancelling, admitted>>

(* Any error rolls the category back.                                      *)
FailCategory(p) ==
    /\ pc[p] = "category"
    /\ Goto(p, "failing")
    /\ UNCHANGED <<requestVars, job, lost, tenantVars>>

(* Mutant: the category that failed is skipped by the next attempt.        *)
RecordFailure_Skips(p) ==
    /\ pc[p] = "failing"
    /\ IF Owns(p)
       THEN Update(job[p].request,
                   [Row(p) EXCEPT !.progress = job[p].progress
                                      \cup {NextCategory(job[p].progress)}])
       ELSE UNCHANGED request
    /\ Goto(p, "releasing")
    /\ UNCHANGED <<audit, cancelling, job, lost, tenantVars>>

(* The progress the executor knows of is stored with the error.            *)
RecordFailure(p) ==
    /\ pc[p] = "failing"
    /\ IF Owns(p)
       THEN Update(job[p].request, [Row(p) EXCEPT !.progress = job[p].progress])
       ELSE UNCHANGED request
    /\ Goto(p, "releasing")
    /\ UNCHANGED <<audit, cancelling, job, lost, tenantVars>>

(* The end of the plan is written under the lock, whatever the status is.  *)
Complete(p) ==
    /\ pc[p] = "running"
    /\ job[p].progress = Categories
    /\ IF Owns(p)
       THEN Update(job[p].request,
                   [Row(p) EXCEPT !.status = "DELETION_EXECUTED",
                                  !.progress = job[p].progress])
       ELSE UNCHANGED request
    /\ Goto(p, "releasing")
    /\ UNCHANGED <<audit, cancelling, job, lost, tenantVars>>

Release(p) ==
    /\ pc[p] = "releasing"
    /\ IF Owns(p)
       THEN Update(job[p].request, [Row(p) EXCEPT !.attempt = None, !.stale = FALSE])
       ELSE UNCHANGED request
    /\ Goto(p, "done")
    /\ UNCHANGED <<audit, cancelling, job, lost, tenantVars>>

(* The process is killed: nothing is released.                             *)
Crash(p) ==
    /\ pc[p] \notin {"idle", "done"}
    /\ Goto(p, "done")
    /\ UNCHANGED <<requestVars, job, lost, tenantVars>>

Execute(p) ==
    \/ \E r \in Requests : Lock(p, r)
    \/ Revalidate(p) \/ Start(p) \/ BeginCategory(p) \/ CommitCategory(p)
    \/ FailCategory(p) \/ RecordFailure(p) \/ Complete(p) \/ Release(p)
    \/ Crash(p)

(* Thirty minutes pass since the lock was taken or refreshed.              *)
Expire(r) ==
    /\ request[r].attempt # None /\ ~request[r].stale
    /\ Update(r, [request[r] EXCEPT !.stale = TRUE])
    /\ UNCHANGED <<audit, cancelling, executorVars, tenantVars>>

-----------------------------------------------------------------------------
(* The company while this goes on.                                         *)

(* assertTenantOperational.                                                *)
Operational ==
    \A r \in Requests :
        ~(request[r].guard /\ request[r].status = "FUTURE_PENDING_DELETION")

Executed(c) == \E r \in Requests : audit[r][c] > 0

(* Mutant: the gate looks at the status of the request only.               *)
Admit_StatusOnly ==
    /\ ~admitted
    /\ Operational
    /\ admitted' = TRUE
    /\ UNCHANGED <<requestVars, executorVars, devices, data>>

(* A request passes the gate.  A revoked device stays out, but the owner   *)
(* may register a new installation as the first active one, as long as     *)
(* there are memberships.                                                  *)
Admit ==
    /\ ~admitted
    /\ Operational
    /\ ~Executed(Closing)
    /\ admitted' = TRUE
    /\ UNCHANGED <<requestVars, executorVars, devices, data>>

(* The request that passed the gate stores what it brought, or fails.      *)
Serve ==
    /\ admitted
    /\ admitted' = FALSE
    /\ data' \in {data, TRUE}
    /\ UNCHANGED <<requestVars, executorVars, devices>>

Next ==
    \/ Workflow
    \/ \E p \in Executors : Execute(p)
    \/ \E r \in Requests : Expire(r)
    \/ Admit \/ Serve

Spec == Init /\ [][Next]_deletionVars

-----------------------------------------------------------------------------
(* Properties.                                                             *)

(* A request that is reported as executed ran every category of the plan,  *)
(* however many attempts, crashes and stale locks that took.               *)
ExecutedIsComplete ==
    \A r \in Requests :
        request[r].status = "DELETION_EXECUTED"
            => \A c \in Categories : audit[r][c] > 0

(* Categories run in the order of the plan: access is revoked before data  *)
(* is deleted, and the company is closed last.                             *)
CategoriesInOrder ==
    \A r \in Requests : \A c, d \in Categories :
        d < c /\ audit[r][c] > 0 => audit[r][d] > 0

(* Of a request that was cancelled nothing was executed, even when the     *)
(* cancellation raced with the start of the execution.                     *)
CancelledLeavesNoTrace ==
    \A r \in Requests :
        request[r].status = "CANCELLED" => \A c \in Categories : audit[r][c] = 0

(* An attempt that takes over a stale lock, or resumes after a failure,    *)
(* repeats no category, except one that committed without its executor     *)
(* learning of it (the error handler then stores the progress without it). *)
RepeatsAreLostOutcomes ==
    \A r \in Requests : \A c \in Categories : audit[r][c] <= 1 + lost

(* tenant-deletion-lifecycle.md:207 wants no window in which a marked      *)
(* company writes.  A request that passed the gate may still write; but    *)
(* once the company is closed, that request has ended and nothing is left, *)
(* nobody comes in again and nothing comes back, whatever a second request *)
(* or a resumed attempt does.                                              *)
ClosedStaysEmpty ==
    [][Executed(Closing) /\ ~admitted /\ ~data => ~admitted' /\ ~data']_deletionVars
=============================================================================

---------------------------- MODULE CompanyProofs ----------------------------
(***************************************************************************)
(* What holds of a company as the platform keeps it.  First its deletion,  *)
(* for every plan, any number of requests and of attempts: types, the      *)
(* properties of the execution, and that nobody comes back to a company    *)
(* that was closed.  Then its subscription, for any number of checkouts,   *)
(* notifications and requests that overlap: types, and that the plan of    *)
(* the licence was charged for or given by hand.                           *)
(***************************************************************************)
EXTENDS TenantDeletion, Billing, WellFoundedInduction, TLAPS

------------------------------------------------------------------------------
(***************************************************************************)
(* The deletion of a company.                                              *)
(***************************************************************************)

(* Everything before an execution begins, and what closes it unexecuted.   *)
Untouched == {"none", "REQUESTED", "IDENTITY_PENDING", "VERIFIED",
              "DRY_RUN_READY", "FUTURE_PENDING_DELETION", "CANCELLED"}

Working == {"ready", "running", "category", "failing"}

TypeInv ==
    /\ TypeOK
    /\ \A p \in Executors : pc[p] # "idle" => job[p].request \in Requests
    /\ \A p \in Executors : pc[p] = "category" => job[p].progress # Categories

(* Every nonempty set of natural numbers has a least element.              *)
LEMMA LeastElement ==
  ASSUME NEW T \in SUBSET Nat, T # {}
  PROVE  \E x \in T : \A y \in T : x <= y
<1> DEFINE R == {ss \in Nat \X Nat : ss[1] < ss[2]}
<1>1. IsWellFoundedOn(R, Nat)
  BY NatLessThanWellFounded DEF OpToRel
<1>2. PICK x \in T : \A y \in T : ~ (<<y, x>> \in R)
  <2> HIDE DEF R
  <2> QED BY <1>1, WFMin
<1>3. ASSUME NEW y \in T PROVE x <= y
  <2>1. ~ (y < x)
    BY <1>2
  <2> QED BY <2>1
<1> QED BY <1>3

(* The next category is the first one that is missing.                     *)
LEMMA NextCategoryIsFirst ==
  ASSUME NEW done \in SUBSET Categories, done # Categories
  PROVE  /\ NextCategory(done) \in Categories \ done
         /\ \A d \in Categories : d < NextCategory(done) => d \in done
<1>1. Categories \in SUBSET Nat
  BY PlanAssumption DEF Categories
<1>2. \E x \in Categories \ done : \A y \in Categories \ done : x <= y
  BY <1>1, LeastElement
<1>3. /\ NextCategory(done) \in Categories \ done
      /\ \A y \in Categories \ done : NextCategory(done) <= y
  BY <1>2 DEF NextCategory
<1>4. ASSUME NEW d \in Categories, d < NextCategory(done), d \notin done
      PROVE  FALSE
  <2>1. NextCategory(done) <= d
    BY <1>3, <1>4
  <2>2. NextCategory(done) \in Nat /\ d \in Nat
    BY <1>1, <1>3
  <2> HIDE DEF NextCategory
  <2> QED BY <1>4, <2>1, <2>2
<1> QED BY <1>3, <1>4

-----------------------------------------------------------------------------
(* Types.                                                                  *)

(* Storing a well-formed row keeps the rows well formed.                   *)
LEMMA UpdateType ==
  ASSUME TypeOK, NEW r \in Requests, NEW row \in RequestRecord,
         row.guard => row.status \in Active,
         Update(r, row)
  PROVE  /\ request' \in [Requests -> RequestRecord]
         /\ \A q \in Requests : request'[q].guard => request'[q].status \in Active
BY DEF TypeOK, Update

LEMMA StartsTyped == Init => TypeInv
<1> SUFFICES ASSUME Init PROVE TypeInv
  OBVIOUS
<1>1. NoRequest \in RequestRecord /\ ~NoRequest.guard
  BY DEF NoRequest, RequestRecord, Statuses, Active, Terminal
<1>2. NoJob \in JobRecord
  BY DEF NoJob, JobRecord, Statuses, Active, Terminal
<1>3. 0 \in 0..MaxLost
  BY PlanAssumption
<1> QED BY <1>1, <1>2, <1>3 DEF Init, TypeInv, TypeOK, Steps

LEMMA WorkflowTyped == TypeInv /\ Workflow => TypeInv'
<1> SUFFICES ASSUME TypeInv, NEW r \in Requests,
                    \/ CreateRequest(r) \/ MarkIdentityPending(r)
                    \/ VerifyIdentity(r) \/ DryRun(r) \/ QuarantineRequest(r)
                    \/ CancelQuarantine(r) \/ CancelRequest(r)
                    \/ RecordCancel(r) \/ RejectRequest(r)
             PROVE  TypeInv'
  BY DEF Workflow
<1>0. request[r] \in RequestRecord
  BY DEF TypeInv, TypeOK
<1>1. /\ UNCHANGED <<audit, pc, job, lost, admitted, data>>
      /\ cancelling' \subseteq Requests
      /\ devices' \in {"operational", "quarantined", "revoked"}
  BY DEF TypeInv, TypeOK, CreateRequest, MarkIdentityPending, VerifyIdentity,
         SetIdentity, DryRun, QuarantineRequest, CancelQuarantine,
         CancelRequest, RecordCancel, RejectRequest, executorVars, tenantVars
<1>2. \/ UNCHANGED request
      \/ \E row \in RequestRecord :
            (row.guard => row.status \in Active) /\ Update(r, row)
  <2> DEFINE Stored(row) ==
               row \in RequestRecord /\ (row.guard => row.status \in Active)
  <2>1. CASE CreateRequest(r)
    <3>1. Stored([NoRequest EXCEPT !.status = "REQUESTED", !.guard = TRUE])
      BY DEF NoRequest, RequestRecord, Statuses, Active
    <3> QED BY <2>1, <3>1 DEF CreateRequest
  <2>2. CASE MarkIdentityPending(r)
    <3>1. Stored([request[r] EXCEPT !.status = "IDENTITY_PENDING", !.identity = "PENDING"])
      BY <1>0 DEF RequestRecord, Statuses, Active
    <3> QED BY <2>2, <3>1 DEF MarkIdentityPending, SetIdentity
  <2>3. CASE VerifyIdentity(r)
    <3>1. Stored([request[r] EXCEPT !.status = "VERIFIED", !.identity = "VERIFIED"])
      BY <1>0 DEF RequestRecord, Statuses, Active
    <3> QED BY <2>3, <3>1 DEF VerifyIdentity, SetIdentity
  <2>4. CASE DryRun(r)
    <3>1. Stored([request[r] EXCEPT !.status = "DRY_RUN_READY", !.dryRun = TRUE])
      BY <1>0 DEF RequestRecord, Statuses, Active
    <3> QED BY <2>4, <3>1 DEF DryRun
  <2>5. CASE QuarantineRequest(r)
    <3>1. Stored([request[r] EXCEPT !.status = "FUTURE_PENDING_DELETION"])
      BY <1>0 DEF RequestRecord, Statuses, Active
    <3> QED BY <2>5, <3>1 DEF QuarantineRequest
  <2>6. CASE CancelQuarantine(r) \/ RecordCancel(r)
    <3>1. Stored(Close(r, "CANCELLED"))
      BY <1>0 DEF Close, RequestRecord, Statuses, Terminal
    <3> QED BY <2>6, <3>1 DEF CancelQuarantine, RecordCancel
  <2>7. CASE CancelRequest(r)
    BY <2>7 DEF CancelRequest
  <2>8. CASE RejectRequest(r)
    <3>1. Stored([Close(r, "REJECTED") EXCEPT !.identity = "FAILED"])
      BY <1>0 DEF Close, RequestRecord, Statuses, Terminal
    <3> QED BY <2>8, <3>1 DEF RejectRequest
  <2> QED BY <2>1, <2>2, <2>3, <2>4, <2>5, <2>6, <2>7, <2>8
<1>3. /\ request' \in [Requests -> RequestRecord]
      /\ \A q \in Requests : request'[q].guard => request'[q].status \in Active
  <2>1. CASE UNCHANGED request
    BY <2>1 DEF TypeInv, TypeOK
  <2>2. CASE \E row \in RequestRecord :
                (row.guard => row.status \in Active) /\ Update(r, row)
    <3>1. PICK row \in RequestRecord :
                (row.guard => row.status \in Active) /\ Update(r, row)
      BY <2>2
    <3> QED BY <3>1, UpdateType DEF TypeInv
  <2> QED BY <1>2, <2>1, <2>2
<1> QED BY <1>1, <1>3 DEF TypeInv, TypeOK

LEMMA ExecutionTyped ==
  ASSUME TypeInv, NEW p \in Executors, Execute(p)
  PROVE  TypeInv'
<1> USE DEF TypeInv
<1>0. /\ pc[p] # "idle" => Row(p) \in RequestRecord
      /\ pc[p] # "idle" => (Row(p).guard => Row(p).status \in Active)
      /\ job[p] \in JobRecord
  BY DEF TypeOK, Row
<1>1. ASSUME NEW r \in Requests, Lock(p, r) PROVE TypeInv'
  <2>0. request[r] \in RequestRecord /\ (request[r].guard => request[r].status \in Active)
    BY DEF TypeOK
  <2>1. [request[r] EXCEPT !.attempt = p, !.stale = FALSE] \in RequestRecord
    BY <2>0 DEF RequestRecord
  <2>2. /\ request' \in [Requests -> RequestRecord]
        /\ \A q \in Requests : request'[q].guard => request'[q].status \in Active
    BY <1>1, <2>0, <2>1, UpdateType DEF Lock, RequestRecord
  <2>3. job' \in [Executors -> JobRecord]
    BY <1>1, <1>0 DEF Lock, TypeOK, JobRecord
  <2> QED BY <1>1, <2>2, <2>3 DEF Lock, Goto, TypeOK, Steps, tenantVars, JobRecord
<1>2. ASSUME Revalidate(p) PROVE TypeInv'
  <2> DEFINE new == [job[p] EXCEPT !.status = Row(p).status,
                                  !.progress = Row(p).progress]
  <2>j1. new \in JobRecord /\ new.request = job[p].request
    BY <1>0, <1>2 DEF Revalidate, JobRecord, RequestRecord
  <2>j2. UNCHANGED job \/ job' = [job EXCEPT ![p] = new]
    BY <1>2 DEF Revalidate, TypeOK
  <2> HIDE DEF new
  <2>1. job' \in [Executors -> JobRecord]
        /\ \A q \in Executors : job'[q].request = job[q].request
    BY <2>j1, <2>j2 DEF TypeOK
  <2> QED BY <1>2, <2>1 DEF Revalidate, Goto, TypeOK, Steps, requestVars, tenantVars
<1>3. ASSUME Start(p) PROVE TypeInv'
  <2> DEFINE new == [job[p] EXCEPT !.progress = {}]
  <2>j1. new \in JobRecord /\ new.request = job[p].request
    BY <1>0 DEF JobRecord, RequestRecord
  <2>j2. UNCHANGED job \/ job' = [job EXCEPT ![p] = new]
    BY <1>3 DEF Start, TypeOK
  <2> HIDE DEF new
  <2>1. job' \in [Executors -> JobRecord]
        /\ \A q \in Executors : job'[q].request = job[q].request
    BY <2>j1, <2>j2 DEF TypeOK
  <2>2. [Row(p) EXCEPT !.status = "EXECUTION_IN_PROGRESS", !.progress = {}]
           \in RequestRecord
    BY <1>3, <1>0 DEF Start, RequestRecord, Statuses, Active
  <2>3. /\ request' \in [Requests -> RequestRecord]
        /\ \A q \in Requests : request'[q].guard => request'[q].status \in Active
    <3>1. CASE UNCHANGED request
      BY <3>1 DEF TypeOK
    <3>2. CASE Update(job[p].request,
                      [Row(p) EXCEPT !.status = "EXECUTION_IN_PROGRESS",
                                     !.progress = {}])
      BY <1>0, <1>3, <2>2, <3>2, UpdateType DEF Start, RequestRecord, Active
    <3> QED BY <1>3, <3>1, <3>2 DEF Start
  <2> QED BY <1>3, <2>1, <2>3 DEF Start, Goto, TypeOK, Steps, tenantVars
<1>4. ASSUME BeginCategory(p) PROVE TypeInv'
  <2>1. job' \in [Executors -> JobRecord]
        /\ \A q \in Executors : job'[q].request = job[q].request
    BY <1>4, <1>0 DEF BeginCategory, TypeOK, JobRecord, RequestRecord
  <2>2. pc' \in [Executors -> Steps]
    BY <1>4 DEF BeginCategory, Goto, TypeOK, Steps
  <2>3. \A q \in Executors :
           pc'[q] = "category" => job'[q].progress # Categories
    BY <1>4 DEF BeginCategory, Goto, TypeOK
  <2>4. \A q \in Executors : pc'[q] # "idle" => job'[q].request \in Requests
    BY <1>4, <2>1 DEF BeginCategory, Goto, TypeOK
  <2> QED BY <1>4, <2>1, <2>2, <2>3, <2>4
          DEF BeginCategory, TypeOK, requestVars, tenantVars
<1>5. ASSUME CommitCategory(p) PROVE TypeInv'
  <2> DEFINE c == NextCategory(job[p].progress)
  <2>1. c \in Categories
    BY <1>0, <1>5, NextCategoryIsFirst DEF CommitCategory, JobRecord
  <2> HIDE DEF c
  <2>2. [Row(p) EXCEPT !.progress = @ \cup {c}, !.stale = FALSE] \in RequestRecord
    BY <1>0, <1>5, <2>1 DEF CommitCategory, RequestRecord
  <2>3. Update(job[p].request,
               [Row(p) EXCEPT !.progress = @ \cup {c}, !.stale = FALSE])
    BY <1>5 DEF CommitCategory, Effects, c
  <2>4. /\ request' \in [Requests -> RequestRecord]
        /\ \A q \in Requests : request'[q].guard => request'[q].status \in Active
    BY <1>0, <1>5, <2>2, <2>3, UpdateType DEF CommitCategory, RequestRecord
  <2>5. audit' \in [Requests -> [Categories -> Nat]]
    BY <1>5, <2>1 DEF CommitCategory, Effects, TypeOK, c
  <2> DEFINE new == [job[p] EXCEPT !.progress = Row(p).progress \cup {c}]
  <2>j1. new \in JobRecord /\ new.request = job[p].request
    BY <1>0, <1>5, <2>1 DEF CommitCategory, JobRecord, RequestRecord
  <2>j2. UNCHANGED job \/ job' = [job EXCEPT ![p] = new]
    BY <1>5 DEF CommitCategory, TypeOK, c
  <2> HIDE DEF new
  <2>6. job' \in [Executors -> JobRecord]
        /\ \A q \in Executors : job'[q].request = job[q].request
    BY <2>j1, <2>j2 DEF TypeOK
  <2>7. lost' \in 0..MaxLost
    BY <1>5, PlanAssumption DEF CommitCategory, TypeOK
  <2>8. /\ devices' \in {"operational", "quarantined", "revoked"}
        /\ data' \in BOOLEAN
        /\ UNCHANGED <<cancelling, admitted>>
    BY <1>5 DEF CommitCategory, Effects, TypeOK
  <2>9. /\ pc' \in [Executors -> Steps]
        /\ \A q \in Executors :
              /\ pc'[q] = "category" => q # p /\ pc[q] = "category"
              /\ pc'[q] # "idle" => pc[q] # "idle"
              /\ q # p => job'[q] = job[q]
    BY <1>5 DEF CommitCategory, Goto, TypeOK, Steps
  <2> QED BY <2>4, <2>5, <2>6, <2>7, <2>8, <2>9 DEF TypeOK
<1>6. ASSUME FailCategory(p) PROVE TypeInv'
  BY <1>6 DEF FailCategory, Goto, TypeOK, Steps, requestVars, tenantVars
<1>7. ASSUME RecordFailure(p) PROVE TypeInv'
  <2>1. [Row(p) EXCEPT !.progress = job[p].progress] \in RequestRecord
    BY <1>0, <1>7 DEF RecordFailure, RequestRecord, JobRecord
  <2>2. /\ request' \in [Requests -> RequestRecord]
        /\ \A q \in Requests : request'[q].guard => request'[q].status \in Active
    <3>1. CASE UNCHANGED request
      BY <3>1 DEF TypeOK
    <3>2. CASE Update(job[p].request, [Row(p) EXCEPT !.progress = job[p].progress])
      BY <1>0, <1>7, <2>1, <3>2, UpdateType DEF RecordFailure, RequestRecord
    <3> QED BY <1>7, <3>1, <3>2 DEF RecordFailure
  <2> QED BY <1>7, <2>2 DEF RecordFailure, Goto, TypeOK, Steps, tenantVars
<1>8. ASSUME Complete(p) PROVE TypeInv'
  <2> DEFINE row == [Row(p) EXCEPT !.status = "DELETION_EXECUTED",
                                   !.progress = job[p].progress]
  <2>1. row \in RequestRecord /\ row.status \in Active
    BY <1>0, <1>8 DEF Complete, RequestRecord, JobRecord, Statuses, Active
  <2>2. UNCHANGED request \/ Update(job[p].request, row)
    BY <1>8 DEF Complete
  <2> HIDE DEF row
  <2>3. /\ request' \in [Requests -> RequestRecord]
        /\ \A q \in Requests : request'[q].guard => request'[q].status \in Active
    <3>1. CASE UNCHANGED request
      BY <3>1 DEF TypeOK
    <3>2. CASE Update(job[p].request, row)
      BY <1>8, <2>1, <3>2, UpdateType DEF Complete
    <3> QED BY <2>2, <3>1, <3>2
  <2> QED BY <1>8, <2>3 DEF Complete, Goto, TypeOK, Steps, tenantVars
<1>9. ASSUME Release(p) PROVE TypeInv'
  <2>1. [Row(p) EXCEPT !.attempt = None, !.stale = FALSE] \in RequestRecord
    BY <1>0, <1>9 DEF Release, RequestRecord
  <2>2. /\ request' \in [Requests -> RequestRecord]
        /\ \A q \in Requests : request'[q].guard => request'[q].status \in Active
    <3>1. CASE UNCHANGED request
      BY <3>1 DEF TypeOK
    <3>2. CASE Update(job[p].request, [Row(p) EXCEPT !.attempt = None, !.stale = FALSE])
      BY <1>0, <1>9, <2>1, <3>2, UpdateType DEF Release, RequestRecord
    <3> QED BY <1>9, <3>1, <3>2 DEF Release
  <2> QED BY <1>9, <2>2 DEF Release, Goto, TypeOK, Steps, tenantVars
<1>10. ASSUME Crash(p) PROVE TypeInv'
  BY <1>10 DEF Crash, Goto, TypeOK, Steps, requestVars, tenantVars
<1> QED BY <1>1, <1>2, <1>3, <1>4, <1>5, <1>6, <1>7, <1>8, <1>9, <1>10 DEF Execute

LEMMA SurroundingsTyped ==
  ASSUME TypeInv, (\E r \in Requests : Expire(r)) \/ Admit \/ Serve
                    \/ UNCHANGED deletionVars
  PROVE  TypeInv'
<1>1. ASSUME NEW r \in Requests, Expire(r) PROVE TypeInv'
  <2>0. request[r] \in RequestRecord /\ (request[r].guard => request[r].status \in Active)
    BY DEF TypeInv, TypeOK
  <2>1. [request[r] EXCEPT !.stale = TRUE] \in RequestRecord
    BY <2>0 DEF RequestRecord
  <2>2. /\ request' \in [Requests -> RequestRecord]
        /\ \A q \in Requests : request'[q].guard => request'[q].status \in Active
    BY <1>1, <2>0, <2>1, UpdateType DEF Expire, TypeInv, RequestRecord
  <2> QED BY <1>1, <2>2 DEF Expire, TypeInv, TypeOK, executorVars, tenantVars
<1>2. CASE Admit
  BY <1>2 DEF Admit, TypeInv, TypeOK, requestVars, executorVars
<1>3. CASE Serve
  BY <1>3 DEF Serve, TypeInv, TypeOK, requestVars, executorVars
<1>4. CASE UNCHANGED deletionVars
  BY <1>4 DEF deletionVars, TypeInv, TypeOK
<1> QED BY <1>1, <1>2, <1>3, <1>4

LEMMA StepTyped == TypeInv /\ [Next]_deletionVars => TypeInv'
BY WorkflowTyped, ExecutionTyped, SurroundingsTyped DEF Next

(* Every behaviour keeps the types of rows, attempts and counters, and the *)
(* guard of the company belongs to an active request.                      *)
THEOREM TypeCorrect == Spec => []TypeOK
<1>1. Spec => []TypeInv
  BY StartsTyped, StepTyped, PTL DEF Spec
<1>2. TypeInv => TypeOK
  BY DEF TypeInv
<1> QED BY <1>1, <1>2, PTL

-----------------------------------------------------------------------------
(* The execution.  The strengthening of each property relates what is      *)
(* audited to the progress in the row and to the copy of it every attempt  *)
(* works with.                                                             *)

(* Nothing ran of a request whose status is before the execution, and an   *)
(* attempt that is at a category was let in by the status.                 *)
Traces ==
    /\ \A r \in Requests : request[r].status \in Untouched
          => request[r].progress = {} /\ \A c \in Categories : audit[r][c] = 0
    /\ \A p \in Executors : pc[p] \in Working /\ Row(p).status \in Untouched
          => job[p].progress = {}
    /\ \A p \in Executors : pc[p] = "category" => Row(p).status \notin Untouched

(* Every category of a progress ran, the stored one or a copy.             *)
Progress ==
    /\ \A r \in Requests : \A c \in request[r].progress : audit[r][c] > 0
    /\ \A p \in Executors : pc[p] \in Working
          => \A c \in job[p].progress : audit[job[p].request][c] > 0
    /\ ExecutedIsComplete
    /\ CategoriesInOrder

(* A category that is missing from the stored progress, or from the copy   *)
(* of the attempt that holds the lock, ran only as often as outcomes got   *)
(* lost.                                                                   *)
Repeats ==
    /\ RepeatsAreLostOutcomes
    /\ \A r \in Requests : \A c \in Categories \ request[r].progress :
          audit[r][c] <= lost
    /\ \A p \in Executors : pc[p] \in Working /\ Owns(p)
          => \A c \in Categories \ job[p].progress :
                audit[job[p].request][c] <= lost

ExecutionInv == TypeInv /\ Traces /\ Progress /\ Repeats

(* A step that runs nothing, stores no progress and starts nothing.        *)
Quiet ==
    /\ UNCHANGED <<audit, lost>>
    /\ \A r \in Requests :
          /\ \/ request'[r].progress = request[r].progress
             \/ request[r].status = "none" /\ request'[r].progress = {}
          /\ request'[r].status \in Untouched => request[r].status \in Untouched
          /\ request'[r].status = "DELETION_EXECUTED"
                => request[r].status = "DELETION_EXECUTED"
    /\ \A p \in Executors : pc'[p] \in Working =>
          /\ pc[p] \in Working /\ job'[p] = job[p]
          /\ pc'[p] = "category" => pc[p] = "category"
          /\ Owns(p)' => Owns(p)

LEMMA QuietKeepsTraces ==
  ASSUME TypeInv, Traces, Quiet
  PROVE  Traces'
BY DEF TypeInv, Traces, Quiet, Row, Untouched, Working

LEMMA QuietKeepsProgress ==
  ASSUME TypeInv, Progress, Quiet
  PROVE  Progress'
BY DEF TypeInv, Progress, Quiet, Working, ExecutedIsComplete, CategoriesInOrder

LEMMA QuietKeepsRepeats ==
  ASSUME TypeInv, Traces, Repeats, Quiet
  PROVE  Repeats'
<1>1. 0 <= lost
  BY PlanAssumption DEF TypeInv, TypeOK
<1>2. RepeatsAreLostOutcomes'
  BY DEF Repeats, Quiet, RepeatsAreLostOutcomes
<1>3. ASSUME NEW r \in Requests, NEW c \in Categories \ request'[r].progress
      PROVE  audit'[r][c] <= lost'
  <2>1. CASE request'[r].progress = request[r].progress
    BY <1>3, <2>1 DEF Repeats, Quiet
  <2>2. CASE request[r].status = "none"
    BY <1>1, <2>2 DEF Traces, Quiet, Untouched
  <2> QED BY <2>1, <2>2 DEF Quiet
<1>4. ASSUME NEW p \in Executors, pc'[p] \in Working, Owns(p)',
             NEW c \in Categories \ job'[p].progress
      PROVE  audit'[job'[p].request][c] <= lost'
  BY <1>4 DEF Repeats, Quiet
<1> QED BY <1>2, <1>3, <1>4 DEF Repeats

(* The workflow and the company change no progress, and bring no request   *)
(* back to where nothing ran.                                              *)
LEMMA WorkflowIsQuiet ==
  ASSUME TypeInv, Workflow
  PROVE  Quiet
<1>1. PICK r \in Requests :
         \/ CreateRequest(r) \/ MarkIdentityPending(r) \/ VerifyIdentity(r)
         \/ DryRun(r) \/ QuarantineRequest(r) \/ CancelQuarantine(r)
         \/ CancelRequest(r) \/ RecordCancel(r) \/ RejectRequest(r)
  BY DEF Workflow
<1>0. request[r] \in RequestRecord /\ request \in [Requests -> RequestRecord]
  BY DEF TypeInv, TypeOK
<1>2. UNCHANGED <<audit, pc, job, lost>>
  BY <1>1 DEF CreateRequest, MarkIdentityPending, VerifyIdentity, SetIdentity,
              DryRun, QuarantineRequest, CancelQuarantine, CancelRequest,
              RecordCancel, RejectRequest, executorVars
<1>3. /\ \A q \in Requests : q # r => request'[q] = request[q]
      /\ \/ /\ request'[r].progress = request[r].progress
            /\ request'[r].attempt = request[r].attempt
         \/ /\ request[r].status = "none" /\ request'[r].progress = {}
            /\ request'[r].attempt = None
      /\ request'[r].status \in Untouched => request[r].status \in Untouched
      /\ request'[r].status = "DELETION_EXECUTED"
            => request[r].status = "DELETION_EXECUTED"
  <2>1. CASE CreateRequest(r)
    BY <1>0, <2>1 DEF CreateRequest, Update, NoRequest, Untouched
  <2>2. CASE MarkIdentityPending(r)
    BY <1>0, <2>2 DEF MarkIdentityPending, SetIdentity, Update, Untouched, RequestRecord
  <2>3. CASE VerifyIdentity(r)
    BY <1>0, <2>3 DEF VerifyIdentity, SetIdentity, Update, Untouched, RequestRecord
  <2>4. CASE DryRun(r)
    BY <1>0, <2>4 DEF DryRun, Update, Untouched, RequestRecord
  <2>5. CASE QuarantineRequest(r)
    BY <1>0, <2>5 DEF QuarantineRequest, Update, Untouched, RequestRecord
  <2>6. CASE CancelQuarantine(r)
    BY <1>0, <2>6 DEF CancelQuarantine, Update, Close, Untouched, RequestRecord
  <2>7. CASE CancelRequest(r)
    BY <2>7 DEF CancelRequest
  <2>8. CASE RecordCancel(r)
    <3>1. CASE UNCHANGED request
      BY <3>1
    <3>2. CASE request[r].guard /\ MayCancel(request[r].status)
      <4>1. request[r].status \in Untouched
        BY <1>0, <3>2 DEF TypeInv, TypeOK, MayCancel, Active, Terminal, Untouched
      <4> QED BY <1>0, <2>8, <3>2, <4>1
              DEF RecordCancel, Update, Close, RequestRecord
    <3> QED BY <2>8, <3>1, <3>2 DEF RecordCancel
  <2>9. CASE RejectRequest(r)
    BY <1>0, <2>9 DEF RejectRequest, Update, Close, Untouched, RequestRecord
  <2> QED BY <1>1, <2>1, <2>2, <2>3, <2>4, <2>5, <2>6, <2>7, <2>8, <2>9
<1>4. ASSUME NEW p \in Executors, pc'[p] \in Working
      PROVE  job[p].request \in Requests
  BY <1>2, <1>4 DEF TypeInv, Working
<1>5. ASSUME NEW p \in Executors, pc'[p] \in Working, Owns(p)'
      PROVE  Owns(p)
  BY <1>2, <1>3, <1>4, <1>5, PlanAssumption DEF Owns, Row
<1> QED BY <1>2, <1>3, <1>5 DEF Quiet

LEMMA SurroundingsAreQuiet ==
  ASSUME TypeInv, (\E r \in Requests : Expire(r)) \/ Admit \/ Serve
                    \/ UNCHANGED deletionVars
  PROVE  Quiet
<1>1. /\ UNCHANGED <<audit, pc, job, lost>>
      /\ \A r \in Requests :
            /\ request'[r].progress = request[r].progress
            /\ request'[r].attempt = request[r].attempt
            /\ request'[r].status = request[r].status
  <2>1. ASSUME NEW r \in Requests, Expire(r)
        PROVE  <1>1!:
    <3>1. request[r] \in RequestRecord /\ request \in [Requests -> RequestRecord]
      BY DEF TypeInv, TypeOK
    <3> QED BY <2>1, <3>1 DEF Expire, Update, RequestRecord, executorVars
  <2>2. CASE Admit \/ Serve \/ UNCHANGED deletionVars
    BY <2>2 DEF Admit, Serve, deletionVars, requestVars, executorVars
  <2> QED BY <2>1, <2>2
<1>2. ASSUME NEW p \in Executors, pc'[p] \in Working, Owns(p)'
      PROVE  Owns(p)
  BY <1>1, <1>2 DEF Owns, Row, TypeInv, Working
<1> QED BY <1>1, <1>2 DEF Quiet

(* Taking and giving back the lock, failing and crashing are quiet.        *)
LEMMA LockingIsQuiet ==
  ASSUME TypeInv, NEW p \in Executors,
         \/ \E r \in Requests : Lock(p, r)
         \/ FailCategory(p) \/ Release(p) \/ Crash(p)
         \/ /\ Start(p) \/ BeginCategory(p) \/ RecordFailure(p) \/ Complete(p)
            /\ UNCHANGED <<request, job>>
            /\ pc'[p] # "category"
         \/ Revalidate(p) /\ pc'[p] = "releasing"
  PROVE  Quiet
<1>0. request \in [Requests -> RequestRecord] /\ pc \in [Executors -> Steps]
      /\ job \in [Executors -> JobRecord]
  BY DEF TypeInv, TypeOK
<1>1. CASE \E r \in Requests : Lock(p, r)
  <2>1. PICK r \in Requests : Lock(p, r)
    BY <1>1
  <2>2. /\ UNCHANGED <<audit, lost>>
        /\ \A q \in Requests : /\ request'[q].progress = request[q].progress
                                /\ request'[q].status = request[q].status
        /\ \A q \in Requests : q # r => request'[q] = request[q]
        /\ request'[r].attempt = p
    BY <1>0, <2>1 DEF Lock, Update, RequestRecord
  <2>3. /\ pc'[p] = "locked"
        /\ \A q \in Executors : q # p => pc'[q] = pc[q] /\ job'[q] = job[q]
    BY <1>0, <2>1 DEF Lock, Goto
  <2>4. ASSUME NEW q \in Executors, pc'[q] \in Working
        PROVE  /\ pc[q] \in Working /\ job'[q] = job[q] /\ pc'[q] = pc[q]
               /\ Owns(q)' => Owns(q)
    <3>1. q # p /\ pc'[q] = pc[q] /\ job'[q] = job[q]
      BY <2>3, <2>4 DEF Working
    <3>2. job[q].request \in Requests
      BY <2>4, <3>1 DEF TypeInv, Working
    <3> QED BY <2>2, <2>4, <3>1, <3>2 DEF Owns, Row
  <2> QED BY <2>2, <2>4 DEF Quiet
<1>2. CASE Release(p)
  <2>1. /\ UNCHANGED <<audit, lost, job>>
        /\ pc'[p] = "done" /\ \A q \in Executors : q # p => pc'[q] = pc[q]
    BY <1>0, <1>2 DEF Release, Goto, tenantVars
  <2>2. job[p].request \in Requests
    BY <1>2 DEF Release, TypeInv
  <2>3. \A q \in Requests :
           /\ request'[q].progress = request[q].progress
           /\ request'[q].status = request[q].status
           /\ request'[q].attempt \in {request[q].attempt, None}
    <3>1. CASE UNCHANGED request
      BY <3>1
    <3>2. CASE Owns(p)
      <4> DEFINE row == [Row(p) EXCEPT !.attempt = None, !.stale = FALSE]
      <4>1. /\ row.progress = Row(p).progress /\ row.status = Row(p).status
            /\ row.attempt = None
        BY <1>0, <2>2 DEF Row, RequestRecord
      <4>2. request' = [request EXCEPT ![job[p].request] = row]
        BY <1>2, <3>2 DEF Release, Update
      <4> HIDE DEF row
      <4> QED BY <1>0, <2>2, <4>1, <4>2 DEF Row
    <3> QED BY <1>2, <3>1, <3>2 DEF Release
  <2>4. ASSUME NEW q \in Executors, pc'[q] \in Working
        PROVE  /\ pc[q] \in Working /\ pc'[q] = pc[q]
               /\ Owns(q)' => Owns(q)
    BY <2>1, <2>3, <2>4, PlanAssumption DEF Working, Owns, Row, TypeInv
  <2> QED BY <2>1, <2>3, <2>4 DEF Quiet
<1>3. CASE \/ FailCategory(p) \/ Crash(p)
           \/ /\ Start(p) \/ BeginCategory(p) \/ RecordFailure(p) \/ Complete(p)
              /\ UNCHANGED <<request, job>>
              /\ pc'[p] # "category"
           \/ Revalidate(p) /\ pc'[p] = "releasing"
  <2>1. UNCHANGED <<request, audit, lost, job>>
    BY <1>0, <1>3 DEF FailCategory, Crash, Start, BeginCategory, RecordFailure,
            Complete, Revalidate, Goto, requestVars, tenantVars
  <2>2. /\ \A q \in Executors : q # p => pc'[q] = pc[q]
        /\ pc'[p] \in Working =>
             pc[p] \in Working /\ pc'[p] # "category"
    BY <1>0, <1>3 DEF FailCategory, Crash, Start, BeginCategory, RecordFailure,
            Complete, Revalidate, Goto, Working
  <2> QED BY <2>1, <2>2 DEF Quiet, Owns, Row
<1> QED BY <1>1, <1>2, <1>3

(* An attempt copies the stored progress, and may enter a category when    *)
(* the execution is in progress.                                           *)
LEMMA ReadingKeepsInv ==
  ASSUME ExecutionInv, NEW p \in Executors,
         UNCHANGED <<request, audit, lost>>,
         job[p].request \in Requests,
         pc'[p] \in Working,
         \A q \in Executors : q # p => pc'[q] = pc[q] /\ job'[q] = job[q],
         job'[p].request = job[p].request,
         \/ job'[p].progress = Row(p).progress
         \/ pc[p] \in Working /\ job'[p].progress = job[p].progress,
         pc'[p] = "category" => Row(p).status = "EXECUTION_IN_PROGRESS"
  PROVE  Traces' /\ Progress' /\ Repeats'
<1>1. Traces'
  BY DEF ExecutionInv, Traces, Row, Untouched, Working
<1>2. Progress'
  BY DEF ExecutionInv, Progress, Row, Working, ExecutedIsComplete, CategoriesInOrder
<1>3. Repeats'
  BY DEF ExecutionInv, Repeats, Row, Owns, Working, RepeatsAreLostOutcomes
<1> QED BY <1>1, <1>2, <1>3

(* The owner of the lock stores the progress it knows of, with the status  *)
(* it found or a later one of the execution.                               *)
LEMMA StoringKeepsInv ==
  ASSUME ExecutionInv, NEW p \in Executors,
         UNCHANGED <<audit, lost>>,
         job[p].request \in Requests, pc[p] \in Working, Owns(p),
         \A q \in Executors : pc'[q] \in Working =>
            /\ pc'[q] = pc[q]
            /\ job'[q] = job[q],
         \A q \in Requests : q # job[p].request => request'[q] = request[q],
         request'[job[p].request].attempt = p,
         request'[job[p].request].progress = job[p].progress,
         \/ request'[job[p].request].status = Row(p).status
         \/ /\ request'[job[p].request].status = "DELETION_EXECUTED"
            /\ job[p].progress = Categories
  PROVE  Traces' /\ Progress' /\ Repeats'
<1> DEFINE r == job[p].request
<1>1. Traces'
  <2>1. \A q \in Executors : pc'[q] \in Working => job[q].request \in Requests
    BY DEF ExecutionInv, TypeInv, Working
  <2> QED BY <2>1 DEF ExecutionInv, Traces, Row, Untouched, Working
<1>2. Progress'
  BY DEF ExecutionInv, Progress, Row, Working, ExecutedIsComplete, CategoriesInOrder
<1>3. Repeats'
  <2>1. \A q \in Executors : pc'[q] \in Working /\ Owns(q)' => Owns(q)
    BY DEF Owns, Row, ExecutionInv, TypeInv, Working
  <2> QED BY <2>1 DEF ExecutionInv, Repeats, Row, Owns, Working, RepeatsAreLostOutcomes
<1> QED BY <1>1, <1>2, <1>3

(* A category that commits is audited and added to the stored progress.    *)
LEMMA CommittingKeepsInv ==
  ASSUME ExecutionInv, NEW p \in Executors, CommitCategory(p)
  PROVE  Traces' /\ Progress' /\ Repeats'
<1> DEFINE r == job[p].request
           c == NextCategory(job[p].progress)
<1>0. /\ r \in Requests /\ pc[p] = "category" /\ Owns(p)
      /\ request \in [Requests -> RequestRecord]
      /\ audit \in [Requests -> [Categories -> Nat]]
      /\ job \in [Executors -> JobRecord] /\ pc \in [Executors -> Steps]
      /\ lost \in Nat
  BY PlanAssumption DEF ExecutionInv, TypeInv, TypeOK, CommitCategory, Checkpoints
<1>1. /\ c \in Categories \ job[p].progress
      /\ \A d \in Categories : d < c => d \in job[p].progress
  BY <1>0, NextCategoryIsFirst DEF ExecutionInv, TypeInv, JobRecord
<1> HIDE DEF c
<1>2. /\ \A q \in Requests : q # r => request'[q] = request[q]
      /\ request'[r].progress = Row(p).progress \cup {c}
      /\ request'[r].status = Row(p).status
      /\ request'[r].attempt = Row(p).attempt
  <2> DEFINE row == [Row(p) EXCEPT !.progress = @ \cup {c}, !.stale = FALSE]
  <2>1. /\ row.progress = Row(p).progress \cup {c}
        /\ row.status = Row(p).status /\ row.attempt = Row(p).attempt
    BY <1>0 DEF Row, RequestRecord
  <2>2. request' = [request EXCEPT ![r] = row]
    BY DEF CommitCategory, Effects, Update, c
  <2> HIDE DEF row
  <2> QED BY <1>0, <2>1, <2>2
<1>3. /\ \A q \in Requests : \A d \in Categories :
            audit'[q][d] = IF q = r /\ d = c THEN audit[q][d] + 1 ELSE audit[q][d]
  BY <1>0, <1>1 DEF CommitCategory, Effects, c
<1>4. /\ \A q \in Executors : q # p => pc'[q] = pc[q] /\ job'[q] = job[q]
      /\ job'[p].request = r
      /\ \/ /\ pc'[p] = "running" /\ lost' = lost
            /\ job'[p].progress = Row(p).progress \cup {c}
         \/ /\ pc'[p] = "failing" /\ lost' = lost + 1
            /\ job'[p].progress = job[p].progress
  <2>1. CASE pc' = [pc EXCEPT ![p] = "running"] /\ UNCHANGED lost
             /\ job' = [job EXCEPT ![p].progress = Row(p).progress \cup {c}]
    BY <1>0, <2>1 DEF JobRecord
  <2>2. CASE pc' = [pc EXCEPT ![p] = "failing"] /\ lost' = lost + 1
             /\ UNCHANGED job
    BY <1>0, <2>2
  <2> QED BY <2>1, <2>2 DEF CommitCategory, Goto, c
<1>5. \A q \in Executors : pc[q] \in Working => job[q].request \in Requests
  BY DEF ExecutionInv, TypeInv, Working
<1>6. Row(p).status \notin Untouched
  BY <1>0 DEF ExecutionInv, Traces
<1> HIDE DEF r
<1>7. Traces'
  BY <1>0, <1>2, <1>3, <1>4, <1>5, <1>6
     DEF ExecutionInv, Traces, Row, Working, r
<1>8. Progress'
  <2>1. \A q \in Requests : \A d \in Categories :
           audit[q][d] > 0 => audit'[q][d] > 0
    BY <1>0, <1>3
  <2>2. audit'[r][c] > 0
    BY <1>0, <1>1, <1>3
  <2>3. \A q \in Requests : request[q].progress \subseteq Categories
    BY <1>0 DEF RequestRecord
  <2>4. \A q \in Executors : job[q].progress \subseteq Categories
    BY <1>0 DEF JobRecord
  <2>5. \A q \in Requests : \A d \in request'[q].progress : audit'[q][d] > 0
    BY <1>2, <2>1, <2>2, <2>3 DEF ExecutionInv, Progress, Row, r
  <2>6. ASSUME NEW q \in Executors, pc'[q] \in Working,
               NEW d \in job'[q].progress
        PROVE  audit'[job'[q].request][d] > 0
    <3>1. CASE q # p
      BY <1>4, <1>5, <2>1, <2>4, <2>6, <3>1 DEF ExecutionInv, Progress
    <3>2. CASE q = p
      BY <1>0, <1>4, <2>1, <2>2, <2>3, <2>4, <2>6, <3>2
         DEF ExecutionInv, Progress, Row, Working, r
    <3> QED BY <3>1, <3>2
  <2>7. ExecutedIsComplete'
    BY <1>2, <2>1 DEF ExecutionInv, Progress, ExecutedIsComplete, Row, r
  <2>8. ASSUME NEW q \in Requests, NEW d \in Categories, NEW e \in Categories,
               e < d, audit'[q][d] > 0
        PROVE  audit'[q][e] > 0
    <3>1. CASE q = r /\ d = c
      <4>1. e \in job[p].progress
        BY <1>1, <2>8, <3>1
      <4> QED BY <1>0, <2>1, <3>1, <4>1 DEF ExecutionInv, Progress, Working, r
    <3>2. CASE ~(q = r /\ d = c)
      BY <1>3, <2>1, <2>8, <3>2 DEF ExecutionInv, Progress, CategoriesInOrder
    <3> QED BY <3>1, <3>2
  <2> QED BY <2>5, <2>6, <2>7, <2>8 DEF Progress, CategoriesInOrder
<1>9. Repeats'
  <2>1. audit[r][c] <= lost
    BY <1>0, <1>1 DEF ExecutionInv, Repeats, Working, r
  <2>2. lost' \in Nat /\ lost <= lost'
    BY <1>0, <1>4
  <2>3. RepeatsAreLostOutcomes'
    BY <1>0, <1>3, <2>1, <2>2 DEF ExecutionInv, Repeats, RepeatsAreLostOutcomes
  <2>4. ASSUME NEW q \in Requests, NEW d \in Categories \ request'[q].progress
        PROVE  audit'[q][d] <= lost'
    <3>1. d \notin request[q].progress /\ ~(q = r /\ d = c)
      BY <1>2, <2>4 DEF Row, r
    <3>2. audit'[q][d] = audit[q][d] /\ audit[q][d] <= lost
      BY <1>3, <3>1, <2>4 DEF ExecutionInv, Repeats
    <3> QED BY <1>0, <2>2, <2>4, <3>2
  <2>5. ASSUME NEW q \in Executors, pc'[q] \in Working, Owns(q)',
               NEW d \in Categories \ job'[q].progress
        PROVE  audit'[job'[q].request][d] <= lost'
    <3>1. CASE q # p
      <4>1. /\ job'[q] = job[q] /\ pc[q] \in Working /\ job[q].request \in Requests
        BY <1>4, <1>5, <2>5, <3>1
      <4>2. job[q].request # r /\ Owns(q)
        BY <1>0, <1>2, <2>5, <3>1, <4>1 DEF Owns, Row, r
      <4>3. audit[job[q].request][d] <= lost
        BY <2>5, <4>1, <4>2 DEF ExecutionInv, Repeats
      <4>4. audit'[job[q].request][d] = audit[job[q].request][d]
        BY <1>3, <2>5, <4>1, <4>2
      <4> QED BY <1>0, <2>2, <2>5, <4>1, <4>3, <4>4
    <3>2. CASE q = p /\ pc'[p] = "running"
      <4>1. d \in Categories \ request'[r].progress
        BY <1>2, <1>4, <2>5, <3>2
      <4> QED BY <1>0, <1>4, <2>4, <3>2, <4>1
    <3>3. CASE q = p /\ pc'[p] = "failing"
      <4>1. audit[r][d] <= lost
        BY <1>0, <1>4, <2>5, <3>3 DEF ExecutionInv, Repeats, Working, r
      <4>2. audit'[r][d] <= audit[r][d] + 1 /\ lost' = lost + 1
        BY <1>0, <1>3, <1>4, <2>5, <3>3
      <4>3. /\ audit[r][d] \in Int /\ audit'[r][d] \in Int /\ lost \in Int
            /\ job'[q].request = r
        BY <1>0, <1>3, <1>4, <2>5, <3>3
      <4> QED BY <4>1, <4>2, <4>3
    <3> QED BY <1>4, <3>1, <3>2, <3>3
  <2> QED BY <2>3, <2>4, <2>5 DEF Repeats
<1> QED BY <1>7, <1>8, <1>9

(* The first attempt finds a request of which nothing ran.                 *)
LEMMA StartingKeepsInv ==
  ASSUME ExecutionInv, NEW p \in Executors, Start(p),
         job[p].status = "FUTURE_PENDING_DELETION",
         Owns(p), Row(p).status = "FUTURE_PENDING_DELETION"
  PROVE  Traces' /\ Progress' /\ Repeats'
<1> DEFINE r == job[p].request
<1>0. /\ r \in Requests /\ pc[p] = "ready"
      /\ request \in [Requests -> RequestRecord]
      /\ audit \in [Requests -> [Categories -> Nat]]
      /\ job \in [Executors -> JobRecord] /\ pc \in [Executors -> Steps]
      /\ lost \in Nat
  BY PlanAssumption DEF ExecutionInv, TypeInv, TypeOK, Start
<1>1. /\ \A q \in Requests : q # r => request'[q] = request[q]
      /\ request'[r].progress = {}
      /\ request'[r].status = "EXECUTION_IN_PROGRESS"
      /\ request'[r].attempt = Row(p).attempt
  <2> DEFINE row == [Row(p) EXCEPT !.status = "EXECUTION_IN_PROGRESS",
                                   !.progress = {}]
  <2>1. /\ row.progress = {} /\ row.status = "EXECUTION_IN_PROGRESS"
        /\ row.attempt = Row(p).attempt
    BY <1>0 DEF Row, RequestRecord
  <2>2. request' = [request EXCEPT ![r] = row]
    BY DEF Start, Update
  <2> HIDE DEF row
  <2> QED BY <1>0, <2>1, <2>2
<1>2. /\ \A q \in Executors : q # p => pc'[q] = pc[q] /\ job'[q] = job[q]
      /\ pc'[p] = "running"
      /\ job'[p].request = r /\ job'[p].progress = {}
      /\ UNCHANGED <<audit, lost>>
  <2>1. /\ job' = [job EXCEPT ![p].progress = {}]
        /\ pc' = [pc EXCEPT ![p] = "running"]
        /\ UNCHANGED <<audit, lost>>
    BY DEF Start, Goto
  <2> QED BY <1>0, <2>1 DEF JobRecord
<1>3. \A c \in Categories : audit[r][c] = 0
  BY <1>0 DEF ExecutionInv, Traces, Row, Untouched
<1>4. \A q \in Executors : pc[q] \in Working => job[q].request \in Requests
  BY DEF ExecutionInv, TypeInv, Working
<1>5. "EXECUTION_IN_PROGRESS" \notin Untouched /\ "category" \in Working
  BY DEF Untouched, Working
<1> HIDE DEF r
<1>6. Traces'
  <2>1. ASSUME NEW q \in Requests, request'[q].status \in Untouched
        PROVE  request'[q].progress = {} /\ \A c \in Categories : audit'[q][c] = 0
    BY <1>1, <1>2, <1>5, <2>1 DEF ExecutionInv, Traces
  <2>2. ASSUME NEW q \in Executors, q # p, pc'[q] \in Working
        PROVE  /\ pc[q] = pc'[q] /\ job'[q] = job[q] /\ job[q].request \in Requests
               /\ Row(q)'.status \in Untouched => Row(q).status \in Untouched
               /\ Row(q).status \notin Untouched => Row(q)'.status \notin Untouched
    BY <1>1, <1>2, <1>4, <1>5, <2>2 DEF Row
  <2>3. ASSUME NEW q \in Executors, pc'[q] \in Working,
               Row(q)'.status \in Untouched
        PROVE  job'[q].progress = {}
    BY <1>2, <2>2, <2>3 DEF ExecutionInv, Traces
  <2>4. ASSUME NEW q \in Executors, pc'[q] = "category"
        PROVE  Row(q)'.status \notin Untouched
    BY <1>2, <1>5, <2>2, <2>4 DEF ExecutionInv, Traces
  <2> QED BY <2>1, <2>3, <2>4 DEF Traces
<1>7. Progress'
  <2>1. ExecutedIsComplete'
    BY <1>1, <1>2 DEF ExecutionInv, Progress, ExecutedIsComplete
  <2>2. CategoriesInOrder'
    BY <1>2 DEF ExecutionInv, Progress, CategoriesInOrder
  <2>3. ASSUME NEW q \in Executors, pc'[q] \in Working,
               NEW c \in job'[q].progress
        PROVE  audit'[job'[q].request][c] > 0
    BY <1>2, <2>3 DEF ExecutionInv, Progress
  <2>4. ASSUME NEW q \in Requests, NEW c \in request'[q].progress
        PROVE  audit'[q][c] > 0
    BY <1>1, <1>2, <2>4 DEF ExecutionInv, Progress
  <2> QED BY <2>1, <2>2, <2>3, <2>4 DEF Progress
<1>8. Repeats'
  <2>1. RepeatsAreLostOutcomes'
    BY <1>2 DEF ExecutionInv, Repeats, RepeatsAreLostOutcomes
  <2>2. ASSUME NEW q \in Requests, NEW c \in Categories \ request'[q].progress
        PROVE  audit'[q][c] <= lost'
    BY <1>0, <1>1, <1>2, <1>3, <2>2 DEF ExecutionInv, Repeats
  <2>3. ASSUME NEW q \in Executors, pc'[q] \in Working, Owns(q)',
               NEW c \in Categories \ job'[q].progress
        PROVE  audit'[job'[q].request][c] <= lost'
    <3>1. CASE q = p
      BY <1>0, <1>2, <1>3, <2>3, <3>1
    <3>2. CASE q # p
      <4>1. pc[q] \in Working /\ job'[q] = job[q] /\ job[q].request \in Requests
        BY <1>2, <1>4, <2>3, <3>2
      <4>2. Owns(q)
        BY <1>1, <2>3, <4>1 DEF Owns, Row, r
      <4> QED BY <1>2, <2>3, <4>1, <4>2 DEF ExecutionInv, Repeats
    <3> QED BY <3>1, <3>2
  <2> QED BY <2>1, <2>2, <2>3 DEF Repeats
<1> QED BY <1>6, <1>7, <1>8

LEMMA QuietKeepsInv ==
  ASSUME ExecutionInv, Quiet
  PROVE  Traces' /\ Progress' /\ Repeats'
BY QuietKeepsTraces, QuietKeepsProgress, QuietKeepsRepeats DEF ExecutionInv

(* Every step of an attempt.                                               *)
LEMMA ExecutionKeepsInv ==
  ASSUME ExecutionInv, NEW p \in Executors, Execute(p)
  PROVE  Traces' /\ Progress' /\ Repeats'
<1> DEFINE r == job[p].request
<1>0. /\ request \in [Requests -> RequestRecord]
      /\ job \in [Executors -> JobRecord] /\ pc \in [Executors -> Steps]
      /\ pc[p] # "idle" => r \in Requests
      /\ TypeInv
  BY DEF ExecutionInv, TypeInv, TypeOK
<1>1. CASE \/ \E q \in Requests : Lock(p, q)
           \/ FailCategory(p) \/ Release(p) \/ Crash(p)
  BY <1>0, <1>1, LockingIsQuiet, QuietKeepsInv
<1>2. CASE Revalidate(p)
  <2>1. CASE pc'[p] = "releasing"
    BY <1>0, <1>2, <2>1, LockingIsQuiet, QuietKeepsInv
  <2>2. CASE pc'[p] # "releasing"
    <3> DEFINE new == [job[p] EXCEPT !.status = Row(p).status,
                                     !.progress = Row(p).progress]
    <3>1. new.request = r /\ new.progress = Row(p).progress
      BY <1>0 DEF JobRecord
    <3>2. job' = [job EXCEPT ![p] = new] /\ pc' = [pc EXCEPT ![p] = "ready"]
      BY <1>0, <1>2, <2>2 DEF Revalidate, Goto
    <3> HIDE DEF new
    <3>3. /\ \A q \in Executors : q # p => pc'[q] = pc[q] /\ job'[q] = job[q]
          /\ job'[p].request = r /\ job'[p].progress = Row(p).progress
          /\ pc'[p] = "ready"
      BY <1>0, <3>1, <3>2
    <3>4. UNCHANGED <<request, audit, lost>> /\ r \in Requests
      BY <1>0, <1>2 DEF Revalidate, requestVars
    <3> QED BY <3>3, <3>4, ReadingKeepsInv DEF Working
  <2> QED BY <2>1, <2>2
<1>3. CASE Start(p)
  <2>1. CASE UNCHANGED <<request, job>>
    <3>1. pc'[p] # "category"
      BY <1>0, <1>3 DEF Start, Goto
    <3> QED BY <1>0, <1>3, <2>1, <3>1, LockingIsQuiet, QuietKeepsInv
  <2>2. CASE job[p].status = "FUTURE_PENDING_DELETION"
             /\ Owns(p) /\ Row(p).status = "FUTURE_PENDING_DELETION"
    BY <1>3, <2>2, StartingKeepsInv
  <2> QED BY <1>3, <2>1, <2>2 DEF Start
<1>4. CASE BeginCategory(p)
  <2>1. CASE UNCHANGED <<request, job>> /\ pc'[p] # "category"
    BY <1>0, <1>4, <2>1, LockingIsQuiet, QuietKeepsInv
  <2>2. CASE Owns(p) /\ Row(p).status = "EXECUTION_IN_PROGRESS"
    <3> DEFINE new == [job[p] EXCEPT !.progress = Row(p).progress]
    <3>1. new.request = r /\ new.progress = Row(p).progress
      BY <1>0 DEF JobRecord
    <3>2. /\ \/ job' = [job EXCEPT ![p] = new] /\ UNCHANGED pc
             \/ UNCHANGED job /\ pc' = [pc EXCEPT ![p] = "category"]
          /\ UNCHANGED <<request, audit, lost>>
          /\ pc[p] = "running"
      BY <1>4, <2>2 DEF BeginCategory, Goto, requestVars
    <3> HIDE DEF new
    <3>3. /\ \A q \in Executors : q # p => pc'[q] = pc[q] /\ job'[q] = job[q]
          /\ job'[p].request = r
          /\ \/ job'[p].progress = Row(p).progress
             \/ job'[p].progress = job[p].progress
          /\ pc'[p] \in Working /\ pc[p] \in Working
      BY <1>0, <3>1, <3>2 DEF Working
    <3>4. r \in Requests
      BY <1>0, <3>2
    <3> QED BY <2>2, <3>2, <3>3, <3>4, ReadingKeepsInv
  <2>3. ~(Owns(p) /\ Row(p).status = "EXECUTION_IN_PROGRESS")
          => UNCHANGED <<request, job>> /\ pc'[p] # "category"
    BY <1>0, <1>4 DEF BeginCategory, Goto, requestVars
  <2> QED BY <2>1, <2>2, <2>3
<1>5. CASE CommitCategory(p)
  BY <1>5, CommittingKeepsInv
<1>6. CASE RecordFailure(p) \/ Complete(p)
  <2>1. CASE UNCHANGED request
    <3>1. UNCHANGED job /\ pc'[p] # "category"
      BY <1>0, <1>6 DEF RecordFailure, Complete, Goto
    <3>2. CASE Complete(p)
      BY <1>0, <2>1, <3>1, <3>2, LockingIsQuiet, QuietKeepsInv
    <3>3. CASE RecordFailure(p)
      BY <1>0, <2>1, <3>1, <3>3, LockingIsQuiet, QuietKeepsInv
    <3> QED BY <1>6, <3>2, <3>3
  <2>2. CASE Owns(p)
    <3>1. /\ UNCHANGED <<audit, lost, job>>
          /\ pc' = [pc EXCEPT ![p] = "releasing"]
          /\ pc[p] \in Working /\ r \in Requests
      BY <1>0, <1>6 DEF RecordFailure, Complete, Goto, Working
    <3>2. \A q \in Executors : pc'[q] \in Working =>
             pc'[q] = pc[q] /\ job'[q] = job[q]
      BY <1>0, <3>1 DEF Working
    <3>3. PICK row :
             /\ row.progress = job[p].progress
             /\ row.attempt = Row(p).attempt
             /\ \/ row.status = Row(p).status
                \/ /\ row.status = "DELETION_EXECUTED"
                   /\ job[p].progress = Categories
             /\ request' = [request EXCEPT ![r] = row]
      <4>0. Row(p) \in RequestRecord
        BY <1>0, <3>1 DEF Row
      <4>1. CASE RecordFailure(p)
        <5> DEFINE new == [Row(p) EXCEPT !.progress = job[p].progress]
        <5>1. /\ new.progress = job[p].progress /\ new.attempt = Row(p).attempt
              /\ new.status = Row(p).status
          BY <4>0 DEF RequestRecord
        <5>2. request' = [request EXCEPT ![r] = new]
          BY <2>2, <4>1 DEF RecordFailure, Update
        <5> QED BY <5>1, <5>2
      <4>2. CASE Complete(p)
        <5> DEFINE new == [Row(p) EXCEPT !.status = "DELETION_EXECUTED",
                                         !.progress = job[p].progress]
        <5>1. /\ new.progress = job[p].progress /\ new.attempt = Row(p).attempt
              /\ new.status = "DELETION_EXECUTED"
          BY <4>0 DEF RequestRecord
        <5>2. /\ request' = [request EXCEPT ![r] = new]
              /\ job[p].progress = Categories
          BY <2>2, <4>2 DEF Complete, Update
        <5> QED BY <5>1, <5>2
      <4> QED BY <1>6, <4>1, <4>2
    <3>4. /\ \A q \in Requests : q # r => request'[q] = request[q]
          /\ request'[r] = row
      BY <1>0, <3>1, <3>3
    <3>5. Row(p).attempt = p
      BY <2>2 DEF Owns
    <3> QED BY <2>2, <3>1, <3>2, <3>3, <3>4, <3>5, StoringKeepsInv
  <2> QED BY <1>6, <2>1, <2>2 DEF RecordFailure, Complete
<1> QED BY <1>1, <1>2, <1>3, <1>4, <1>5, <1>6 DEF Execute

LEMMA InvStarts == Init => ExecutionInv
<1> SUFFICES ASSUME Init PROVE ExecutionInv
  OBVIOUS
<1>1. TypeInv
  BY StartsTyped
<1>2. \A p \in Executors : pc[p] = "idle"
  BY DEF Init
<1>3. \A r \in Requests : request[r] = NoRequest
                            /\ \A c \in Categories : audit[r][c] = 0
  BY DEF Init
<1>4. 0 <= lost
  BY DEF Init
<1>5. Traces
  BY <1>2, <1>3 DEF Traces, NoRequest, Working
<1>6. Progress
  BY <1>2, <1>3 DEF Progress, NoRequest, Working, ExecutedIsComplete,
                    CategoriesInOrder
<1>7. Repeats
  BY <1>2, <1>3, <1>4 DEF Repeats, Working, RepeatsAreLostOutcomes, Init
<1> QED BY <1>1, <1>5, <1>6, <1>7 DEF ExecutionInv

LEMMA InvStep == ExecutionInv /\ [Next]_deletionVars => ExecutionInv'
<1> SUFFICES ASSUME ExecutionInv, [Next]_deletionVars PROVE ExecutionInv'
  OBVIOUS
<1>0. TypeInv /\ TypeInv'
  BY StepTyped DEF ExecutionInv
<1>1. CASE Workflow
  BY <1>0, <1>1, WorkflowIsQuiet, QuietKeepsInv DEF ExecutionInv
<1>2. CASE \E p \in Executors : Execute(p)
  BY <1>0, <1>2, ExecutionKeepsInv DEF ExecutionInv
<1>3. CASE (\E r \in Requests : Expire(r)) \/ Admit \/ Serve
             \/ UNCHANGED deletionVars
  BY <1>0, <1>3, SurroundingsAreQuiet, QuietKeepsInv DEF ExecutionInv
<1> QED BY <1>1, <1>2, <1>3 DEF Next

LEMMA InvAlways == Spec => []ExecutionInv
BY InvStarts, InvStep, PTL DEF Spec

(* A request reported as executed ran every category of the plan, for      *)
(* every length of the plan, any number of attempts, crashes and stale     *)
(* locks.                                                                  *)
THEOREM ExecutionCompletes == Spec => []ExecutedIsComplete
<1>1. ExecutionInv => ExecutedIsComplete
  BY DEF ExecutionInv, Progress
<1> QED BY <1>1, InvAlways, PTL

(* No category ran unless every earlier one of the plan did: in particular *)
(* the devices are revoked before any data is deleted.                     *)
THEOREM ExecutionFollowsPlan == Spec => []CategoriesInOrder
<1>1. ExecutionInv => CategoriesInOrder
  BY DEF ExecutionInv, Progress
<1> QED BY <1>1, InvAlways, PTL

(* The cancellation of a request and the start of its execution exclude    *)
(* each other, whatever the two read before they wrote.                    *)
THEOREM CancellationIsClean == Spec => []CancelledLeavesNoTrace
<1>1. ExecutionInv => CancelledLeavesNoTrace
  BY DEF ExecutionInv, Traces, CancelledLeavesNoTrace, Untouched
<1> QED BY <1>1, InvAlways, PTL

(* A category runs again only when the outcome of a commit was lost: a     *)
(* takeover of the lock repeats nothing.                                   *)
THEOREM RepeatsAreBounded == Spec => []RepeatsAreLostOutcomes
<1>1. ExecutionInv => RepeatsAreLostOutcomes
  BY DEF ExecutionInv, Repeats
<1> QED BY <1>1, InvAlways, PTL

-----------------------------------------------------------------------------
(* The company itself: who is let in, and what it has.                     *)

(* Only a request of the company brings data, and only the gate lets it in. *)
LEMMA WorkflowLetsNobodyIn ==
  ASSUME Workflow \/ (\E r \in Requests : Expire(r))
  PROVE  UNCHANGED <<admitted, data>>
BY DEF Workflow, CreateRequest, MarkIdentityPending, VerifyIdentity, SetIdentity,
       DryRun, QuarantineRequest, CancelQuarantine, CancelRequest, RecordCancel,
       RejectRequest, Expire, tenantVars

LEMMA ExecutionLetsNobodyIn ==
  ASSUME NEW p \in Executors, Execute(p)
  PROVE  UNCHANGED admitted /\ data' \in {data, FALSE}
<1>1. CASE CommitCategory(p)
  BY <1>1 DEF CommitCategory, Effects
<1>2. CASE ~CommitCategory(p)
  BY <1>2 DEF Execute, Lock, Revalidate, Start, BeginCategory, FailCategory,
              RecordFailure, Complete, Release, Crash, tenantVars
<1> QED BY <1>1, <1>2

(* Once the memberships of the company are gone, no request is under way   *)
(* and no data is left, nobody comes in and nothing comes back, whatever a *)
(* second request or a resumed attempt does (assertTenantOperational, and  *)
(* the order in which the plan revokes, deletes and closes).               *)
THEOREM ClosedCompaniesStayEmpty == Spec => ClosedStaysEmpty
<1>1. ASSUME [Next]_deletionVars, Executed(Closing), ~admitted, ~data
      PROVE  ~admitted' /\ ~data'
  <2>1. CASE Workflow \/ (\E r \in Requests : Expire(r))
    BY <1>1, <2>1, WorkflowLetsNobodyIn
  <2>2. CASE \E p \in Executors : Execute(p)
    BY <1>1, <2>2, ExecutionLetsNobodyIn
  <2>3. CASE Admit \/ Serve
    BY <1>1, <2>3 DEF Admit, Serve
  <2>4. CASE UNCHANGED deletionVars
    BY <1>1, <2>4 DEF deletionVars
  <2> QED
    BY <1>1, <2>1, <2>2, <2>3, <2>4 DEF Next
<1>2. [Next]_deletionVars =>
        [Executed(Closing) /\ ~admitted /\ ~data => ~admitted' /\ ~data']_deletionVars
  BY <1>1
<1> QED BY <1>2, PTL DEF Spec, ClosedStaysEmpty

------------------------------------------------------------------------------
(***************************************************************************)
(* The subscription of a company: the rows, and what a task may hold.      *)
(***************************************************************************)
Periods == 0 .. MaxTime + 1
SessionRow == [status: SessionStatuses, plan: PaidPlans \cup {Nothing}, linked: BOOLEAN]
ProviderRow == [status: ProviderStatuses, amount: PaidPlans \cup {Nothing}, periodEnd: Periods]
EventRow == [topic: Topics \cup {Nothing}, sub: Subs \cup {NoSub},
             status: Settled \cup {"NONE", "RECEIVED", "FAILED_RETRYABLE"}]

TablesOK ==
    /\ now \in 0 .. MaxTime
    /\ license \in License
    /\ session \in [Subs -> SessionRow]
    /\ newer \in [Subs -> SUBSET Subs]
    /\ provider \in [Subs -> ProviderRow]
    /\ event \in [Notices -> EventRow]
    /\ requests \in 0 .. MaxRequests
    /\ billed \in Plans /\ forced \in Plans

(* What an update may say of the licence.                                  *)
FieldNames == {"plan", "status", "pending", "ref", "periodEnd", "cancelAtEnd", "expiresAt"}
FieldsOK(f) ==
    /\ DOMAIN f \subseteq FieldNames
    /\ "plan" \in DOMAIN f => f.plan \in Plans
    /\ "status" \in DOMAIN f => f.status \in LicenseStatuses
    /\ "pending" \in DOMAIN f => f.pending \in PaidPlans \cup {Nothing}
    /\ "ref" \in DOMAIN f => f.ref \in Subs \cup {NoSub}
    /\ "periodEnd" \in DOMAIN f => f.periodEnd \in Periods
    /\ "cancelAtEnd" \in DOMAIN f => f.cancelAtEnd \in BOOLEAN
    /\ "expiresAt" \in DOMAIN f => f.expiresAt \in Periods
WritesOK(x) ==
    /\ x = [action |-> x.action, session |-> x.session, fields |-> x.fields]
    /\ x.action \in {"activated", "downgraded", "unchanged", "ignored_unknown"}
    /\ x.session \in SessionStatuses
    /\ FieldsOK(x.fields)

IsTaskRecord(j) ==
    j = [kind |-> j.kind, phase |-> j.phase, notice |-> j.notice, sub |-> j.sub,
         prior |-> j.prior, plan |-> j.plan, details |-> j.details, writes |-> j.writes]
TaskOK(j) ==
    /\ IsTaskRecord(j)
    /\ j.kind \in Kinds /\ j.phase \in Phases /\ j.plan \in Plans
    /\ j.notice \in Notices \cup {NoNotice}
    /\ j.sub \in Subs \cup {NoSub} /\ j.prior \in Subs \cup {NoSub}
    /\ j.details # Nothing => j.details \in Details
    /\ j.writes # Nothing => WritesOK(j.writes)

TasksOK == DOMAIN task = Workers /\ \A w \in Workers : task[w] # Nothing => TaskOK(task[w])

(***************************************************************************)
(* The inductive invariant.                                                *)
(***************************************************************************)
Known(s) == provider[s].status # "none"
Charged(s) == provider[s].periodEnd # 0
Covered(plan) == Rank[plan] <= Rank[billed]

(* A preapproval has the plan of its session until it is charged, and a    *)
(* plan that was charged is covered by what was billed.                    *)
SubInv(s) ==
    /\ Known(s) => /\ session[s].status # "NONE"
                   /\ session[s].plan \in PaidPlans /\ provider[s].amount \in PaidPlans
    /\ Known(s) /\ ~Charged(s) => provider[s].amount = session[s].plan
    /\ provider[s].status \in {"authorized", "paused"} => Charged(s)
    /\ Charged(s) => Known(s) /\ Covered(session[s].plan)
    /\ provider[s].status = "authorized" => Covered(provider[s].amount)
    /\ session[s].status = "COMPLETED" => Charged(s)
    /\ session[s].linked => Known(s)

LicenseInv ==
    /\ Rank[license.plan] <= Rank[Highest(billed, forced)]
    /\ license.ref # NoSub => Charged(license.ref)
    /\ license.plan # "FREE" => license.ref # NoSub \/ forced # "FREE"

EventInv(n) == event[n].topic # Nothing => event[n].sub \in Subs /\ Known(event[n].sub)

(* What a task knows at each of its phases.                                *)
Asking(j) ==
    j.phase = "ask" =>
        /\ j.sub \in Subs /\ Known(j.sub)
        /\ j.kind \in {"cancel", "resume"} => Charged(j.sub)
Answered(j) ==
    j.phase = "decide" =>
        /\ j.details \in Details /\ j.details.sub = j.sub /\ Known(j.sub)
        /\ j.details.status \in {"authorized", "paused"} => Charged(j.sub)
        /\ j.details.status = "authorized" /\ j.details.amount # Nothing
              => Covered(j.details.amount)
Gives(f) ==
    /\ "plan" \in DOMAIN f => /\ Covered(f.plan)
                              /\ f.plan # "FREE" => "ref" \in DOMAIN f /\ f.ref # NoSub
    /\ "ref" \in DOMAIN f => IF f.ref = NoSub THEN "plan" \in DOMAIN f /\ f.plan = "FREE"
                             ELSE Charged(f.ref)
Writing(j) ==
    j.phase = "write" =>
        /\ WritesOK(j.writes) /\ j.sub \in Subs /\ Known(j.sub)
        /\ Gives(j.writes.fields)
        /\ j.writes.action # "ignored_unknown" =>
             /\ j.writes.session # "NONE"
             /\ j.writes.session = "COMPLETED" => Charged(j.sub)
Opening(j) ==
    j.phase = "checkout" =>
        /\ j.sub \in Subs /\ j.plan \in PaidPlans
        /\ session[j.sub].status # "NONE" /\ session[j.sub].plan = j.plan
Changing(j) == j.phase = "amount" => j.sub \in Subs /\ Charged(j.sub) /\ j.plan \in PaidPlans
Knows(j) ==
    /\ j.prior # NoSub => Charged(j.prior)
    /\ j.phase = "supersede" => j.prior # NoSub
    /\ j.phase = "mark" => WritesOK(j.writes)
    /\ j.kind = "webhook" => j.notice \in Notices
TaskInv(j) ==
    Asking(j) /\ Answered(j) /\ Writing(j) /\ Opening(j) /\ Changing(j) /\ Knows(j)

BillingInv ==
    /\ TablesOK /\ TasksOK
    /\ \A s \in Subs : SubInv(s)
    /\ LicenseInv
    /\ \A n \in Notices : EventInv(n)
    /\ \A w \in Workers : task[w] # Nothing => TaskInv(task[w])

(***************************************************************************)
(* Plans, updates, and types.                                              *)
(***************************************************************************)
LEMMA Ranks ==
    /\ \A p \in Plans : Rank[p] \in 0..2
    /\ Rank["FREE"] = 0
BY DEF Plans, Rank

LEMMA HighestPlan ==
    ASSUME NEW p \in Plans, NEW q \in Plans
    PROVE  /\ Highest(p, q) \in Plans
           /\ Rank[p] <= Rank[Highest(p, q)] /\ Rank[q] <= Rank[Highest(p, q)]
           /\ Rank[Highest(p, q)] \in {Rank[p], Rank[q]}
           /\ q # "FREE" => Highest(p, q) # "FREE"
BY Ranks DEF Plans, Rank, Highest

LEMMA PaidArePlans == PaidPlans \subseteq Plans
BY DEF PaidPlans, Plans

LEMMA Updated ==
    ASSUME NEW row \in License, NEW f, FieldsOK(f)
    PROVE  WithFields(row, f) \in License
BY DEF License, FieldNames, WithFields, FieldsOK, Periods

LEMMA UpdatedFields ==
    ASSUME NEW row \in License, NEW f
    PROVE  /\ WithFields(row, f).plan = IF "plan" \in DOMAIN f THEN f.plan ELSE row.plan
           /\ WithFields(row, f).ref = IF "ref" \in DOMAIN f THEN f.ref ELSE row.ref
BY DEF License, WithFields

LEMMA WritesTyped ==
    ASSUME license \in License, NEW x, WritesOK(x)
    PROVE  IsWrites(x)
<1>1. DOMAIN x = {"action", "session", "fields"}
  BY SMT DEF WritesOK
<1>2. DOMAIN license = FieldNames
  BY DEF License, FieldNames
<1> QED
  BY <1>1, <1>2, Updated DEF WritesOK, IsWrites, FieldsOK

LEMMA Typed == ASSUME TablesOK, TasksOK PROVE BillingTypeOK
<1>1. \A w \in Workers : task[w] # Nothing => IsTask(task[w])
  BY WritesTyped DEF TablesOK, TasksOK, TaskOK, IsTask
<1> QED
  BY <1>1 DEF BillingTypeOK, TablesOK, TasksOK, SessionRow, ProviderRow, EventRow, Periods

LEMMA FreeFieldsOK ==
    /\ FieldsOK(FreeFields) /\ DOMAIN FreeFields = FieldNames
    /\ FreeFields.plan = "FREE" /\ FreeFields.ref = NoSub
<1>1. FieldsOK(FreeFields)
  BY BillingAssumption
     DEF FieldsOK, FieldNames, FreeFields, Plans, LicenseStatuses, Periods
<1>2. DOMAIN FreeFields = FieldNames
  BY SMT DEF FreeFields, FieldNames
<1> QED
  BY <1>1, <1>2 DEF FreeFields

LEMMA NoFieldsOK == FieldsOK(NoFields) /\ DOMAIN NoFields = {}
BY DEF FieldsOK, NoFields

LEMMA NewTaskOK ==
    ASSUME NEW kind \in Kinds, NEW phase \in Phases
    PROVE  LET j == NewTask(kind, phase) IN
           /\ TaskOK(j) /\ j.kind = kind /\ j.phase = phase /\ j.prior = NoSub
           /\ j.sub = NoSub /\ j.notice = NoNotice
BY DEF NewTask, TaskOK, IsTaskRecord, Plans

LEMMA InitHolds == ASSUME BillingInit PROVE BillingInv
<1>1. TablesOK
  BY BillingAssumption
     DEF BillingInit, TablesOK, License, SessionRow, ProviderRow, EventRow, Periods,
         Plans,
         LicenseStatuses, SessionStatuses, ProviderStatuses
<1>2. TasksOK /\ \A w \in Workers : task[w] = Nothing
  BY DEF BillingInit, TasksOK
<1>3. \A s \in Subs : SubInv(s)
  BY DEF BillingInit, SubInv, Known, Charged
<1>4. LicenseInv
  BY HighestPlan, Ranks DEF BillingInit, LicenseInv, Plans
<1>5. \A n \in Notices : EventInv(n)
  BY DEF BillingInit, EventInv
<1> QED
  BY <1>1, <1>2, <1>3, <1>4, <1>5 DEF BillingInv

(***************************************************************************)
(* Steps.  What was known of a preapproval stays known.                    *)
(***************************************************************************)
Grows ==
    /\ \A s \in Subs :
          /\ Known(s) => Known(s)'
          /\ Charged(s) => Charged(s)'
          /\ session[s].status # "NONE" =>
                session'[s].status # "NONE" /\ session'[s].plan = session[s].plan
    /\ Rank[billed] <= Rank[billed']
    /\ forced # "FREE" => forced' # "FREE"

LEMMA CoveredKept ==
    ASSUME TablesOK, TablesOK', Grows, NEW p \in Plans, Covered(p)
    PROVE  Covered(p)'
BY Ranks DEF TablesOK, Grows, Covered

LEMMA GivesKept ==
    ASSUME TablesOK, TablesOK', Grows, NEW f, FieldsOK(f), Gives(f)
    PROVE  Gives(f)'
<1>1. "plan" \in DOMAIN f => Covered(f.plan)'
  BY CoveredKept DEF Gives, FieldsOK
<1>2. "ref" \in DOMAIN f /\ f.ref # NoSub => (Charged(f.ref) => Charged(f.ref)')
  BY DEF FieldsOK, Grows
<1> QED
  BY <1>1, <1>2 DEF Gives

LEMMA TaskKept ==
    ASSUME TablesOK, TablesOK', Grows, NEW j, TaskOK(j), TaskInv(j)
    PROVE  TaskInv(j)'
<1>1. Asking(j)'
  BY DEF TaskInv, Asking, Grows
<1>2. Answered(j)'
  <2> SUFFICES ASSUME j.phase = "decide" PROVE Answered(j)'
    BY DEF Answered
  <2>1. /\ j.details \in Details /\ j.details.sub = j.sub /\ Known(j.sub) /\ j.sub \in Subs
        /\ j.details.status \in {"authorized", "paused"} => Charged(j.sub)
        /\ j.details.status = "authorized" /\ j.details.amount # Nothing
              => Covered(j.details.amount) /\ j.details.amount \in Plans
    BY PaidArePlans DEF TaskInv, Answered, Details
  <2>2. j.details.status = "authorized" /\ j.details.amount # Nothing
              => Covered(j.details.amount)'
    BY <2>1, CoveredKept
  <2> QED
    BY <2>1, <2>2 DEF Answered, Grows
<1>3. Writing(j)'
  BY GivesKept DEF TaskInv, Writing, Grows, WritesOK
<1>4. Opening(j)' /\ Changing(j)' /\ Knows(j)'
  BY DEF TaskInv, Opening, Changing, Knows, Grows, TaskOK
<1> QED
  BY <1>1, <1>2, <1>3, <1>4 DEF TaskInv

(* The request of one worker goes on or ends.                              *)
LEMMA GoesOn ==
    ASSUME BillingInv, NEW w \in Workers, NEW j, Goes(w, j),
           j # Nothing => TaskOK(j) /\ TaskInv(j)',
           Grows, TablesOK', \A s \in Subs : SubInv(s)', LicenseInv',
           \A n \in Notices : EventInv(n)'
    PROVE  BillingInv'
<1>1. task'[w] = j /\ (\A v \in Workers \ {w} : task'[v] = task[v]) /\ DOMAIN task' = Workers
  BY DEF BillingInv, TasksOK, Goes
<1>2. TasksOK'
  BY <1>1 DEF BillingInv, TasksOK
<1>3. ASSUME NEW v \in Workers, task'[v] # Nothing PROVE TaskInv(task[v])'
  <2>1. CASE v = w
    <3> SUFFICES ASSUME NEW i, i = task'[v] PROVE TaskInv(i)'
      BY
         DEF TaskInv, Asking, Answered, Writing, Opening, Changing, Knows, Gives, Known,
             Charged,
             Covered
    <3> QED
      BY <1>1, <1>3, <2>1
  <2>2. CASE v # w
    <3>1. TaskOK(task[v]) /\ TaskInv(task[v]) /\ task'[v] = task[v] /\ TablesOK
      BY <1>1, <1>3, <2>2 DEF BillingInv, TasksOK
    <3> SUFFICES ASSUME NEW i, i = task'[v] PROVE TaskInv(i)'
      BY
         DEF TaskInv, Asking, Answered, Writing, Opening, Changing, Knows, Gives, Known,
             Charged,
             Covered
    <3>2. TaskOK(i) /\ TaskInv(i)
      BY <3>1
    <3> QED
      BY <3>1, <3>2, TaskKept
  <2> QED
    BY <2>1, <2>2
<1> QED
  BY <1>2, <1>3 DEF BillingInv

LEMMA NoTask ==
    ASSUME BillingInv, task' = task,
           Grows, TablesOK', \A s \in Subs : SubInv(s)', LicenseInv',
           \A n \in Notices : EventInv(n)'
    PROVE  BillingInv'
<1>1. TasksOK'
  BY DEF BillingInv, TasksOK
<1>2. ASSUME NEW v \in Workers, task'[v] # Nothing PROVE TaskInv(task[v])'
  <2> SUFFICES ASSUME NEW i, i = task'[v] PROVE TaskInv(i)'
    BY
       DEF TaskInv, Asking, Answered, Writing, Opening, Changing, Knows, Gives, Known,
           Charged,
           Covered
  <2>1. TaskOK(i) /\ TaskInv(i) /\ TablesOK
    BY <1>2 DEF BillingInv, TasksOK
  <2> QED
    BY <2>1, TaskKept
<1> QED
  BY <1>1, <1>2 DEF BillingInv

LEMMA SubKept ==
    ASSUME TablesOK, TablesOK', Grows, NEW s \in Subs, SubInv(s),
           provider'[s] = provider[s], session'[s] = session[s]
    PROVE  SubInv(s)'
<1>1. \A p \in Plans : Covered(p) => Covered(p)'
  BY CoveredKept
<1>2. session[s].plan \in Plans \cup {Nothing} /\ provider[s].amount \in Plans \cup {Nothing}
  BY PaidArePlans DEF TablesOK, SessionRow, ProviderRow
<1> QED
  BY <1>1, <1>2, PaidArePlans DEF SubInv, Known, Charged

LEMMA EventsKept ==
    ASSUME BillingInv, Grows, event' = event
    PROVE  \A n \in Notices : EventInv(n)'
BY DEF BillingInv, EventInv, Grows

LEMMA LicenseKept ==
    ASSUME BillingInv, TablesOK', Grows, license' = license, forced' = forced
    PROVE  LicenseInv'
<1>1. /\ TablesOK /\ LicenseInv /\ license.plan \in Plans /\ license.ref \in Subs \cup {NoSub}
  BY DEF BillingInv, TablesOK, License
<1>2. Rank[Highest(billed, forced)] <= Rank[Highest(billed', forced)]
  BY <1>1, HighestPlan, Ranks DEF TablesOK, Grows
<1>3. Rank[license.plan] <= Rank[Highest(billed', forced')]
  BY <1>1, <1>2, HighestPlan, Ranks DEF LicenseInv, TablesOK
<1> QED
  BY <1>1, <1>3 DEF LicenseInv, Grows

(* A step that writes the licence only.                                    *)
LicenseOnly ==
    /\ UNCHANGED <<now, session, newer, provider, event, billed>>
    /\ requests' \in 0 .. MaxRequests
LEMMA LicenseStep ==
    ASSUME BillingInv, LicenseOnly, license' \in License, forced' \in Plans,
           forced # "FREE" => forced' # "FREE", LicenseInv'
    PROVE  /\ TablesOK' /\ Grows /\ \A s \in Subs : SubInv(s)'
           /\ LicenseInv' /\ \A n \in Notices : EventInv(n)'
<1>1. TablesOK'
  BY DEF BillingInv, TablesOK, LicenseOnly
<1>2. Grows
  BY Ranks DEF BillingInv, TablesOK, LicenseOnly, Grows, Known, Charged
<1>3. \A s \in Subs : SubInv(s)'
  BY <1>1, <1>2, SubKept DEF BillingInv, LicenseOnly
<1>4. \A n \in Notices : EventInv(n)'
  BY <1>2, EventsKept DEF LicenseOnly
<1> QED
  BY <1>1, <1>2, <1>3, <1>4

(* A step that writes no row.                                              *)
Reads == LicenseOnly /\ license' = license /\ forced' = forced
LEMMA ReadStep ==
    ASSUME BillingInv, Reads
    PROVE  /\ TablesOK' /\ Grows /\ \A s \in Subs : SubInv(s)'
           /\ LicenseInv' /\ \A n \in Notices : EventInv(n)'
<1>1. TablesOK' /\ Grows
  BY Ranks DEF BillingInv, TablesOK, Reads, LicenseOnly, Grows, Known, Charged
<1>2. LicenseInv'
  BY <1>1, LicenseKept DEF Reads
<1> QED
  BY <1>2, LicenseStep DEF Reads, BillingInv, TablesOK

LEMMA AskedOnce == ASSUME TablesOK, Asked PROVE requests' \in 0 .. MaxRequests
BY BillingAssumption DEF TablesOK, Asked

(***************************************************************************)
(* One lemma for each action.                                              *)
(***************************************************************************)
LEMMA Worker ==
    ASSUME BillingInv, NEW w \in Workers, task[w] # Nothing
    PROVE  TaskOK(task[w]) /\ TaskInv(task[w]) /\ TablesOK
BY DEF BillingInv, TasksOK

LEMMA ReadGoes ==
    ASSUME BillingInv, Reads, NEW w \in Workers, NEW j, Goes(w, j),
           j # Nothing => TaskOK(j) /\ TaskInv(j)
    PROVE  BillingInv'
<1>1. TablesOK /\ TablesOK' /\ Grows
  BY ReadStep DEF BillingInv
<1>2. j # Nothing => TaskInv(j)'
  BY <1>1, TaskKept
<1> QED
  BY <1>1, <1>2, ReadStep, GoesOn

LEMMA AskStep == ASSUME BillingInv, NEW w \in Workers, Ask(w) PROVE BillingInv'
<1> SUFFICES ASSUME NEW j, j = task[w], NEW d, d = Answer(j),
                    NEW i, i = [j EXCEPT !.phase = "decide", !.details = d]
             PROVE  BillingInv'
  OBVIOUS
<1>1. /\ j # Nothing /\ j.kind \in {"webhook", "refresh"} /\ j.phase = "ask" /\ Goes(w, i)
      /\ TaskOK(j) /\ TaskInv(j) /\ TablesOK
  BY Worker DEF Ask, Runs
<1>2. Reads
  BY DEF Ask, Reads, LicenseOnly, BillingInv, TablesOK
<1>3. j.sub \in Subs /\ Known(j.sub) /\ SubInv(j.sub) /\ provider[j.sub] \in ProviderRow
  BY <1>1 DEF TaskInv, Asking, TablesOK, BillingInv
<1>4. /\ d \in Details /\ d.sub = j.sub
      /\ d.status \in {"authorized", "paused"} => Charged(j.sub)
      /\ d.status = "authorized" /\ d.amount # Nothing => Covered(d.amount)
  <2>1. CASE d = SubscriptionDetails(j.sub)
    BY <1>3, <2>1 DEF SubscriptionDetails, Details, ProviderRow, Known, SubInv, Periods
  <2>2. CASE d = PaymentDetails(j.sub)
    BY <1>3, <2>2, BillingAssumption
       DEF PaymentDetails, Details, ProviderRow, Known, SubInv, Periods, ProviderStatuses
  <2> QED
    BY <2>1, <2>2 DEF Answer
<1>5. TaskOK(i)
  BY <1>1, <1>4 DEF TaskOK, IsTaskRecord, Phases
<1>6. TaskInv(i)
  BY <1>1, <1>3, <1>4
     DEF TaskInv, Asking, Answered, Writing, Opening, Changing, Knows, TaskOK,
         IsTaskRecord
<1> QED
  BY <1>1, <1>2, <1>5, <1>6, ReadGoes

(* A step of a worker that writes its notification only.                   *)
NoticeOnly ==
    /\ UNCHANGED <<now, license, session, newer, provider, billed, forced>>
    /\ requests' \in 0 .. MaxRequests
LEMMA NoticeGoes ==
    ASSUME BillingInv, NoticeOnly, event' \in [Notices -> EventRow],
           \A n \in Notices : event'[n].topic # Nothing =>
               event'[n].sub \in Subs /\ Known(event'[n].sub),
           NEW w \in Workers, NEW j, Goes(w, j), j # Nothing => TaskOK(j) /\ TaskInv(j)
    PROVE  BillingInv'
<1>1. TablesOK /\ TablesOK' /\ Grows
  BY Ranks DEF BillingInv, TablesOK, NoticeOnly, Grows, Known, Charged
<1>2. j # Nothing => TaskInv(j)'
  BY <1>1, TaskKept
<1>3. \A s \in Subs : SubInv(s)'
  BY <1>1, SubKept DEF BillingInv, NoticeOnly
<1>4. LicenseInv'
  BY <1>1, LicenseKept DEF NoticeOnly
<1>5. \A n \in Notices : EventInv(n)'
  BY DEF EventInv, NoticeOnly, Known
<1> QED
  BY <1>1, <1>2, <1>3, <1>4, <1>5, GoesOn

LEMMA AskFailsStep == ASSUME BillingInv, NEW w \in Workers, AskFails(w) PROVE BillingInv'
<1>1. TaskOK(task[w]) /\ TablesOK /\ Goes(w, Nothing)
  BY Worker DEF AskFails, Runs, Ends, Goes
<1>2. NoticeOnly
  BY <1>1 DEF AskFails, NoticeOnly, TablesOK
<1>3. /\ event' \in [Notices -> EventRow]
      /\ \A n \in Notices : event'[n].topic = event[n].topic /\ event'[n].sub = event[n].sub
  BY <1>1 DEF AskFails, TablesOK, EventRow, TaskOK
<1>4. \A n \in Notices : EventInv(n)
  BY DEF BillingInv
<1>5. \A n \in Notices : event'[n].topic # Nothing =>
               event'[n].sub \in Subs /\ Known(event'[n].sub)
  BY <1>3, <1>4 DEF EventInv
<1> QED
  BY <1>1, <1>2, <1>3, <1>5, NoticeGoes

LEMMA MarkEventStep == ASSUME BillingInv, NEW w \in Workers, MarkEvent(w) PROVE BillingInv'
<1>1. TaskOK(task[w]) /\ TablesOK /\ Goes(w, Nothing) /\ TaskInv(task[w])
  BY Worker DEF MarkEvent, Runs, Ends, Goes
<1>2. NoticeOnly
  BY <1>1 DEF MarkEvent, NoticeOnly, TablesOK
<1>3. /\ event' \in [Notices -> EventRow]
      /\ \A n \in Notices : event'[n].topic = event[n].topic /\ event'[n].sub = event[n].sub
  BY <1>1 DEF MarkEvent, TablesOK, EventRow, TaskOK, Runs, TaskInv, Knows, Settled
<1>4. \A n \in Notices : EventInv(n)
  BY DEF BillingInv
<1>5. \A n \in Notices : event'[n].topic # Nothing =>
               event'[n].sub \in Subs /\ Known(event'[n].sub)
  BY <1>3, <1>4 DEF EventInv
<1> QED
  BY <1>1, <1>2, <1>3, <1>5, NoticeGoes

LEMMA ReceiveNoticeStep ==
    ASSUME BillingInv, NEW w \in Workers, NEW n \in Notices, NEW topic \in Topics,
           NEW s \in Subs, ReceiveNotice(w, n, topic, s)
    PROVE  BillingInv'
<1> SUFFICES ASSUME NEW j, j = [NewTask("webhook", "ask") EXCEPT !.notice = n, !.sub = s]
             PROVE  BillingInv'
  OBVIOUS
<1>1. TablesOK /\ Goes(w, j) /\ \A m \in Notices : EventInv(m)
  BY DEF ReceiveNotice, BillingInv
<1>2. NoticeOnly
  BY <1>1 DEF ReceiveNotice, NoticeOnly, TablesOK
<1>3. Known(s)
  BY <1>1 DEF ReceiveNotice, Named, EventInv, Known
<1>4. event[n].status # "NONE" => event[n].status \in {"RECEIVED", "FAILED_RETRYABLE"}
  BY <1>1 DEF ReceiveNotice, TablesOK, EventRow, Settled
<1>5. event' \in [Notices -> EventRow]
  <2> DEFINE r == [event[n] EXCEPT !.topic = topic, !.sub = s,
                                   !.status = IF @ = "NONE" THEN "RECEIVED" ELSE @]
  <2>1. event' = [event EXCEPT ![n] = r]
    BY <1>1 DEF ReceiveNotice, TablesOK, EventRow
  <2>2. r \in EventRow
    BY <1>1, <1>4 DEF TablesOK, EventRow
  <2> HIDE DEF r
  <2> QED
    BY <1>1, <2>1, <2>2 DEF TablesOK
<1>6. \A m \in Notices : event'[m].topic # Nothing =>
               event'[m].sub \in Subs /\ Known(event'[m].sub)
  BY <1>1, <1>3 DEF ReceiveNotice, TablesOK, EventRow, EventInv
<1>7. /\ TaskOK(j) /\ j.kind = "webhook" /\ j.phase = "ask" /\ j.sub = s /\ j.notice = n
      /\ j.prior = NoSub
  BY DEF NewTask, TaskOK, IsTaskRecord, Plans, Kinds, Phases
<1>8. TaskInv(j)
  BY <1>3, <1>7 DEF TaskInv, Asking, Answered, Writing, Opening, Changing, Knows
<1> QED
  BY <1>1, <1>2, <1>5, <1>6, <1>7, <1>8, NoticeGoes

LEMMA RequestDiesStep == ASSUME BillingInv, NEW w \in Workers, RequestDies(w) PROVE BillingInv'
<1>1. Reads /\ Goes(w, Nothing)
  BY DEF RequestDies, Reads, LicenseOnly, BillingInv, TablesOK, Ends, Goes
<1> QED
  BY <1>1, ReadGoes

(***************************************************************************)
(* What a decision gives is charged.                                       *)
(***************************************************************************)
Answers(d) ==
    /\ d \in Details /\ Known(d.sub)
    /\ d.status \in {"authorized", "paused"} => Charged(d.sub)
    /\ d.status = "authorized" /\ d.amount # Nothing => Covered(d.amount)
Decides(d, x) ==
    /\ WritesOK(x) /\ Gives(x.fields)
    /\ x.action # "ignored_unknown" =>
         x.session # "NONE" /\ (x.session = "COMPLETED" => Charged(d.sub))

LEMMA ActivatedGives ==
    ASSUME BillingInv, NEW d, Answers(d), d.status = "authorized"
    PROVE  Decides(d, Activated(d))
<1>1. /\ d.sub \in Subs /\ d.periodEnd \in Periods /\ Charged(d.sub) /\ SubInv(d.sub)
      /\ session[d.sub] \in SessionRow /\ license \in License
  BY DEF Answers, Details, Periods, BillingInv, TablesOK
<1>2. GrantedPlan(d) \in PaidPlans /\ Covered(GrantedPlan(d))
  BY <1>1, BillingAssumption
     DEF GrantedPlan, UpgradeMatchesAmount, SubInv, Answers, PaidPlans, Known
<1> SUFFICES ASSUME NEW p, p = GrantedPlan(d), NEW f,
                    f = [plan |-> p, status |-> "ACTIVE", expiresAt |-> 0, ref |-> d.sub,
                         periodEnd |-> d.periodEnd, cancelAtEnd |-> FALSE, pending |-> Nothing]
             PROVE  Decides(d, Written("activated", "COMPLETED", f))
  BY DEF Activated
<1>3. FieldsOK(f)
  BY <1>1, <1>2, BillingAssumption, PaidArePlans
     DEF FieldsOK, FieldNames, LicenseStatuses, Periods
<1>4. Gives(f)
  BY <1>1, <1>2, BillingAssumption DEF Gives
<1> QED
  BY <1>1, <1>3, <1>4 DEF Decides, WritesOK, Written, SessionStatuses

LEMMA CheckoutFailedGives ==
    ASSUME BillingInv, NEW d, Answers(d)
    PROVE  Decides(d, CheckoutFailed(d))
<1> SUFFICES ASSUME NEW p, p = IF MatchesPending(d) THEN Nothing ELSE license.pending,
                    NEW f, f = [pending |-> p],
                    NEW s, s = IF d.status = "cancelled" THEN "CANCELLED" ELSE "FAILED"
             PROVE  Decides(d, Written("unchanged", s, f))
  BY DEF CheckoutFailed
<1>1. p \in PaidPlans \cup {Nothing}
  BY DEF BillingInv, TablesOK, License
<1>2. DOMAIN f = {"pending"} /\ f.pending = p
  BY SMT
<1>3. FieldsOK(f) /\ Gives(f)
  BY <1>1, <1>2 DEF FieldsOK, Gives, FieldNames
<1> QED
  BY <1>3 DEF Decides, WritesOK, Written, SessionStatuses

LEMMA CancelledGives ==
    ASSUME BillingInv, NEW d, Answers(d), d.status = "cancelled", ~FailsCheckout(d)
    PROVE  Decides(d, Cancelled(d))
<1>1. /\ d.sub \in Subs /\ d.periodEnd \in Periods /\ license \in License /\ LicenseInv
      /\ license.ref = d.sub
  BY
     DEF Answers, Details, Periods, BillingInv, TablesOK, FailsCheckout, Different,
         License
<1>2. Charged(d.sub)
  BY <1>1, BillingAssumption DEF LicenseInv
<1>3. CASE Future(PeriodEnd(d))
  <2> SUFFICES ASSUME NEW e, e = PeriodEnd(d), NEW f,
                      f = [expiresAt |-> 0, ref |-> d.sub, periodEnd |-> e, cancelAtEnd |-> TRUE]
               PROVE  Decides(d, Written("unchanged", "CANCELLED", f))
    BY <1>3 DEF Cancelled
  <2>1. e \in Periods
    BY <1>1 DEF PeriodEnd, License, Periods
  <2>2. FieldsOK(f) /\ Gives(f)
    BY <1>1, <1>2, <2>1, BillingAssumption DEF FieldsOK, Gives, FieldNames, Periods
  <2> QED
    BY <2>2 DEF Decides, WritesOK, Written, SessionStatuses
<1>4. CASE ~Future(PeriodEnd(d))
  <2> SUFFICES ASSUME NEW f, f = FreeFields
               PROVE  Decides(d, Written("downgraded", "CANCELLED", f))
    BY <1>4 DEF Cancelled
  <2>1. FieldsOK(f) /\ f.plan = "FREE" /\ f.ref = NoSub /\ DOMAIN f = FieldNames
    BY FreeFieldsOK
  <2>2. Gives(f)
    BY <2>1, Ranks DEF Gives, FieldNames, Covered, BillingInv, TablesOK
  <2> QED
    BY <2>1, <2>2 DEF Decides, WritesOK, Written, SessionStatuses
<1> QED
  BY <1>3, <1>4

LEMMA PausedGives ==
    ASSUME BillingInv, NEW d, Answers(d), d.status = "paused"
    PROVE  Decides(d, Paused(d))
<1>1. /\ d.sub \in Subs /\ d.periodEnd \in Periods /\ Charged(d.sub) /\ license \in License
  BY DEF Answers, Details, Periods, BillingInv, TablesOK
<1> SUFFICES ASSUME NEW e, e = IF Future(PeriodEnd(d)) THEN PeriodEnd(d) ELSE license.periodEnd,
                    NEW f, f = [ref |-> d.sub, periodEnd |-> e]
             PROVE  Decides(d, Written("unchanged", "PENDING", f))
  BY DEF Paused
<1>2. e \in Periods
  BY <1>1 DEF PeriodEnd, License, Periods
<1>3. FieldsOK(f) /\ Gives(f)
  BY <1>1, <1>2, BillingAssumption DEF FieldsOK, Gives, FieldNames, Periods
<1> QED
  BY <1>3 DEF Decides, WritesOK, Written, SessionStatuses

LEMMA DecisionGives ==
    ASSUME BillingInv, NEW d, Answers(d)
    PROVE  Decides(d, Decision(d))
<1>1. session[d.sub].status \in SessionStatuses /\ d.sub \in Subs
  BY DEF Answers, Details, BillingInv, TablesOK, SessionRow
<1>2. WritesOK(Written("ignored_unknown", session[d.sub].status, NoFields))
  BY <1>1, NoFieldsOK DEF WritesOK, Written
<1>3. Decides(d, Written("ignored_unknown", session[d.sub].status, NoFields))
  <2>1. Written("ignored_unknown", session[d.sub].status, NoFields).fields = NoFields
    BY DEF Written
  <2>2. Gives(NoFields)
    BY NoFieldsOK DEF Gives
  <2> QED
    BY <1>2, <2>1, <2>2 DEF Decides, Written
<1>4. Decides(d, Written("unchanged", "PENDING", NoFields))
  <2>1. WritesOK(Written("unchanged", "PENDING", NoFields))
    BY NoFieldsOK DEF WritesOK, Written, SessionStatuses
  <2>2. Gives(NoFields)
    BY NoFieldsOK DEF Gives
  <2> QED
    BY <2>1, <2>2 DEF Decides, Written
<1> QED
  BY <1>3, <1>4, ActivatedGives, CheckoutFailedGives, CancelledGives, PausedGives
     DEF Decision

LEMMA DecideStep == ASSUME BillingInv, NEW w \in Workers, Decide(w) PROVE BillingInv'
<1> SUFFICES ASSUME NEW j, j = task[w], NEW x, x = Decision(j.details),
                    NEW i, i = [j EXCEPT !.phase = "write", !.details = Nothing, !.writes = x]
             PROVE  BillingInv'
  OBVIOUS
<1>1. /\ j # Nothing /\ j.phase = "decide" /\ Goes(w, i)
      /\ TaskOK(j) /\ TaskInv(j) /\ TablesOK
  BY Worker DEF Decide, Runs
<1>2. Reads
  BY DEF Decide, Reads, LicenseOnly, BillingInv, TablesOK
<1>3. Answers(j.details) /\ j.details.sub = j.sub /\ j.sub \in Subs
  BY <1>1 DEF TaskInv, Answered, Answers, Details
<1>4. Decides(j.details, x)
  BY <1>3, DecisionGives
<1>5. TaskOK(i)
  BY <1>1, <1>4 DEF TaskOK, IsTaskRecord, Phases, Decides
<1>6. TaskInv(i)
  BY <1>1, <1>3, <1>4
     DEF TaskInv, Asking, Answered, Writing, Opening, Changing, Knows, TaskOK,
         IsTaskRecord,
         Decides, Answers
<1> QED
  BY <1>1, <1>2, <1>5, <1>6, ReadGoes

(***************************************************************************)
(* Steps that write the licence.                                           *)
(***************************************************************************)
LEMMA GivenLicense ==
    ASSUME BillingInv, NEW f, FieldsOK(f), Gives(f), license' = WithFields(license, f),
           UNCHANGED <<provider, billed, forced>>
    PROVE  license' \in License /\ LicenseInv'
<1>1. /\ license \in License /\ LicenseInv /\ billed \in Plans /\ forced \in Plans
  BY DEF BillingInv, TablesOK
<1>2. license' \in License
  BY <1>1, Updated
<1>3. /\ license'.plan = IF "plan" \in DOMAIN f THEN f.plan ELSE license.plan
      /\ license'.ref = IF "ref" \in DOMAIN f THEN f.ref ELSE license.ref
  BY <1>1, UpdatedFields
<1>4. Rank[license'.plan] <= Rank[Highest(billed, forced)]
  <2>1. CASE "plan" \in DOMAIN f
    BY <1>1, <1>3, <2>1, HighestPlan, Ranks DEF Gives, Covered, FieldsOK
  <2>2. CASE "plan" \notin DOMAIN f
    BY <1>1, <1>3, <2>2 DEF LicenseInv
  <2> QED
    BY <2>1, <2>2
<1>5. license'.ref # NoSub => Charged(license'.ref)
  BY <1>1, <1>3 DEF LicenseInv, Gives
<1>6. license'.plan # "FREE" => license'.ref # NoSub \/ forced # "FREE"
  BY <1>1, <1>3 DEF LicenseInv, Gives
<1> QED
  BY <1>2, <1>4, <1>5, <1>6 DEF LicenseInv, Charged

LEMMA FreeGives == ASSUME BillingInv PROVE FieldsOK(FreeFields) /\ Gives(FreeFields)
BY FreeFieldsOK, Ranks DEF Gives, FieldNames, Covered, BillingInv, TablesOK

LEMMA LicenseRow ==
    ASSUME NEW plan \in Plans, NEW status \in LicenseStatuses,
           NEW pending \in PaidPlans \cup {Nothing}, NEW ref \in Subs \cup {NoSub},
           NEW end \in Periods, NEW cancel \in BOOLEAN, NEW expiry \in Periods
    PROVE  [plan |-> plan, status |-> status, pending |-> pending, ref |-> ref,
            periodEnd |-> end, cancelAtEnd |-> cancel, expiresAt |-> expiry] \in License
BY DEF License, Periods

LEMMA LicenseFields ==
    ASSUME NEW row \in License
    PROVE  /\ row.plan \in Plans /\ row.status \in LicenseStatuses
           /\ row.pending \in PaidPlans \cup {Nothing} /\ row.ref \in Subs \cup {NoSub}
           /\ row.periodEnd \in Periods /\ row.cancelAtEnd \in BOOLEAN /\ row.expiresAt \in Periods
BY DEF License, Periods

LEMMA NullDate == 0 \in Periods
BY BillingAssumption DEF Periods

(* A licence whose plan and reference stay or whose plan becomes lower.    *)
LEMMA ChangedLicense ==
    ASSUME BillingInv, UNCHANGED <<provider, billed, forced>>, license' \in License,
           license'.ref = license.ref,
           Rank[license'.plan] <= Rank[license.plan]
    PROVE  LicenseInv'
<1>1. /\ license \in License /\ LicenseInv /\ billed \in Plans /\ forced \in Plans
  BY DEF BillingInv, TablesOK
<1>2. /\ license.plan \in Plans /\ license'.plan \in Plans
  BY <1>1 DEF License
<1>3. license.plan = "FREE" => license'.plan = "FREE"
  BY <1>2 DEF Plans, Rank
<1>4. Rank[license'.plan] <= Rank[Highest(billed, forced)]
  BY <1>1, <1>2, HighestPlan, Ranks DEF LicenseInv
<1> QED
  BY <1>1, <1>3, <1>4 DEF LicenseInv, Charged

LEMMA TransitionedLicense ==
    ASSUME BillingInv, UNCHANGED <<provider, billed, forced>>, license' = Transitioned
    PROVE  license' \in License /\ LicenseInv'
<1>0. license \in License
  BY DEF BillingInv, TablesOK
<1>1. CASE license' = license
  BY <1>0, <1>1, ChangedLicense, Ranks DEF License
<1>2. CASE license' = WithFields(license, FreeFields)
  BY <1>2, GivenLicense, FreeGives
<1>3. CASE /\ license.plan = "PRO"
           /\ license' = [license EXCEPT !.plan = "BASIC", !.status = "ACTIVE", !.expiresAt = 0,
                                         !.pending = Nothing]
  <2>1. license' \in License /\ license'.ref = license.ref /\ license'.plan = "BASIC"
    <3>1. license' = [plan |-> "BASIC", status |-> "ACTIVE", pending |-> Nothing,
                      ref |-> license.ref, periodEnd |-> license.periodEnd,
                      cancelAtEnd |-> license.cancelAtEnd, expiresAt |-> 0]
      BY <1>0, <1>3 DEF License
    <3> QED
      BY <1>0, <3>1, LicenseRow, LicenseFields, NullDate DEF Plans, LicenseStatuses
  <2>2. Rank["BASIC"] <= Rank["PRO"]
    BY DEF Rank
  <2> QED
    BY <1>3, <2>1, <2>2, ChangedLicense
<1> QED
  BY <1>1, <1>2, <1>3 DEF Transitioned

LEMMA LicenseGoes ==
    ASSUME BillingInv, LicenseOnly, forced' = forced, license' \in License, LicenseInv',
           NEW w \in Workers, NEW j, Goes(w, j), j # Nothing => TaskOK(j) /\ TaskInv(j)
    PROVE  BillingInv'
<1>1. TablesOK /\ TablesOK' /\ Grows
  BY LicenseStep DEF BillingInv, TablesOK
<1>2. j # Nothing => TaskInv(j)'
  BY <1>1, TaskKept
<1> QED
  BY <1>1, <1>2, LicenseStep, GoesOn DEF BillingInv, TablesOK

LEMMA LicenseAlone ==
    ASSUME BillingInv, LicenseOnly, forced' \in Plans, forced # "FREE" => forced' # "FREE",
           license' \in License, LicenseInv', task' = task
    PROVE  BillingInv'
BY LicenseStep, NoTask

LEMMA RefreshSettlesStep ==
    ASSUME BillingInv, NEW w \in Workers, RefreshSettles(w) PROVE BillingInv'
<1>1. Goes(w, Nothing)
  BY DEF RefreshSettles, Ends, Goes
<1>2. LicenseOnly /\ forced' = forced
  BY DEF RefreshSettles, LicenseOnly, BillingInv, TablesOK
<1>3. license' \in License /\ LicenseInv'
  BY TransitionedLicense DEF RefreshSettles
<1> QED
  BY <1>1, <1>2, <1>3, LicenseGoes

LEMMA CancelSettlesStep ==
    ASSUME BillingInv, NEW w \in Workers, CancelSettles(w) PROVE BillingInv'
<1>1. Goes(w, Nothing)
  BY DEF CancelSettles, Ends, Goes
<1>2. LicenseOnly /\ forced' = forced
  BY DEF CancelSettles, LicenseOnly, BillingInv, TablesOK
<1>3. license' \in License /\ LicenseInv'
  <2>1. CASE license' = [license EXCEPT !.cancelAtEnd = TRUE]
    <3>1. license' \in License /\ license'.ref = license.ref /\ license'.plan = license.plan
      BY <2>1 DEF BillingInv, TablesOK, License
    <3> QED
      BY <3>1, ChangedLicense, Ranks DEF License, CancelSettles
  <2>2. CASE license' = WithFields(license, FreeFields)
    BY <2>2, GivenLicense, FreeGives DEF CancelSettles
  <2> QED
    BY <2>1, <2>2 DEF CancelSettles
<1> QED
  BY <1>1, <1>2, <1>3, LicenseGoes

LEMMA ResumeSettlesStep ==
    ASSUME BillingInv, NEW w \in Workers, ResumeSettles(w) PROVE BillingInv'
<1>1. Goes(w, Nothing)
  BY DEF ResumeSettles, Ends, Goes
<1>2. LicenseOnly /\ forced' = forced
  BY DEF ResumeSettles, LicenseOnly, BillingInv, TablesOK
<1>3. license' \in License /\ license'.ref = license.ref /\ license'.plan = license.plan
  BY DEF ResumeSettles, BillingInv, TablesOK, License
<1>4. LicenseInv'
  BY <1>3, ChangedLicense, Ranks DEF License, ResumeSettles
<1> QED
  BY <1>1, <1>2, <1>3, <1>4, LicenseGoes

LEMMA ForcePlanStep ==
    ASSUME BillingInv, NEW plan \in ForcedPlans, NEW status \in ForcedStatuses,
           NEW clear \in BOOLEAN, ForcePlan(plan, status, clear)
    PROVE  BillingInv'
<1>1. /\ plan \in Plans /\ status \in LicenseStatuses /\ license \in License /\ LicenseInv
      /\ billed \in Plans /\ forced \in Plans
  BY BillingAssumption DEF Plans, LicenseStatuses, BillingInv, TablesOK
<1>2. /\ forced' = Highest(forced, plan) /\ forced' \in Plans
      /\ forced # "FREE" => forced' # "FREE"
  BY <1>1, HighestPlan DEF ForcePlan, Highest, Plans, Rank
<1>3. LicenseOnly /\ task' = task
  BY AskedOnce DEF ForcePlan, LicenseOnly, BillingInv
<1>4. /\ license' \in License /\ license'.plan = plan
      /\ license'.ref \in {license.ref, NoSub}
  <2>1. license' = [plan |-> plan, status |-> status, pending |-> Nothing,
                    ref |-> license'.ref, periodEnd |-> license'.periodEnd,
                    cancelAtEnd |-> FALSE, expiresAt |-> license.expiresAt]
    BY <1>1 DEF ForcePlan, License
  <2>2. /\ license'.ref \in {license.ref, NoSub}
        /\ license'.periodEnd \in {license.periodEnd, 0}
    BY <1>1 DEF ForcePlan, License
  <2>3. license'.ref \in Subs \cup {NoSub} /\ license'.periodEnd \in Periods
    BY <1>1, <2>2, LicenseFields, NullDate
  <2>4. license' \in License
    <3> SUFFICES ASSUME NEW r, r = license'.ref, NEW e, e = license'.periodEnd,
                        NEW x, x = license.expiresAt
                 PROVE  license' \in License
      OBVIOUS
    <3>1. license' = [plan |-> plan, status |-> status, pending |-> Nothing, ref |-> r,
                      periodEnd |-> e, cancelAtEnd |-> FALSE, expiresAt |-> x]
      BY <2>1
    <3>2. r \in Subs \cup {NoSub} /\ e \in Periods /\ x \in Periods
      BY <1>1, <2>3, LicenseFields
    <3> QED
      BY <1>1, <3>1, <3>2 DEF License, Periods
  <2>5. license'.plan = plan
    BY <2>1
  <2> QED
    BY <2>2, <2>4, <2>5
<1>5. LicenseInv'
  <2>1. Rank[plan] <= Rank[Highest(billed, forced')]
    <3>1. Rank[plan] <= Rank[forced'] /\ Rank[forced'] <= Rank[Highest(billed, forced')]
      BY <1>1, <1>2, HighestPlan
    <3>2. Highest(billed, forced') \in Plans
      BY <1>1, <1>2, HighestPlan
    <3> QED
      BY <1>1, <1>2, <3>1, <3>2, Ranks
  <2>2. plan # "FREE" => forced' # "FREE"
    BY <1>1, <1>2, HighestPlan
  <2>3. billed' = billed /\ provider' = provider
    BY DEF ForcePlan
  <2> QED
    BY <1>1, <1>4, <2>1, <2>2, <2>3 DEF LicenseInv, Charged
<1> QED
  BY <1>2, <1>3, <1>4, <1>5, LicenseAlone

LEMMA CancelLocalStep ==
    ASSUME BillingInv, NEW atPeriodEnd \in BOOLEAN, CancelLocal(atPeriodEnd) PROVE BillingInv'
<1>1. license \in License
  BY DEF BillingInv, TablesOK
<1>2. LicenseOnly /\ task' = task /\ forced' = forced /\ forced \in Plans
  BY AskedOnce DEF CancelLocal, LicenseOnly, BillingInv, TablesOK
<1>3. /\ license' \in License /\ license'.plan \in {license.plan, "FREE"}
      /\ license'.ref = license.ref
  <2>1. CASE license' = [license EXCEPT !.cancelAtEnd = TRUE]
    BY <1>1, <2>1 DEF License
  <2>2. CASE license' = [license EXCEPT !.plan = "FREE", !.status = "ACTIVE", !.expiresAt = 0,
                                        !.cancelAtEnd = FALSE, !.pending = Nothing]
    <3>1. license' = [plan |-> "FREE", status |-> "ACTIVE", pending |-> Nothing,
                      ref |-> license.ref, periodEnd |-> license.periodEnd,
                      cancelAtEnd |-> FALSE, expiresAt |-> 0]
      BY <1>1, <2>2 DEF License
    <3> QED
      BY <1>1, <3>1, LicenseRow, LicenseFields, NullDate DEF Plans, LicenseStatuses
  <2> QED
    BY <2>1, <2>2 DEF CancelLocal
<1>4. Rank[license'.plan] <= Rank[license.plan]
  BY <1>1, <1>3, Ranks DEF License
<1>5. LicenseInv'
  BY <1>3, <1>4, ChangedLicense DEF CancelLocal
<1> QED
  BY <1>2, <1>3, <1>5, LicenseAlone

LEMMA OtherLicenseStep ==
    ASSUME BillingInv, ExtendInEmergency \/ Suspend \/ Reactivate \/ ExpireLicenses
    PROVE  BillingInv'
<1>1. license \in License /\ now \in 0 .. MaxTime
  BY DEF BillingInv, TablesOK
<1>2. /\ LicenseOnly /\ task' = task /\ forced' = forced /\ forced \in Plans
  BY AskedOnce
     DEF ExtendInEmergency, Suspend, Reactivate, ExpireLicenses, LicenseOnly, BillingInv,
                   TablesOK
<1>3. license' \in License /\ license'.plan = license.plan /\ license'.ref = license.ref
  <2>1. CASE ExtendInEmergency
    <3>1. license'.status \in {"ACTIVE", license.status} /\ license'.expiresAt \in Periods
      BY <1>1, <2>1, BillingAssumption DEF ExtendInEmergency, License, Periods
    <3>2. license' = [plan |-> license.plan, status |-> license'.status,
                      pending |-> license.pending, ref |-> license.ref,
                      periodEnd |-> license.periodEnd, cancelAtEnd |-> license.cancelAtEnd,
                      expiresAt |-> license'.expiresAt]
      BY <1>1, <2>1 DEF ExtendInEmergency, License
    <3>3. license'.status \in LicenseStatuses
      BY <1>1, <3>1, LicenseFields DEF LicenseStatuses
    <3>4. license' \in License
      BY <1>1, <3>1, <3>2, <3>3, LicenseRow, LicenseFields
    <3> QED
      BY <3>2, <3>4
  <2>2. CASE Suspend \/ Reactivate \/ ExpireLicenses
    BY <1>1, <2>2 DEF Suspend, Reactivate, ExpireLicenses, License, LicenseStatuses
  <2> QED
    BY <2>1, <2>2
<1>4. LicenseInv'
  BY <1>2, <1>3, ChangedLicense, Ranks DEF License, LicenseOnly
<1> QED
  BY <1>2, <1>3, <1>4, LicenseAlone

(***************************************************************************)
(* Steps that write the sessions.                                          *)
(***************************************************************************)
LEMMA SessionStep ==
    ASSUME BillingInv, UNCHANGED <<now, provider, event, billed, forced>>,
           requests' \in 0 .. MaxRequests, license' \in License, LicenseInv',
           NEW s \in Subs, NEW r \in SessionRow,
           session' = [session EXCEPT ![s] = r], newer' = Touched(s),
           r.status # "NONE", session[s].status # "NONE" => r.plan = session[s].plan,
           r.status = "COMPLETED" => Charged(s), r.linked => Known(s)
    PROVE  /\ TablesOK' /\ Grows /\ \A t \in Subs : SubInv(t)'
           /\ LicenseInv' /\ \A n \in Notices : EventInv(n)'
<1>1. TablesOK /\ \A t \in Subs : SubInv(t)
  BY DEF BillingInv
<1>2. /\ session'[s] = r /\ \A t \in Subs \ {s} : session'[t] = session[t]
      /\ session' \in [Subs -> SessionRow]
  BY <1>1 DEF TablesOK
<1>3. newer' \in [Subs -> SUBSET Subs]
  BY <1>1 DEF TablesOK, Touched
<1>4. TablesOK'
  BY <1>1, <1>2, <1>3 DEF TablesOK
<1>5. Grows
  BY <1>1, <1>2, Ranks DEF TablesOK, Grows, Known, Charged
<1>6. ASSUME NEW t \in Subs PROVE SubInv(t)'
  <2>1. CASE t # s
    BY <1>1, <1>2, <1>4, <1>5, <2>1, SubKept
  <2>2. CASE t = s
    BY <1>1, <1>2, <2>2 DEF SubInv, Known, Charged, Covered
  <2> QED
    BY <2>1, <2>2
<1> QED
  BY <1>4, <1>5, <1>6, EventsKept

LEMMA SessionGoes ==
    ASSUME BillingInv, UNCHANGED <<now, provider, event, billed, forced>>,
           requests' \in 0 .. MaxRequests, license' \in License, LicenseInv',
           NEW s \in Subs, NEW r \in SessionRow,
           session' = [session EXCEPT ![s] = r], newer' = Touched(s),
           r.status # "NONE", session[s].status # "NONE" => r.plan = session[s].plan,
           r.status = "COMPLETED" => Charged(s), r.linked => Known(s),
           NEW w \in Workers, NEW j, Goes(w, j), j # Nothing => TaskOK(j) /\ TaskInv(j)'
    PROVE  BillingInv'
BY SessionStep, GoesOn

(* The task that a write leaves.                                           *)
LEMMA AfterWrite ==
    ASSUME NEW j, TaskOK(j), TaskInv(j), j.phase = "write",
           NEW p, p = PhaseAfterWrite(j), NEW y,
           y = Written(j.writes.action, "NONE", NoFields), NEW i,
           i = [j EXCEPT !.phase = p, !.writes = y]
    PROVE  TaskOK(i) /\ TaskInv(i)
<1>1. /\ WritesOK(j.writes) /\ p \in {"mark", "supersede", "settle"}
      /\ p = "supersede" => j.prior # NoSub
  BY DEF TaskInv, Writing, PhaseAfterWrite
<1>2. WritesOK(y)
  <2>1. j.writes.action \in {"activated", "downgraded", "unchanged", "ignored_unknown"}
    BY <1>1 DEF WritesOK
  <2> QED
    BY <2>1, NoFieldsOK DEF Written, WritesOK, SessionStatuses
<1>3. TaskOK(i)
  BY <1>1, <1>2 DEF TaskOK, IsTaskRecord, Phases
<1>4. TaskInv(i)
  BY <1>1, <1>2
     DEF TaskInv, Asking, Answered, Writing, Opening, Changing, Knows, TaskOK,
         IsTaskRecord
<1> QED
  BY <1>3, <1>4

LEMMA WriteStep == ASSUME BillingInv, NEW w \in Workers, Write(w) PROVE BillingInv'
<1> SUFFICES ASSUME NEW j, j = task[w], NEW p, p = PhaseAfterWrite(j), NEW y,
                    y = Written(j.writes.action, "NONE", NoFields),
                    NEW i, i = [j EXCEPT !.phase = p, !.writes = y]
             PROVE  BillingInv'
  OBVIOUS
<1>1. /\ j # Nothing /\ j.phase = "write" /\ TaskOK(j) /\ TaskInv(j) /\ TablesOK
      /\ Goes(w, i)
  BY Worker DEF Write, Runs
<1>2. /\ license' = WithFields(license, j.writes.fields)
      /\ UNCHANGED <<now, provider, event, requests, billed, forced>>
      /\ requests' \in 0 .. MaxRequests
  BY <1>1 DEF Write, TablesOK
<1>3. /\ FieldsOK(j.writes.fields) /\ Gives(j.writes.fields) /\ j.sub \in Subs /\ Known(j.sub)
      /\ j.writes.session \in SessionStatuses
  BY <1>1 DEF TaskInv, Writing, WritesOK
<1>4. license' \in License /\ LicenseInv'
  BY <1>2, <1>3, GivenLicense
<1>5. TaskOK(i) /\ TaskInv(i)
  BY <1>1, AfterWrite
<1>6. CASE j.writes.action = "ignored_unknown"
  <2>1. UNCHANGED <<session, newer>>
    BY <1>6 DEF Write
  <2>2. LicenseOnly
    BY <1>2, <2>1 DEF LicenseOnly
  <2> QED
    BY <1>1, <1>2, <1>4, <1>5, <2>2, LicenseGoes
<1>7. CASE j.writes.action # "ignored_unknown"
  <2> SUFFICES ASSUME NEW r, r = [session[j.sub] EXCEPT !.status = j.writes.session,
                                                        !.linked = TRUE]
               PROVE  BillingInv'
    OBVIOUS
  <2>1. session' = [session EXCEPT ![j.sub] = r] /\ newer' = Touched(j.sub)
    BY <1>1, <1>3, <1>7 DEF Write, TablesOK, SessionRow
  <2>2. /\ r \in SessionRow /\ r.plan = session[j.sub].plan /\ r.status = j.writes.session
    BY <1>1, <1>3 DEF TablesOK, SessionRow
  <2>3. r.status # "NONE" /\ (r.status = "COMPLETED" => Charged(j.sub))
    BY <1>1, <1>7, <2>2 DEF TaskInv, Writing
  <2>4. TablesOK' /\ Grows
    BY <1>2, <1>3, <1>4, <2>1, <2>2, <2>3, SessionStep
  <2>5. TaskInv(i)'
    BY <1>1, <1>5, <2>4, TaskKept
  <2> QED
    BY <1>1, <1>2, <1>3, <1>4, <1>5, <2>1, <2>2, <2>3, <2>5, SessionGoes
<1> QED
  BY <1>6, <1>7

(* A checkout that is opened names a session that no preapproval knows.    *)
LEMMA OpenCheckoutStep ==
    ASSUME BillingInv, NEW w \in Workers, NEW plan \in PaidPlans,
           UNCHANGED <<now, provider, event, billed, forced>>,
           requests' \in 0 .. MaxRequests, license' \in License, LicenseInv',
           OpenCheckout(w, plan, "subscribe")
    PROVE  BillingInv'
<1>1. PICK s \in Subs :
        /\ session[s].status = "NONE"
        /\ session' = [session EXCEPT ![s].status = "PENDING", ![s].plan = plan]
        /\ newer' = Touched(s)
        /\ Goes(w, [NewTask("subscribe", "checkout") EXCEPT !.sub = s, !.plan = plan])
  BY DEF OpenCheckout
<1>2. TablesOK /\ SubInv(s)
  BY DEF BillingInv
<1> SUFFICES ASSUME NEW r, r = [session[s] EXCEPT !.status = "PENDING", !.plan = plan],
                    NEW j, j = [NewTask("subscribe", "checkout") EXCEPT !.sub = s, !.plan = plan]
             PROVE  BillingInv'
  OBVIOUS
<1>3. session' = [session EXCEPT ![s] = r]
  BY <1>1, <1>2 DEF TablesOK, SessionRow
<1>4. /\ r \in SessionRow /\ r.status = "PENDING" /\ r.plan = plan
      /\ r.linked = session[s].linked
  BY <1>2 DEF TablesOK, SessionRow, SessionStatuses
<1>5. r.linked => Known(s)
  BY <1>2, <1>4 DEF SubInv
<1>6. /\ TaskOK(j) /\ j.kind = "subscribe" /\ j.phase = "checkout" /\ j.sub = s /\ j.plan = plan
      /\ j.prior = NoSub
  BY PaidArePlans DEF NewTask, TaskOK, IsTaskRecord, Kinds, Phases
<1>7. session'[s].status = "PENDING" /\ session'[s].plan = plan
  BY <1>2, <1>3, <1>4 DEF TablesOK
<1>8. TaskInv(j)'
  BY <1>6, <1>7 DEF TaskInv, Asking, Answered, Writing, Opening, Changing, Knows
<1> QED
  BY <1>1, <1>3, <1>4, <1>5, <1>6, <1>8, SessionGoes

LEMMA SubscribeStep ==
    ASSUME BillingInv, NEW w \in Workers, NEW plan \in PaidPlans, Subscribe(w, plan)
    PROVE  BillingInv'
<1>1. /\ UNCHANGED <<now, license, provider, event, billed, forced>>
      /\ requests' \in 0 .. MaxRequests /\ OpenCheckout(w, plan, "subscribe")
  BY AskedOnce DEF Subscribe, BillingInv
<1>2. license' \in License /\ LicenseInv'
  BY <1>1, ChangedLicense, LicenseFields, Ranks DEF BillingInv, TablesOK
<1> QED
  BY <1>1, <1>2, OpenCheckoutStep

LEMMA CheckoutFailsStep ==
    ASSUME BillingInv, NEW w \in Workers, CheckoutFails(w) PROVE BillingInv'
<1> SUFFICES ASSUME NEW j, j = task[w] PROVE BillingInv'
  OBVIOUS
<1>1. TaskOK(j) /\ TaskInv(j) /\ TablesOK /\ j.phase = "checkout" /\ Goes(w, Nothing)
  BY Worker DEF CheckoutFails, Runs, Ends, Goes
<1>2. j.sub \in Subs /\ SubInv(j.sub)
  BY <1>1 DEF TaskInv, Opening, BillingInv
<1> SUFFICES ASSUME NEW r, r = [session[j.sub] EXCEPT !.status = "CANCELLED"]
             PROVE  BillingInv'
  OBVIOUS
<1>3. /\ session' = [session EXCEPT ![j.sub] = r] /\ newer' = Touched(j.sub)
      /\ UNCHANGED <<now, license, provider, event, requests, billed, forced>>
  BY <1>1, <1>2 DEF CheckoutFails, TablesOK, SessionRow
<1>4. /\ r \in SessionRow /\ r.status = "CANCELLED" /\ r.plan = session[j.sub].plan
      /\ r.linked = session[j.sub].linked
  BY <1>1, <1>2 DEF TablesOK, SessionRow, SessionStatuses
<1>5. r.linked => Known(j.sub)
  BY <1>2, <1>4 DEF SubInv
<1>6. license' \in License /\ LicenseInv' /\ requests' \in 0 .. MaxRequests
  BY <1>1, <1>3, ChangedLicense, LicenseFields, Ranks DEF TablesOK
<1> QED
  BY <1>1, <1>2, <1>3, <1>4, <1>5, <1>6, SessionGoes

(***************************************************************************)
(* Steps that write what the provider holds.                               *)
(***************************************************************************)
ProviderOnly ==
    /\ UNCHANGED <<now, license, session, newer, event, forced>>
    /\ requests' \in 0 .. MaxRequests

LEMMA ProviderStep ==
    ASSUME BillingInv, ProviderOnly, billed' \in Plans, Rank[billed] <= Rank[billed'],
           NEW s \in Subs, NEW r \in ProviderRow, provider' = [provider EXCEPT ![s] = r],
           Known(s), r.status # "none", Charged(s) => r.periodEnd # 0,
           r.amount \in PaidPlans, r.periodEnd = 0 => r.amount = provider[s].amount,
           r.status \in {"authorized", "paused"} => r.periodEnd # 0,
           r.periodEnd # 0 => Charged(s) \/ Rank[provider[s].amount] <= Rank[billed'],
           r.status = "authorized" => Rank[r.amount] <= Rank[billed']
    PROVE  /\ TablesOK' /\ Grows /\ \A t \in Subs : SubInv(t)'
           /\ LicenseInv' /\ \A n \in Notices : EventInv(n)'
<1>1. TablesOK /\ \A t \in Subs : SubInv(t)
  BY DEF BillingInv
<1>2. /\ provider'[s] = r /\ \A t \in Subs \ {s} : provider'[t] = provider[t]
      /\ provider' \in [Subs -> ProviderRow]
  BY <1>1 DEF TablesOK
<1>3. TablesOK'
  BY <1>1, <1>2 DEF TablesOK, ProviderOnly
<1>4. \A t \in Subs : (Known(t) => Known(t)') /\ (Charged(t) => Charged(t)')
  BY <1>2 DEF Known, Charged
<1>5. Grows
  BY <1>4 DEF Grows, ProviderOnly
<1>6. ASSUME NEW t \in Subs PROVE SubInv(t)'
  <2>1. CASE t # s
    BY <1>1, <1>2, <1>3, <1>5, <2>1, SubKept DEF ProviderOnly
  <2>2. CASE t = s
    <3>1. /\ SubInv(s) /\ session' = session
          /\ provider[s].amount \in PaidPlans /\ session[s].plan \in PaidPlans
          /\ session[s].plan \in Plans
      BY <1>1, PaidArePlans DEF SubInv, ProviderOnly
    <3>2. Covered(session[s].plan) => Covered(session[s].plan)'
      BY <1>1, <1>3, <1>5, <3>1, CoveredKept DEF ProviderOnly
    <3>3. Charged(s)' => Covered(session[s].plan)'
      BY <1>2, <3>1, <3>2 DEF SubInv, Charged, Covered
    <3>4. Known(s)' /\ (r.status = "authorized" => Covered(r.amount)')
      BY <1>2 DEF Known, Covered
    <3> QED
      BY <1>2, <2>2, <3>1, <3>3, <3>4 DEF SubInv, Known, Charged
  <2> QED
    BY <2>1, <2>2
<1>7. LicenseInv'
  BY <1>3, <1>5, LicenseKept DEF ProviderOnly
<1>8. \A n \in Notices : EventInv(n)'
  BY <1>5, EventsKept DEF ProviderOnly
<1> QED
  BY <1>3, <1>5, <1>6, <1>7, <1>8

(* A cancellation keeps the period and the amount.                         *)
LEMMA Cancels ==
    ASSUME BillingInv, ProviderOnly, billed' = billed, NEW s \in Subs, Known(s),
           provider' = [provider EXCEPT ![s].status = "cancelled"]
    PROVE  /\ TablesOK' /\ Grows /\ \A t \in Subs : SubInv(t)'
           /\ LicenseInv' /\ \A n \in Notices : EventInv(n)'
<1> SUFFICES ASSUME NEW r, r = [provider[s] EXCEPT !.status = "cancelled"]
             PROVE  /\ TablesOK' /\ Grows /\ \A t \in Subs : SubInv(t)'
                    /\ LicenseInv' /\ \A n \in Notices : EventInv(n)'
  OBVIOUS
<1>1. TablesOK /\ SubInv(s) /\ provider[s] \in ProviderRow
  BY DEF BillingInv, TablesOK
<1>2. /\ provider' = [provider EXCEPT ![s] = r] /\ r \in ProviderRow /\ r.status = "cancelled"
      /\ r.amount = provider[s].amount /\ r.periodEnd = provider[s].periodEnd
  BY <1>1 DEF ProviderRow, ProviderStatuses
<1>3. provider[s].amount \in PaidPlans
  BY <1>1 DEF SubInv
<1>4. billed' \in Plans /\ Rank[billed] <= Rank[billed']
  BY <1>1, Ranks DEF TablesOK
<1> QED
  BY <1>1, <1>2, <1>3, <1>4, ProviderStep DEF Charged

LEMMA SupersedeStep == ASSUME BillingInv, NEW w \in Workers, Supersede(w) PROVE BillingInv'
<1> SUFFICES ASSUME NEW j, j = task[w], NEW i, i = [j EXCEPT !.phase = "settle", !.prior = NoSub]
             PROVE  BillingInv'
  OBVIOUS
<1>1. /\ j.phase = "supersede" /\ Goes(w, i) /\ TaskOK(j) /\ TaskInv(j) /\ TablesOK
  BY Worker DEF Supersede, Runs
<1>2. j.prior \in Subs /\ Charged(j.prior)
  BY <1>1 DEF TaskInv, Knows, TaskOK
<1>3. Known(j.prior)
  BY <1>2 DEF BillingInv, SubInv
<1>4. TaskOK(i)
  BY <1>1 DEF TaskOK, IsTaskRecord, Phases
<1>5. TaskInv(i)
  BY <1>1
     DEF TaskInv, Asking, Answered, Writing, Opening, Changing, Knows, TaskOK,
         IsTaskRecord
<1>6. CASE UNCHANGED provider
  <2>1. Reads
    BY <1>1, <1>6 DEF Supersede, Reads, LicenseOnly, TablesOK
  <2> QED
    BY <1>1, <1>4, <1>5, <2>1, ReadGoes
<1>7. CASE provider' = [provider EXCEPT ![j.prior].status = "cancelled"]
  <2>1. ProviderOnly /\ billed' = billed
    BY <1>1 DEF Supersede, ProviderOnly, TablesOK
  <2>2. /\ TablesOK' /\ Grows /\ \A t \in Subs : SubInv(t)'
        /\ LicenseInv' /\ \A n \in Notices : EventInv(n)'
    BY <1>2, <1>3, <1>7, <2>1, Cancels
  <2>3. TaskInv(i)'
    BY <1>1, <1>4, <1>5, <2>2, TaskKept
  <2> QED
    BY <1>1, <1>4, <2>2, <2>3, GoesOn
<1> QED
  BY <1>6, <1>7 DEF Supersede

LEMMA ProviderCancelsStep ==
    ASSUME BillingInv, NEW w \in Workers, ProviderCancels(w) PROVE BillingInv'
<1> SUFFICES ASSUME NEW j, j = task[w], NEW d,
                    d = [SubscriptionDetails(j.sub) EXCEPT !.status = "cancelled"],
                    NEW i, i = [j EXCEPT !.phase = "decide", !.details = d]
             PROVE  BillingInv'
  OBVIOUS
<1>1. /\ j.phase = "ask" /\ TaskOK(j) /\ TaskInv(j) /\ TablesOK
  BY Worker DEF ProviderCancels, Runs
<1>2. j.sub \in Subs /\ Known(j.sub) /\ provider[j.sub] \in ProviderRow
  BY <1>1 DEF TaskInv, Asking, TablesOK
<1>3. ProviderOnly /\ billed' = billed
  BY <1>1 DEF ProviderCancels, ProviderOnly, TablesOK
<1>4. CASE UNCHANGED provider /\ Ends(w)
  <2>1. Reads /\ Goes(w, Nothing)
    BY <1>3, <1>4 DEF ProviderOnly, Reads, LicenseOnly, Ends, Goes
  <2> QED
    BY <2>1, ReadGoes
<1>5. CASE provider' = [provider EXCEPT ![j.sub].status = "cancelled"] /\ Ends(w)
  <2>1. Goes(w, Nothing)
    BY <1>5 DEF Ends, Goes
  <2> QED
    BY <1>2, <1>3, <1>5, <2>1, Cancels, GoesOn
<1>6. CASE provider' = [provider EXCEPT ![j.sub].status = "cancelled"] /\ Goes(w, i)
  <2>1. /\ TablesOK' /\ Grows /\ \A t \in Subs : SubInv(t)'
        /\ LicenseInv' /\ \A n \in Notices : EventInv(n)'
    BY <1>2, <1>3, <1>6, Cancels
  <2>2. d \in Details /\ d.sub = j.sub /\ d.status = "cancelled"
    BY <1>2 DEF SubscriptionDetails, Details, ProviderRow, Periods, ProviderStatuses
  <2>3. TaskOK(i)
    BY <1>1, <2>2 DEF TaskOK, IsTaskRecord, Phases
  <2>4. TaskInv(i)
    BY <1>1, <1>2, <2>2
       DEF TaskInv, Asking, Answered, Writing, Opening, Changing, Knows, TaskOK,
           IsTaskRecord
  <2>5. TaskInv(i)'
    BY <1>1, <2>1, <2>3, <2>4, TaskKept
  <2> QED
    BY <1>6, <2>1, <2>3, <2>5, GoesOn
<1> QED
  BY <1>4, <1>5, <1>6 DEF ProviderCancels

LEMMA ProviderResumesStep ==
    ASSUME BillingInv, NEW w \in Workers, ProviderResumes(w) PROVE BillingInv'
<1> SUFFICES ASSUME NEW j, j = task[w], NEW i, i = [j EXCEPT !.phase = "settle"]
             PROVE  BillingInv'
  OBVIOUS
<1>1. /\ j.phase = "ask" /\ j.kind = "resume" /\ TaskOK(j) /\ TaskInv(j) /\ TablesOK
  BY Worker DEF ProviderResumes, Runs
<1>2. j.sub \in Subs /\ Known(j.sub) /\ Charged(j.sub) /\ SubInv(j.sub)
  BY <1>1 DEF TaskInv, Asking, BillingInv
<1>3. ProviderOnly
  BY <1>1 DEF ProviderResumes, ProviderOnly, TablesOK
<1>4. CASE UNCHANGED <<provider, billed>> /\ Ends(w)
  <2>1. Reads /\ Goes(w, Nothing)
    BY <1>3, <1>4 DEF ProviderOnly, Reads, LicenseOnly, Ends, Goes
  <2> QED
    BY <2>1, ReadGoes
<1>5. CASE /\ provider' = [provider EXCEPT ![j.sub].status = "authorized"]
           /\ billed' = Highest(billed, provider[j.sub].amount)
           /\ IF j.plan = "FREE" THEN Ends(w) ELSE Goes(w, i)
  <2> SUFFICES ASSUME NEW r, r = [provider[j.sub] EXCEPT !.status = "authorized"]
               PROVE  BillingInv'
    OBVIOUS
  <2>1. /\ provider' = [provider EXCEPT ![j.sub] = r] /\ r \in ProviderRow
        /\ r.status = "authorized" /\ r.amount = provider[j.sub].amount
        /\ r.periodEnd = provider[j.sub].periodEnd
    BY <1>1, <1>2, <1>5 DEF TablesOK, ProviderRow, ProviderStatuses
  <2>2. r.amount \in PaidPlans /\ r.amount \in Plans /\ billed \in Plans
    BY <1>1, <1>2, <2>1, PaidArePlans DEF SubInv, TablesOK
  <2>3. /\ billed' \in Plans /\ Rank[billed] <= Rank[billed'] /\ Rank[r.amount] <= Rank[billed']
    BY <1>5, <2>1, <2>2, HighestPlan
  <2>4. /\ TablesOK' /\ Grows /\ \A t \in Subs : SubInv(t)'
        /\ LicenseInv' /\ \A n \in Notices : EventInv(n)'
    BY <1>2, <1>3, <2>1, <2>2, <2>3, ProviderStep DEF Charged
  <2>5. CASE Ends(w)
    <3>1. Goes(w, Nothing)
      BY <2>5 DEF Ends, Goes
    <3> QED
      BY <2>4, <3>1, GoesOn
  <2>6. CASE Goes(w, i)
    <3>1. TaskOK(i)
      BY <1>1 DEF TaskOK, IsTaskRecord, Phases
    <3>2. TaskInv(i)
      BY <1>1 DEF TaskInv, Asking, Answered, Writing, Opening, Changing, Knows, TaskOK,
                  IsTaskRecord
    <3>3. TaskInv(i)'
      BY <1>1, <2>4, <3>1, <3>2, TaskKept
    <3> QED
      BY <2>4, <2>6, <3>1, <3>3, GoesOn
  <2> QED
    BY <1>5, <2>5, <2>6
<1> QED
  BY <1>4, <1>5 DEF ProviderResumes

LEMMA AmountChangedStep ==
    ASSUME BillingInv, NEW w \in Workers, AmountChanged(w) PROVE BillingInv'
<1> SUFFICES ASSUME NEW j, j = task[w] PROVE BillingInv'
  OBVIOUS
<1>1. /\ j.phase = "amount" /\ TaskOK(j) /\ TaskInv(j) /\ TablesOK
      /\ Goes(w, Nothing)
  BY Worker DEF AmountChanged, Runs, Ends, Goes
<1>2. /\ j.sub \in Subs /\ Charged(j.sub) /\ SubInv(j.sub) /\ Known(j.sub)
      /\ j.plan \in PaidPlans /\ j.plan \in Plans
  BY <1>1, PaidArePlans DEF TaskInv, Changing, BillingInv, SubInv
<1>3. ProviderOnly
  BY <1>1 DEF AmountChanged, ProviderOnly, TablesOK
<1> SUFFICES ASSUME NEW r, r = [provider[j.sub] EXCEPT !.amount = j.plan]
             PROVE  BillingInv'
  OBVIOUS
<1>4. /\ provider' = [provider EXCEPT ![j.sub] = r] /\ r \in ProviderRow
      /\ r.status = provider[j.sub].status /\ r.amount = j.plan
      /\ r.periodEnd = provider[j.sub].periodEnd
  BY <1>1, <1>2 DEF TablesOK, ProviderRow, AmountChanged
<1>5. /\ billed' \in Plans /\ Rank[billed] <= Rank[billed']
      /\ r.status = "authorized" => Rank[j.plan] <= Rank[billed']
  BY <1>1, <1>2, <1>4, HighestPlan, Ranks DEF AmountChanged, TablesOK
<1>6. /\ TablesOK' /\ Grows /\ \A t \in Subs : SubInv(t)'
      /\ LicenseInv' /\ \A n \in Notices : EventInv(n)'
  BY <1>2, <1>3, <1>4, <1>5, ProviderStep DEF Charged, SubInv, Known
<1> QED
  BY <1>1, <1>6, GoesOn

LEMMA BecomesStep ==
    ASSUME BillingInv, NEW s \in Subs, NEW status \in {"rejected", "paused", "cancelled"},
           Becomes(s, status), Known(s), status = "paused" => Charged(s)
    PROVE  BillingInv'
<1> SUFFICES ASSUME NEW r, r = [provider[s] EXCEPT !.status = status] PROVE BillingInv'
  OBVIOUS
<1>1. TablesOK /\ SubInv(s) /\ provider[s] \in ProviderRow
  BY DEF BillingInv, TablesOK
<1>2. ProviderOnly /\ task' = task /\ billed' = billed
  BY <1>1, AskedOnce DEF Becomes, ProviderOnly
<1>3. /\ provider' = [provider EXCEPT ![s] = r] /\ r \in ProviderRow /\ r.status = status
      /\ r.amount = provider[s].amount /\ r.periodEnd = provider[s].periodEnd
  BY <1>1 DEF Becomes, ProviderRow, ProviderStatuses
<1>4. provider[s].amount \in PaidPlans /\ billed' \in Plans /\ Rank[billed] <= Rank[billed']
  BY <1>1, <1>2, Ranks DEF SubInv, TablesOK
<1>5. /\ TablesOK' /\ Grows /\ \A t \in Subs : SubInv(t)'
      /\ LicenseInv' /\ \A n \in Notices : EventInv(n)'
  BY <1>2, <1>3, <1>4, ProviderStep DEF Charged
<1> QED
  BY <1>2, <1>5, NoTask

LEMMA ChargeStep == ASSUME BillingInv, NEW s \in Subs, Charge(s) PROVE BillingInv'
<1> SUFFICES ASSUME NEW r, r = [provider[s] EXCEPT !.status = "authorized", !.periodEnd = now + 1]
             PROVE  BillingInv'
  OBVIOUS
<1>1. /\ TablesOK /\ SubInv(s) /\ provider[s] \in ProviderRow /\ now \in 0 .. MaxTime
      /\ billed \in Plans
  BY DEF BillingInv, TablesOK
<1>2. ProviderOnly /\ task' = task
  BY <1>1, AskedOnce DEF Charge, ProviderOnly
<1>3. Known(s) /\ provider[s].amount \in PaidPlans /\ provider[s].amount \in Plans
  BY <1>1, PaidArePlans DEF Charge, SubInv, Known
<1>4. now + 1 \in Periods /\ now + 1 # 0
  BY <1>1, BillingAssumption DEF Periods
<1>5. /\ provider' = [provider EXCEPT ![s] = r] /\ r \in ProviderRow /\ r.status = "authorized"
      /\ r.amount = provider[s].amount /\ r.periodEnd = now + 1
  BY <1>1, <1>4 DEF Charge, TablesOK, ProviderRow, ProviderStatuses, BillingInv
<1>6. /\ billed' \in Plans /\ Rank[billed] <= Rank[billed']
      /\ Rank[provider[s].amount] <= Rank[billed']
  BY <1>1, <1>3, HighestPlan DEF Charge
<1>7. /\ TablesOK' /\ Grows /\ \A t \in Subs : SubInv(t)'
      /\ LicenseInv' /\ \A n \in Notices : EventInv(n)'
  BY <1>2, <1>3, <1>4, <1>5, <1>6, ProviderStep
<1> QED
  BY <1>2, <1>7, NoTask

(***************************************************************************)
(* The requests of the owner.                                              *)
(***************************************************************************)
LEMMA LatestKnown ==
    ASSUME BillingInv, NEW S
    PROVE  Latest(S) \in Subs \cup {NoSub} /\ (Latest(S) # NoSub => Known(Latest(S)))
<1> DEFINE rows == {s \in Subs : session[s].linked /\ session[s].status \in S}
           last == {s \in rows : newer[s] \cap rows = {}}
<1>1. \A s \in last : s \in Subs /\ Known(s)
  BY DEF BillingInv, SubInv
<1>2. Latest(S) = IF last = {} THEN NoSub ELSE CHOOSE s \in last : TRUE
  BY DEF Latest
<1> HIDE DEF last
<1>3. last # {} => (CHOOSE s \in last : TRUE) \in last
  OBVIOUS
<1> QED
  BY <1>1, <1>2, <1>3

LEMMA RefKnown ==
    ASSUME BillingInv, license.ref # NoSub
    PROVE  license.ref \in Subs /\ Charged(license.ref) /\ Known(license.ref)
BY DEF BillingInv, LicenseInv, TablesOK, License, SubInv

LEMMA TargetKnown ==
    ASSUME BillingInv, RefreshTarget # NoSub
    PROVE  RefreshTarget \in Subs /\ Known(RefreshTarget)
<1> SUFFICES ASSUME NEW a, a = Latest({"PENDING"}), NEW b, b = Latest({"PENDING", "COMPLETED"}),
                    NEW t, t = RefreshTarget
             PROVE  t \in Subs /\ Known(t)
  BY DEF Known
<1>1. t = IF a # NoSub THEN a ELSE IF license.ref # NoSub THEN license.ref ELSE b
  BY DEF RefreshTarget
<1>2. a \in Subs \cup {NoSub} /\ (a # NoSub => Known(a))
  BY LatestKnown
<1>3. b \in Subs \cup {NoSub} /\ (b # NoSub => Known(b))
  BY LatestKnown
<1> QED
  BY <1>1, <1>2, <1>3, RefKnown DEF Known

LEMMA RefreshStep == ASSUME BillingInv, NEW w \in Workers, Refresh(w) PROVE BillingInv'
<1>1. /\ UNCHANGED <<now, session, newer, provider, event, billed, forced>>
      /\ requests' \in 0 .. MaxRequests /\ forced \in Plans /\ license \in License
  BY AskedOnce DEF Refresh, BillingInv, TablesOK
<1>2. LicenseOnly
  BY <1>1 DEF LicenseOnly
<1>3. CASE RefreshTarget = NoSub
  <2>1. license' = Transitioned /\ task' = task
    BY <1>3 DEF Refresh
  <2> QED
    BY <1>1, <1>2, <2>1, TransitionedLicense, LicenseAlone
<1>4. CASE RefreshTarget # NoSub
  <2> SUFFICES ASSUME NEW t, t = RefreshTarget,
                      NEW p, p = IF Latest({"PENDING"}) = NoSub THEN NoSub ELSE license.ref,
                      NEW j, j = [NewTask("refresh", "ask") EXCEPT !.sub = t, !.prior = p]
               PROVE  BillingInv'
    OBVIOUS
  <2>1. Goes(w, j) /\ license' = license
    BY <1>4 DEF Refresh
  <2>2. t \in Subs /\ Known(t)
    BY <1>4, TargetKnown DEF Known
  <2>3. p \in Subs \cup {NoSub} /\ (p # NoSub => Charged(p))
    BY RefKnown DEF Charged
  <2>4. /\ TaskOK(j) /\ j.kind = "refresh" /\ j.phase = "ask" /\ j.sub = t /\ j.prior = p
    BY <2>2, <2>3 DEF NewTask, TaskOK, IsTaskRecord, Plans, Kinds, Phases
  <2>5. TaskInv(j)
    BY <2>2, <2>3, <2>4 DEF TaskInv, Asking, Answered, Writing, Opening, Changing, Knows
  <2>6. Reads
    BY <1>1, <1>2, <2>1 DEF Reads
  <2> QED
    BY <2>1, <2>4, <2>5, <2>6, ReadGoes
<1> QED
  BY <1>3, <1>4

LEMMA CancelSubscriptionStep ==
    ASSUME BillingInv, NEW w \in Workers, CancelSubscription(w) PROVE BillingInv'
<1>1. Reads
  BY AskedOnce DEF CancelSubscription, Reads, LicenseOnly, BillingInv
<1>2. CASE license.ref = NoSub
  <2> SUFFICES ASSUME NEW j, j = NewTask("cancel", "settle") PROVE BillingInv'
    OBVIOUS
  <2>1. Goes(w, j)
    BY <1>2 DEF CancelSubscription
  <2>2. TaskOK(j) /\ j.kind = "cancel" /\ j.phase = "settle" /\ j.prior = NoSub
    BY DEF NewTask, TaskOK, IsTaskRecord, Plans, Kinds, Phases
  <2>3. TaskInv(j)
    BY <2>2 DEF TaskInv, Asking, Answered, Writing, Opening, Changing, Knows
  <2> QED
    BY <1>1, <2>1, <2>2, <2>3, ReadGoes
<1>3. CASE license.ref # NoSub
  <2> SUFFICES ASSUME NEW t, t = license.ref,
                      NEW j, j = [NewTask("cancel", "ask") EXCEPT !.sub = t]
               PROVE  BillingInv'
    OBVIOUS
  <2>1. Goes(w, j)
    BY <1>3 DEF CancelSubscription
  <2>2. t \in Subs /\ Known(t) /\ Charged(t)
    BY <1>3, RefKnown DEF Known, Charged
  <2>3. TaskOK(j) /\ j.kind = "cancel" /\ j.phase = "ask" /\ j.sub = t /\ j.prior = NoSub
    BY <2>2 DEF NewTask, TaskOK, IsTaskRecord, Plans, Kinds, Phases
  <2>4. TaskInv(j)
    BY <2>2, <2>3 DEF TaskInv, Asking, Answered, Writing, Opening, Changing, Knows
  <2> QED
    BY <1>1, <2>1, <2>3, <2>4, ReadGoes
<1> QED
  BY <1>2, <1>3

LEMMA ResumeStep == ASSUME BillingInv, NEW w \in Workers, Resume(w) PROVE BillingInv'
<1> SUFFICES ASSUME NEW t, t = license.ref, NEW p, p = license.plan,
                    NEW j, j = [NewTask("resume", "ask") EXCEPT !.sub = t, !.plan = p]
             PROVE  BillingInv'
  OBVIOUS
<1>1. Reads /\ Goes(w, j)
  BY AskedOnce DEF Resume, Reads, LicenseOnly, BillingInv
<1>2. t \in Subs /\ Known(t) /\ Charged(t)
  BY RefKnown DEF Resume, Known, Charged
<1>3. p \in Plans
  BY DEF BillingInv, TablesOK, License
<1>4. /\ TaskOK(j) /\ j.kind = "resume" /\ j.phase = "ask" /\ j.sub = t /\ j.prior = NoSub
  BY <1>2, <1>3 DEF NewTask, TaskOK, IsTaskRecord, Kinds, Phases
<1>5. TaskInv(j)
  BY <1>2, <1>4 DEF TaskInv, Asking, Answered, Writing, Opening, Changing, Knows
<1> QED
  BY <1>1, <1>4, <1>5, ReadGoes

LEMMA PendingLicense ==
    ASSUME BillingInv, NEW plan \in PaidPlans, license' = [license EXCEPT !.pending = plan],
           UNCHANGED <<provider, billed, forced>>
    PROVE  license' \in License /\ LicenseInv'
<1>1. license' \in License /\ license'.ref = license.ref /\ license'.plan = license.plan
  BY DEF BillingInv, TablesOK, License
<1> QED
  BY <1>1, ChangedLicense, LicenseFields, Ranks DEF BillingInv, TablesOK

LEMMA ChangePlanStep ==
    ASSUME BillingInv, NEW w \in Workers, NEW plan \in PaidPlans, ChangePlan(w, plan)
    PROVE  BillingInv'
<1>1. /\ UNCHANGED <<now, provider, event, billed, forced>>
      /\ requests' \in 0 .. MaxRequests /\ forced \in Plans
      /\ license' = [license EXCEPT !.pending = plan]
  BY AskedOnce DEF ChangePlan, BillingInv, TablesOK
<1>2. license' \in License /\ LicenseInv'
  BY <1>1, PendingLicense
<1>3. CASE license.ref # NoSub
  <2> SUFFICES ASSUME NEW t, t = license.ref,
                      NEW j, j = [NewTask("change", "amount") EXCEPT !.sub = t, !.plan = plan]
               PROVE  BillingInv'
    OBVIOUS
  <2>1. LicenseOnly /\ forced' = forced /\ Goes(w, j)
    BY <1>1, <1>3 DEF ChangePlan, LicenseOnly
  <2>2. t \in Subs /\ Known(t) /\ Charged(t)
    BY <1>3, RefKnown DEF Known, Charged
  <2>3. /\ TaskOK(j) /\ j.kind = "change" /\ j.phase = "amount" /\ j.sub = t /\ j.plan = plan
        /\ j.prior = NoSub
    BY <2>2, PaidArePlans DEF NewTask, TaskOK, IsTaskRecord, Kinds, Phases
  <2>4. TaskInv(j)
    BY <2>2, <2>3 DEF TaskInv, Asking, Answered, Writing, Opening, Changing, Knows
  <2> QED
    BY <1>2, <2>1, <2>3, <2>4, LicenseGoes
<1>4. CASE license.ref = NoSub /\ plan = "PRO"
  <2>1. OpenCheckout(w, plan, "subscribe")
    BY <1>4 DEF ChangePlan
  <2> QED
    BY <1>1, <1>2, <2>1, OpenCheckoutStep
<1>5. CASE license.ref = NoSub /\ plan # "PRO"
  <2>1. LicenseOnly /\ task' = task
    BY <1>1, <1>5 DEF ChangePlan, LicenseOnly
  <2> QED
    BY <1>1, <1>2, <2>1, LicenseAlone
<1> QED
  BY <1>3, <1>4, <1>5

LEMMA AmountRefusedStep ==
    ASSUME BillingInv, NEW w \in Workers, AmountRefused(w) PROVE BillingInv'
<1>1. UNCHANGED <<now, license, provider, event, requests, billed, forced>>
  BY DEF AmountRefused
<1>2. TablesOK
  BY DEF BillingInv
<1>3. license' \in License /\ LicenseInv' /\ requests' \in 0 .. MaxRequests
  BY <1>1, <1>2, ChangedLicense, LicenseFields, Ranks DEF TablesOK
<1>4. CASE OpenCheckout(w, "PRO", "subscribe")
  BY <1>1, <1>3, <1>4, OpenCheckoutStep DEF PaidPlans
<1>5. CASE Ends(w) /\ UNCHANGED <<session, newer>>
  <2>1. Reads /\ Goes(w, Nothing)
    BY <1>1, <1>3, <1>5 DEF Reads, LicenseOnly, Ends, Goes
  <2> QED
    BY <2>1, ReadGoes
<1> QED
  BY <1>4, <1>5 DEF AmountRefused

(* A preapproval that is created has the plan of its session.              *)
LEMMA CheckoutCreatedStep ==
    ASSUME BillingInv, NEW w \in Workers, CheckoutCreated(w) PROVE BillingInv'
<1> SUFFICES ASSUME NEW j, j = task[w] PROVE BillingInv'
  OBVIOUS
<1>1. TaskOK(j) /\ TaskInv(j) /\ TablesOK /\ j.phase = "checkout" /\ Goes(w, Nothing)
  BY Worker DEF CheckoutCreated, Runs, Ends, Goes
<1> SUFFICES ASSUME NEW s, s = j.sub, NEW p, p = j.plan PROVE BillingInv'
  OBVIOUS
<1>2. /\ s \in Subs /\ p \in PaidPlans /\ session[s].status # "NONE" /\ session[s].plan = p
      /\ SubInv(s)
  BY <1>1 DEF TaskInv, Opening, BillingInv
<1> SUFFICES ASSUME NEW r, r = [provider[s] EXCEPT !.status = "pending", !.amount = p],
                    NEW q, q = [session[s] EXCEPT !.linked = TRUE]
             PROVE  BillingInv'
  OBVIOUS
<1>3. /\ provider' = [provider EXCEPT ![s] = r] /\ r \in ProviderRow
      /\ r.status = "pending" /\ r.amount = p /\ r.periodEnd = provider[s].periodEnd
  BY <1>1, <1>2 DEF CheckoutCreated, TablesOK, ProviderRow, ProviderStatuses
<1>4. /\ session' = [session EXCEPT ![s] = q] /\ q \in SessionRow
      /\ q.status = session[s].status /\ q.plan = p
  BY <1>1, <1>2 DEF CheckoutCreated, TablesOK, SessionRow
<1>5. /\ newer' \in [Subs -> SUBSET Subs] /\ license' = [license EXCEPT !.pending = p]
      /\ UNCHANGED <<now, event, requests, billed, forced>>
  BY <1>1, <1>2 DEF CheckoutCreated, TablesOK, Touched
<1>6. license' \in License /\ license'.ref = license.ref /\ license'.plan = license.plan
  BY <1>1, <1>2, <1>5 DEF TablesOK, License
<1>7. TablesOK'
  BY <1>1, <1>2, <1>3, <1>4, <1>5, <1>6 DEF TablesOK
<1>8. /\ provider'[s] = r /\ session'[s] = q
      /\ \A t \in Subs \ {s} : provider'[t] = provider[t] /\ session'[t] = session[t]
  BY <1>1, <1>2, <1>3, <1>4 DEF TablesOK
<1>9. \A t \in Subs : (Known(t) => Known(t)') /\ (Charged(t) => Charged(t)')
  BY <1>3, <1>8 DEF Known, Charged
<1>10. Grows
  <2>1. \A t \in Subs : session[t].status # "NONE" =>
             session'[t].status # "NONE" /\ session'[t].plan = session[t].plan
    BY <1>2, <1>4, <1>8
  <2> QED
    BY <1>1, <1>5, <1>9, <2>1, Ranks DEF TablesOK, Grows
<1>11. ASSUME NEW t \in Subs PROVE SubInv(t)'
  <2>1. CASE t # s
    BY <1>1, <1>7, <1>8, <1>10, <2>1, SubKept DEF BillingInv
  <2>2. CASE t = s
    <3>1. Known(s)' /\ ~(r.status \in {"authorized", "paused"})
      BY <1>3, <1>8 DEF Known
    <3>2. Charged(s)' <=> Charged(s)
      BY <1>3, <1>8 DEF Charged
    <3>3. Charged(s)' => Covered(session[s].plan)'
      <4>1. session'[s].plan = session[s].plan /\ billed' = billed
        BY <1>2, <1>4, <1>5, <1>8
      <4> QED
        BY <1>2, <3>2, <4>1 DEF SubInv, Covered
    <3>4. session[s].status = "COMPLETED" => Charged(s)
      BY <1>2 DEF SubInv
    <3>5. /\ session'[s].status = session[s].status /\ session[s].status # "NONE"
          /\ session'[s].plan = p /\ session[s].plan = p /\ p \in PaidPlans
          /\ provider'[s].status = "pending" /\ provider'[s].amount = p
      BY <1>2, <1>3, <1>4, <1>8
    <3>6. SubInv(s)'
      BY <3>1, <3>2, <3>3, <3>4, <3>5 DEF SubInv
    <3> QED
      BY <2>2, <3>6
  <2> QED
    BY <2>1, <2>2
<1>12. LicenseInv'
  <2>1. license'.ref # NoSub => Charged(license.ref)'
    BY <1>6, <1>9, RefKnown DEF Charged
  <2>2. LicenseInv
    BY DEF BillingInv
  <2> QED
    BY <1>5, <1>6, <2>1, <2>2 DEF LicenseInv
<1>13. \A n \in Notices : EventInv(n)'
  BY <1>5, <1>10, EventsKept
<1> QED
  BY <1>1, <1>7, <1>10, <1>11, <1>12, <1>13, GoesOn

LEMMA TickStep == ASSUME BillingInv, Tick PROVE BillingInv'
<1>1. TablesOK
  BY DEF BillingInv
<1>2. TablesOK'
  BY <1>1, BillingAssumption DEF Tick, TablesOK
<1>3. Grows
  BY <1>1, Ranks DEF Tick, TablesOK, Grows, Known, Charged
<1>4. \A s \in Subs : SubInv(s)'
  BY <1>1, <1>2, <1>3, SubKept DEF BillingInv, Tick
<1>5. LicenseInv'
  BY <1>2, <1>3, LicenseKept DEF Tick
<1>6. \A n \in Notices : EventInv(n)'
  BY <1>3, EventsKept DEF Tick
<1> QED
  BY <1>2, <1>3, <1>4, <1>5, <1>6, NoTask DEF Tick

LEMMA ChargeFailsStep == ASSUME BillingInv, NEW s \in Subs, ChargeFails(s) PROVE BillingInv'
<1>1. SubInv(s)
  BY DEF BillingInv
<1>2. CASE provider[s].status = "pending" /\ Becomes(s, "rejected")
  BY <1>2, BecomesStep DEF Known
<1>3. CASE provider[s].status = "authorized" /\ Becomes(s, "paused")
  BY <1>1, <1>3, BecomesStep DEF Known, SubInv
<1> QED
  BY <1>2, <1>3 DEF ChargeFails

LEMMA CustomerCancelsStep ==
    ASSUME BillingInv, NEW s \in Subs, CustomerCancels(s) PROVE BillingInv'
<1>1. Known(s) /\ Becomes(s, "cancelled")
  BY DEF CustomerCancels, Known
<1> QED
  BY <1>1, BecomesStep

(***************************************************************************)
(* Every step keeps the invariant.                                         *)
(***************************************************************************)
LEMMA StepKeeps == ASSUME BillingInv, NEW w \in Workers, Step(w) PROVE BillingInv'
BY AskStep, AskFailsStep, DecideStep, WriteStep, MarkEventStep, SupersedeStep,
   RefreshSettlesStep, CheckoutCreatedStep, CheckoutFailsStep, AmountChangedStep,
   AmountRefusedStep, ProviderCancelsStep, CancelSettlesStep, ProviderResumesStep,
   ResumeSettlesStep
   DEF Step

LEMMA RequestKeeps == ASSUME BillingInv, NEW w \in Workers, Request(w) PROVE BillingInv'
BY ReceiveNoticeStep, RefreshStep, ResumeStep, CancelSubscriptionStep, SubscribeStep,
   ChangePlanStep
   DEF Request, Reconcile

LEMMA AdministerKeeps == ASSUME BillingInv, Administer PROVE BillingInv'
BY ForcePlanStep, CancelLocalStep, OtherLicenseStep DEF Administer

LEMMA EnvironmentKeeps == ASSUME BillingInv, Environment PROVE BillingInv'
BY ChargeStep, ChargeFailsStep, CustomerCancelsStep, TickStep, OtherLicenseStep
   DEF Environment

LEMMA StutterKeeps == ASSUME BillingInv, UNCHANGED vars PROVE BillingInv'
<1>1. Reads /\ task' = task
  BY DEF vars, Reads, LicenseOnly, BillingInv, TablesOK
<1> QED
  BY <1>1, ReadStep, NoTask

LEMMA BillingInvariant == BillingSpec => []BillingInv
<1>1. BillingInit => BillingInv
  BY InitHolds
<1>2. BillingInv /\ [BillingNext]_vars => BillingInv'
  BY StepKeeps, RequestKeeps, RequestDiesStep, AdministerKeeps, EnvironmentKeeps,
     StutterKeeps
     DEF BillingNext
<1> QED
  BY <1>1, <1>2, PTL DEF BillingSpec

(* Every row of the billing tables and every request keeps its type: what  *)
(* a request writes is always a licence.                                   *)
THEOREM BillingTypeCorrect == BillingSpec => []BillingTypeOK
<1>1. BillingInv => BillingTypeOK
  BY Typed DEF BillingInv
<1> QED
  BY <1>1, BillingInvariant, PTL

(* The licence never gives more than was charged for or given by hand, in  *)
(* whatever order answers, changes of plan and cancellations overlap.      *)
THEOREM PaidPlanCharged == BillingSpec => []PaidPlanIsCharged
<1>1. BillingInv => PaidPlanIsCharged
  BY Typed DEF BillingInv, PaidPlanIsCharged, LicenseInv, SubInv, Charged
<1> QED
  BY <1>1, BillingInvariant, PTL

(* A paid plan that no administrator set names the preapproval that pays   *)
(* for it.                                                                 *)
THEOREM PaidPlanSourced == BillingSpec => []PaidPlanHasSource
<1>1. BillingInv => PaidPlanHasSource
  BY DEF BillingInv, PaidPlanHasSource, LicenseInv
<1> QED
  BY <1>1, BillingInvariant, PTL

==============================================================================

--------------------------- MODULE OperationalPush ---------------------------
(***************************************************************************)
(* The push half of a sync run: the queue of operational events on one     *)
(* device (sqlite_operational_sync_queue_repository.dart), the runner that *)
(* sends them in batches (operational_sync_runner.dart), and the requests  *)
(* they travel in.  The server is abstract here: it stores an event once   *)
(* and answers "duplicates" afterwards, which SyncEventLog details.        *)
(*                                                                         *)
(* Events are numbered in the order the device enqueues them, which is the *)
(* order of created_at, id in which listPending returns them.              *)
(***************************************************************************)
EXTENDS Integers, FiniteSets

CONSTANTS
    N,         \* events the device enqueues
    MaxBatch,  \* maxEventsPerBatch of the runner
    Requests,  \* push requests that can be under way at once
    None,      \* no request
    MaxFaults  \* bound: crashes, cancelled runs, lost or failed requests

ASSUME PushAssumption ==
    /\ N \in Nat \ {0} /\ MaxBatch \in Nat \ {0}
    /\ None \notin Requests
    /\ MaxFaults \in Nat

Events == 1..N

VARIABLES
    queue,   \* status of each row of operational_sync_events
    timer,   \* next_retry_at of a failed row, pushing_started_at of a pushing
    phase,   \* where the runner is
    current, \* the request whose answer it awaits
    batch,   \* the rows it listed
    answers, \* the bucket each event of the answer was in
    request, \* the requests on the server: events to serve, answers so far
    store,   \* the status under which the server stored an event
    faults   \* crashes and failures so far

deviceVars == <<queue, timer, phase, current, batch, answers>>
vars == <<queue, timer, phase, current, batch, answers, request, store, faults>>

Terminal == {"accepted", "duplicates", "rejected", "conflicts"}
RowStatuses == {"none", "pending", "pushing", "failed"} \cup Terminal
Phases == {"idle", "recovered", "waiting", "marking"}
Stored == {"accepted", "rejected", "conflicts", "failed"}
NoAnswers == [e \in Events |-> "none"]
FreeSlot == [running |-> FALSE, todo |-> {}, answers |-> NoAnswers]

TypeOK ==
    /\ queue \in [Events -> RowStatuses]
    /\ timer \in [Events -> {"none", "waiting", "due"}]
    /\ phase \in Phases
    /\ current \in Requests \cup {None}
    /\ batch \subseteq Events
    /\ answers \in [Events -> Terminal \cup {"none"}]
    /\ request \in [Requests -> [running : BOOLEAN, todo : SUBSET Events,
                                 answers : [Events -> Terminal \cup {"none"}]]]
    /\ store \in [Events -> Stored \cup {"absent"}]
    /\ faults \in 0..MaxFaults

Init ==
    /\ queue = [e \in Events |-> "none"]
    /\ timer = [e \in Events |-> "none"]
    /\ phase = "idle" /\ current = None
    /\ batch = {} /\ answers = NoAnswers
    /\ request = [r \in Requests |-> FreeSlot]
    /\ store = [e \in Events |-> "absent"]
    /\ faults = 0

Smallest(S) == {e \in S : \A f \in S : e <= f}

(* Mutant: the newest events come first.                                   *)
FirstOf_Newest(S) == {e \in S : Cardinality({f \in S : f > e}) < MaxBatch}

(* The first MaxBatch events of S, in the order they were created.         *)
FirstOf(S) == {e \in S : Cardinality({f \in S : f < e}) < MaxBatch}

SetRows(S, status, time) ==
    /\ queue' = [e \in Events |-> IF e \in S THEN status ELSE queue[e]]
    /\ timer' = [e \in Events |-> IF e \in S THEN time ELSE timer[e]]

(* The runner forgets the batch and waits for the next run.                *)
EndPush == phase' = "idle" /\ current' = None /\ batch' = {} /\ answers' = NoAnswers

Fault == faults < MaxFaults /\ faults' = faults + 1

-----------------------------------------------------------------------------
(* The device.                                                             *)

Enqueue(e) ==
    /\ queue[e] = "none"
    /\ \A f \in Events : f < e => queue[f] # "none"
    /\ SetRows({e}, "pending", "none")
    /\ UNCHANGED <<phase, current, batch, answers, request, store, faults>>

(* Two minutes since a row began to be pushed, or the backoff of a failed. *)
Tick(e) ==
    /\ timer[e] = "waiting"
    /\ timer' = [timer EXCEPT ![e] = "due"]
    /\ UNCHANGED <<queue, phase, current, batch, answers, request, store, faults>>

(* Mutant: rows that were being pushed are left alone.                     *)
RecoverStalePushing_Never ==
    /\ phase = "idle"
    /\ phase' = "recovered"
    /\ UNCHANGED <<queue, timer, current, batch, answers, request, store, faults>>

(* recoverStalePushing, at the start of a run.                             *)
RecoverStalePushing ==
    /\ phase = "idle"
    /\ phase' = "recovered"
    /\ SetRows({e \in Events : queue[e] = "pushing" /\ timer[e] = "due"},
               "pending", "none")
    /\ UNCHANGED <<current, batch, answers, request, store, faults>>

(* What listPending selects: a failed row needs a retry time that is past, *)
(* unless the user forces the run.                                         *)
Listed(retryOnly, ignoreRetryBackoff) ==
    {e \in Events :
        \/ queue[e] = "pending" /\ ~retryOnly
        \/ queue[e] = "failed" /\ (ignoreRetryBackoff \/ timer[e] = "due")}

(* listPending, markPushing and the start of the request.                  *)
Push(retryOnly, ignoreRetryBackoff) ==
    /\ phase = "recovered"
    /\ LET items == FirstOf(Listed(retryOnly, ignoreRetryBackoff)) IN
       IF items = {}
       THEN EndPush /\ UNCHANGED <<queue, timer, request>>
       ELSE \E r \in Requests :
               /\ ~request[r].running
               /\ SetRows(items, "pushing", "waiting")
               /\ request' = [request EXCEPT ![r] =
                     [running |-> TRUE, todo |-> items, answers |-> NoAnswers]]
               /\ phase' = "waiting" /\ current' = r /\ batch' = items
               /\ UNCHANGED answers
    /\ UNCHANGED <<store, faults>>

(* Mutant: the runner does not await the answer, and takes an event it has *)
(* no answer for as accepted.                                              *)
Respond_Optimistic(r) ==
    /\ phase = "waiting" /\ current = r
    /\ request[r].running
    /\ phase' = "marking" /\ current' = None
    /\ answers' = [e \in Events |->
                      IF e \in request[r].todo THEN "accepted"
                      ELSE request[r].answers[e]]
    /\ UNCHANGED <<queue, timer, batch, request, store, faults>>

(* The response of the request arrives while the runner waits for it.      *)
Respond(r) ==
    /\ phase = "waiting" /\ current = r
    /\ request[r].running /\ request[r].todo = {}
    /\ phase' = "marking" /\ current' = None
    /\ answers' = request[r].answers
    /\ request' = [request EXCEPT ![r] = FreeSlot]
    /\ UNCHANGED <<queue, timer, batch, store, faults>>

Unmarked == {e \in batch : answers[e] # "none"}
Rank(bucket) ==
    CASE bucket = "accepted" -> 1 [] bucket = "duplicates" -> 2
      [] bucket = "rejected" -> 3 [] OTHER -> 4

(* markAccepted, markDuplicate, markRejected, markConflict: one row a time,*)
(* bucket by bucket, whatever the row says now.                            *)
Mark(e) ==
    /\ phase = "marking"
    /\ e \in Unmarked
    /\ \A f \in Unmarked : \/ Rank(answers[f]) > Rank(answers[e])
                           \/ answers[f] = answers[e] /\ e <= f
    /\ SetRows({e}, answers[e], "none")
    /\ answers' = [answers EXCEPT ![e] = "none"]
    /\ UNCHANGED <<phase, current, batch, request, store, faults>>

Finish ==
    /\ phase = "marking" /\ Unmarked = {}
    /\ EndPush
    /\ UNCHANGED <<queue, timer, request, store, faults>>

(* markFailed on the whole batch, answered rows included.                  *)
FailBatch ==
    /\ SetRows(batch, "failed", "waiting")
    /\ EndPush
    /\ UNCHANGED <<request, store>>

(* The request is gone.                                                    *)
NoAnswer ==
    /\ phase = "waiting" /\ ~request[current].running
    /\ FailBatch
    /\ UNCHANGED faults

(* The receive timeout of 20 seconds, while the request goes on.           *)
Timeout ==
    /\ phase = "waiting" /\ request[current].running
    /\ Fault
    /\ FailBatch

(* A local exception between two marks ends in the same catch block.       *)
MarkingFails ==
    /\ phase = "marking"
    /\ Fault
    /\ FailBatch

(* TenantPendingDeletionException: the server refuses the request before   *)
(* it looks at an event, and the rows get no retry time.                   *)
RefusePendingDeletion(r) ==
    /\ phase = "waiting" /\ current = r
    /\ request[r].todo = batch
    /\ Fault
    /\ SetRows(batch, "failed", "none")
    /\ request' = [request EXCEPT ![r] = FreeSlot]
    /\ EndPush
    /\ UNCHANGED store

(* The app is killed, or the run is cancelled when the answer arrives: the *)
(* rows stay "pushing".                                                    *)
Stop ==
    /\ phase # "idle"
    /\ Fault
    /\ EndPush
    /\ UNCHANGED <<queue, timer, request, store>>

-----------------------------------------------------------------------------
(* The server.                                                             *)

(* Mutant: an event that is delivered again is processed again.            *)
Serve_NoLookup(r) ==
    /\ request[r].running
    /\ \E e \in Smallest(request[r].todo), s \in Stored :
          /\ store' = [store EXCEPT ![e] = s]
          /\ request' = [request EXCEPT
                ![r].todo = @ \ {e},
                ![r].answers[e] = IF s = "failed" THEN "rejected" ELSE s]
    /\ UNCHANGED <<deviceVars, faults>>

(* The next event of a request: stored once, answered "duplicates" later.  *)
(* A failure is stored and answered as a rejection.                        *)
Serve(r) ==
    /\ request[r].running
    /\ \E e \in Smallest(request[r].todo) :
          \/ /\ store[e] = "absent"
             /\ \E s \in Stored :
                   /\ store' = [store EXCEPT ![e] = s]
                   /\ request' = [request EXCEPT
                         ![r].todo = @ \ {e},
                         ![r].answers[e] = IF s = "failed" THEN "rejected" ELSE s]
          \/ /\ store[e] # "absent"
             /\ request' = [request EXCEPT ![r].todo = @ \ {e},
                                           ![r].answers[e] = "duplicates"]
             /\ UNCHANGED store
    /\ UNCHANGED <<deviceVars, faults>>

(* A request nobody waits for any more ends unheard.                       *)
Discard(r) ==
    /\ request[r].running /\ current # r /\ request[r].todo = {}
    /\ request' = [request EXCEPT ![r] = FreeSlot]
    /\ UNCHANGED <<deviceVars, store, faults>>

(* The request is lost on its way, or the server stops, or two requests    *)
(* store the same event at once and the unique key fails the second.       *)
Drop(r) ==
    /\ request[r].running
    /\ Fault
    /\ request' = [request EXCEPT ![r] = FreeSlot]
    /\ UNCHANGED <<deviceVars, store>>

RunPush == Push(FALSE, FALSE)

Next ==
    \/ \E e \in Events : Enqueue(e) \/ Tick(e) \/ Mark(e)
    \/ RecoverStalePushing
    \/ \E retryOnly, force \in BOOLEAN : Push(retryOnly, force)
    \/ Finish \/ NoAnswer \/ Timeout \/ MarkingFails \/ Stop
    \/ \E r \in Requests :
          \/ Respond(r) \/ RefusePendingDeletion(r)
          \/ Serve(r) \/ Discard(r) \/ Drop(r)

(* Auto sync runs the whole queue after each change, when a retry is due   *)
(* and at least every five minutes, so full runs never cease (SF: a run of *)
(* the retries alone may come between); requests end, timers expire.       *)
Fairness ==
    /\ WF_vars(RecoverStalePushing) /\ SF_vars(RunPush)
    /\ WF_vars(NoAnswer) /\ WF_vars(Finish)
    /\ \A e \in Events : WF_vars(Tick(e)) /\ WF_vars(Mark(e))
    /\ \A r \in Requests :
          WF_vars(Respond(r)) /\ WF_vars(Serve(r)) /\ WF_vars(Discard(r))

Spec == Init /\ [][Next]_vars
FairSpec == Spec /\ Fairness

-----------------------------------------------------------------------------
(* Properties.                                                             *)

(* A row the device regards as settled is stored on the server: no crash,  *)
(* timeout, late answer or overlapping request settles a row whose event   *)
(* the server never kept.                                                  *)
SettledIsStored ==
    \A e \in Events : queue[e] \in Terminal => store[e] # "absent"

(* What the server answered under its own name is what it stored: a row    *)
(* shown as accepted, refused or in conflict is exactly that on the server.*)
AnswerIsTrue ==
    \A e \in Events :
        /\ queue[e] \in {"accepted", "conflicts"} => store[e] = queue[e]
        /\ queue[e] = "rejected" => store[e] \in {"rejected", "failed"}

(* Events reach the server in the order the device created them: only a    *)
(* fault lets a later one overtake an earlier one.                         *)
StoredInOrder ==
    \A e, f \in Events :
        e < f /\ store[f] # "absent" /\ store[e] = "absent" => faults > 0

(* Every event is settled in the end, or waits without a retry time        *)
(* because the company is about to be deleted.                             *)
EventuallySettled ==
    \A e \in Events :
        queue[e] = "pending" ~>
            queue[e] \in Terminal \/ (queue[e] = "failed" /\ timer[e] = "none")

=============================================================================

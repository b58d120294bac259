---------------------------- MODULE SyncEventLog ----------------------------
(***************************************************************************)
(* The server side of the operational sync of one company:                 *)
(* backend/src/modules/sync/sync-event.service.ts on PostgreSQL.           *)
(*                                                                         *)
(* A pushed event is looked up by (company, device, eventId), materialised *)
(* in a transaction that also allocates the next company version, and      *)
(* stored once.  Handlers are the HTTP requests being served: each works   *)
(* on one event at a time and they interleave at every database round      *)
(* trip, because a client that gave up after its receive timeout of 20     *)
(* seconds leaves its request running.                                     *)
(*                                                                         *)
(* Transactions run at READ COMMITTED: what a transaction wrote is kept in *)
(* tx[p].writes and becomes visible at Commit.  The row of                 *)
(* CompanySyncState is locked by the first version a transaction allocates *)
(* until it ends; "lock" is the handler that holds it.                     *)
(***************************************************************************)
EXTENDS Integers

CONSTANTS
    Events,     \* the events devices push
    Entities,   \* the domain rows they create or update
    Handlers,   \* requests the server is working on
    Devices,
    DeviceOf,   \* the device that enqueued an event
    KindOf,     \* "order", "update" (of an order), "item" (that names its
                \* order by local id), "linkedItem" (by server id), "other"
    EntityOf,   \* the row an event creates, or updates
    OrderOf,    \* the order row an item or an update needs
    Malformed,  \* events the zod schema refuses
    Refused,    \* events of a server-first entity, or of no valid operation
    Reprocessable, \* events the admin's diagnostics call REPROCESSABLE whatever
                \* their status: stock deductions (a cash session, which is
                \* upserted, is not in this model)
    None,       \* no handler, no event
    MaxVersion  \* bound: no reprocess starts beyond this version

Kinds == {"order", "item", "linkedItem", "update", "other"}

ASSUME ConstantsAssumption ==
    /\ DeviceOf \in [Events -> Devices]
    /\ KindOf \in [Events -> Kinds]
    /\ EntityOf \in [Events -> Entities]
    /\ OrderOf \in [Events -> Entities]
    /\ Malformed \subseteq Events /\ Refused \subseteq Events
    /\ Reprocessable \subseteq {e \in Events : KindOf[e] = "other"}
    /\ None \notin Handlers \cup Events
    /\ MaxVersion \in Nat

VARIABLES
    log,      \* SyncEvent rows: status and serverVersion (0 is null)
    rows,     \* domain rows that exist: orders, items, sales, ...
    conflict, \* SyncConflict of an event: status and code
    version,  \* CompanySyncState.currentVersion
    lock,     \* the handler whose transaction holds that row
    phase,    \* where each handler is
    tx,       \* its transaction: event, job, uncommitted writes
    reply     \* the bucket of the last event it finished

logVars == <<log, rows, conflict, version>>
handlerVars == <<lock, phase, tx, reply>>
serverVars == <<log, rows, conflict, version, lock, phase, tx, reply>>

Statuses == {"absent", "PENDING", "ACCEPTED", "DUPLICATE", "REJECTED",
             "CONFLICT", "FAILED"}
Phases == {"idle", "refusing", "begun", "decided", "written", "dependents",
           "failing", "done"}
Buckets == {"none", "accepted", "duplicates", "rejected", "conflicts", "error"}
Codes == {"none", "ORDER_NOT_FOUND", "OTHER"}

Absent == [status |-> "absent", version |-> 0]
NoConflict == [status |-> "none", code |-> "none"]
NoEvents == [e \in Events |-> Absent]
NoWrite == [status |-> "absent", version |-> 0, code |-> "none"]
NoWrites == [e \in Events |-> NoWrite]
Opened(e, job) ==
    [event |-> e, job |-> job, writes |-> NoWrites, todo |-> {}, top |-> 0]
NoTx == Opened(None, "push")

LogRecord == [status : Statuses, version : Nat]
ConflictRecord == [status : {"none", "OPEN", "RESOLVED"}, code : Codes]
WriteRecord == [status : Statuses, version : Nat, code : Codes]
TxRecord ==
    [event : Events \cup {None}, job : {"push", "reprocess", "admin"},
     writes : [Events -> WriteRecord], todo : SUBSET Events, top : Nat]

TypeOK ==
    /\ log \in [Events -> LogRecord]
    /\ rows \subseteq Entities
    /\ conflict \in [Events -> ConflictRecord]
    /\ version \in Nat
    /\ lock \in Handlers \cup {None}
    /\ phase \in [Handlers -> Phases]
    /\ tx \in [Handlers -> TxRecord]
    /\ reply \in [Handlers -> Buckets]

Init ==
    /\ log = NoEvents
    /\ rows = {}
    /\ conflict = [e \in Events |-> NoConflict]
    /\ version = 0
    /\ lock = None
    /\ phase = [p \in Handlers |-> "idle"]
    /\ tx = [p \in Handlers |-> NoTx]
    /\ reply = [p \in Handlers |-> "none"]

-----------------------------------------------------------------------------
(* Reading the stored events.                                              *)

Stored(e) == log[e].status # "absent"

(* pull returns accepted events, and conflicts nobody resolved.            *)
Visible(e) ==
    \/ log[e].status = "ACCEPTED"
    \/ log[e].status = "CONFLICT" /\ conflict[e].status # "RESOLVED"

Creates(e) == KindOf[e] # "update"

(* Rows created by the transaction of p and not yet committed.             *)
CreatedBy(p) ==
    {EntityOf[e] : e \in {f \in Events : /\ tx[p].writes[f].status = "ACCEPTED"
                                         /\ Creates(f)}}

MissesOrder(e, seen) ==
    /\ KindOf[e] \in {"linkedItem", "update"}
    /\ OrderOf[e] \notin seen

(* What the materializer may answer for e when it sees the rows "seen". An *)
(* item waits for an order that is missing, an update of it or an item     *)
(* that names it by server id is a conflict.                               *)
Outcomes(e, seen) ==
    CASE Creates(e) /\ EntityOf[e] \in seen -> {"duplicate"}
      [] KindOf[e] = "item" /\ EntityOf[e] \notin seen
                            /\ OrderOf[e] \notin seen -> {"deferred", "rejected"}
      [] MissesOrder(e, seen) -> {"conflict", "rejected"}
      [] OTHER -> {"accepted", "conflict", "rejected"}

ConflictCode(e, seen) ==
    IF MissesOrder(e, seen) THEN "ORDER_NOT_FOUND" ELSE "OTHER"

StatusOf(outcome) ==
    CASE outcome = "accepted"  -> "ACCEPTED"
      [] outcome = "duplicate" -> "DUPLICATE"
      [] outcome = "rejected"  -> "REJECTED"
      [] outcome = "deferred"  -> "PENDING"
      [] outcome = "conflict"  -> "CONFLICT"

TakesVersion(outcome) == outcome \in {"accepted", "conflict"}

(* The bucket of the push response that reports an outcome: a deferred     *)
(* event is reported as accepted.                                          *)
BucketOf(status) ==
    CASE status \in {"ACCEPTED", "PENDING"} -> "accepted"
      [] status = "DUPLICATE" -> "duplicates"
      [] status = "CONFLICT"  -> "conflicts"
      [] OTHER -> "rejected"

Finish(p, bucket) ==
    /\ phase' = [phase EXCEPT ![p] = "done"]
    /\ reply' = [reply EXCEPT ![p] = bucket]

Begin(p, e, job) == tx' = [tx EXCEPT ![p] = Opened(e, job)]

(* The transaction of p is over: its lock and uncommitted writes are gone. *)
EndTransaction(p) ==
    /\ lock' = IF lock = p THEN None ELSE lock
    /\ tx' = [tx EXCEPT ![p] = Opened(@.event, @.job)]

-----------------------------------------------------------------------------
(* push: one event of a request.                                           *)

(* The schema check, then findUnique: a stored event, whatever its status, *)
(* is answered "duplicates".  A malformed event is refused unseen.         *)
Receive(p, e) ==
    /\ phase[p] = "idle"
    /\ Begin(p, e, "push")
    /\ IF e \notin Malformed /\ Stored(e)
       THEN Finish(p, "duplicates")
       ELSE /\ phase' = [phase EXCEPT ![p] = IF e \in Malformed \cup Refused
                                             THEN "refusing" ELSE "begun"]
            /\ UNCHANGED reply
    /\ UNCHANGED <<logVars, lock>>

(* createRejectedSyncEvent is a plain insert: when the event is already    *)
(* stored it violates the unique key, and the whole request fails.         *)
StoreRefusal(p) ==
    /\ phase[p] = "refusing"
    /\ LET e == tx[p].event IN
       IF Stored(e)
       THEN Finish(p, "error") /\ UNCHANGED log
       ELSE /\ Finish(p, "rejected")
            /\ log' = [log EXCEPT ![e] = [status |-> "REJECTED", version |-> 0]]
    /\ UNCHANGED <<rows, conflict, version, lock, tx>>

(* What a transaction writes for e; a version is allocated apart.          *)
Write(e, outcome, seen, v) ==
    [status |-> StatusOf(outcome),
     version |-> IF TakesVersion(outcome) THEN v ELSE 0,
     code |-> IF outcome = "conflict" THEN ConflictCode(e, seen) ELSE "none"]

(* The transaction t once it wrote w for e.                                *)
WithWrite(t, e, w) ==
    [t EXCEPT !.writes = [@ EXCEPT ![e] = w],
              !.top = IF w.version = 0 THEN @ ELSE w.version,
              !.todo = @ \ {e}]

(* The write of its own event, with a version.                             *)
WithVersion(t, v) ==
    WithWrite(t, t.event, [t.writes[t.event] EXCEPT !.version = v])

(* The materializer reads the committed rows and decides.                  *)
Materialize(p) ==
    /\ phase[p] = "begun"
    /\ LET e == tx[p].event IN
       \E outcome \in Outcomes(e, rows) :
          /\ tx' = [tx EXCEPT ![p] = WithWrite(@, e, Write(e, outcome, rows, 0))]
          /\ phase' = [phase EXCEPT ![p] = IF TakesVersion(outcome)
                                           THEN "decided" ELSE "written"]
    /\ UNCHANGED <<logVars, lock, reply>>

(* nextCompanyVersion: an upsert that increments the version row, and so   *)
(* waits for the transaction that holds it.                                *)
NextCompanyVersion(p) ==
    /\ phase[p] = "decided"
    /\ lock = None
    /\ lock' = p
    /\ tx' = [tx EXCEPT ![p] = WithVersion(@, version + 1)]
    /\ phase' = [phase EXCEPT ![p] = "written"]
    /\ UNCHANGED <<logVars, reply>>

(* An accepted order looks for the pending items of its own device.        *)
FindDependents(p) ==
    /\ phase[p] = "written"
    /\ tx[p].job = "push"
    /\ KindOf[tx[p].event] \in {"order", "update"}
    /\ tx[p].writes[tx[p].event].status = "ACCEPTED"
    /\ tx' = [tx EXCEPT ![p].todo =
                 {e \in Events : /\ DeviceOf[e] = DeviceOf[tx[p].event]
                                 /\ KindOf[e] \in {"item", "linkedItem"}
                                 /\ log[e].status = "PENDING"}]
    /\ phase' = [phase EXCEPT ![p] = "dependents"]
    /\ UNCHANGED <<logVars, lock, reply>>

(* materializeStoredEvent for one of them, in the same transaction.        *)
MaterializeDependent(p, e) ==
    /\ phase[p] = "dependents"
    /\ e \in tx[p].todo
    /\ LET seen == rows \cup CreatedBy(p) IN
       \E outcome \in Outcomes(e, seen) :
          tx' = [tx EXCEPT
                   ![p] = WithWrite(@, e, Write(e, outcome, seen, @.top + 1))]
    /\ UNCHANGED <<logVars, lock, phase, reply>>

(* Mutant: no unique key on the domain rows, the earlier look-up decides.   *)
Violates_EventKeyOnly(p) == tx[p].job = "push" /\ Stored(tx[p].event)

(* Unique keys: the event of a push, and every row the transaction makes.  *)
Violates(p) ==
    \/ tx[p].job = "push" /\ Stored(tx[p].event)
    \/ CreatedBy(p) \cap rows # {}

ReadyToCommit(p) ==
    \/ phase[p] = "dependents" /\ tx[p].todo = {}
    \/ /\ phase[p] = "written"
       /\ \/ tx[p].job # "push"
          \/ KindOf[tx[p].event] \notin {"order", "update"}
          \/ tx[p].writes[tx[p].event].status # "ACCEPTED"

(* Mutant: a stored event that is materialised keeps the version it had.   *)
Merged_KeepsVersion(p, e) ==
    LET w == tx[p].writes[e] IN
    IF w.status = "absent" \/ (w.status = "PENDING" /\ Stored(e)) THEN log[e]
    ELSE [status |-> w.status,
          version |-> IF Stored(e) THEN log[e].version ELSE w.version]

(* The row of e after the commit.  The updates of materializeStoredEvent    *)
(* keep the version when they allocate none, and everything when the       *)
(* materializer defers again.                                              *)
Merged(p, e) ==
    LET w == tx[p].writes[e] IN
    IF w.status = "absent" \/ (w.status = "PENDING" /\ Stored(e)) THEN log[e]
    ELSE [status |-> w.status,
          version |-> IF w.version = 0 THEN log[e].version ELSE w.version]

(* Mutant: a reprocessed conflict is not resolved.                         *)
ConflictAfter_NeverResolves(p, e) ==
    LET w == tx[p].writes[e] IN
    IF tx[p].job # "reprocess" /\ w.status = "CONFLICT"
    THEN [status |-> "OPEN", code |-> w.code] ELSE conflict[e]

ConflictAfter(p, e) ==
    LET w == tx[p].writes[e] IN
    CASE tx[p].job # "reprocess" /\ w.status = "CONFLICT" ->
            [status |-> "OPEN", code |-> w.code]
      [] tx[p].job = "reprocess" /\ w.status \in {"ACCEPTED", "DUPLICATE"} ->
            [conflict[e] EXCEPT !.status = "RESOLVED"]
      [] OTHER -> conflict[e]

Commit(p) ==
    /\ ReadyToCommit(p)
    /\ ~Violates(p)
    /\ log' = [e \in Events |-> Merged(p, e)]
    /\ rows' = rows \cup CreatedBy(p)
    /\ conflict' = [e \in Events |-> ConflictAfter(p, e)]
    /\ version' = IF lock = p THEN tx[p].top ELSE version
    /\ EndTransaction(p)
    /\ Finish(p, BucketOf(tx[p].writes[tx[p].event].status))

(* A unique violation, a deadlock victim, a transaction timeout or any     *)
(* other exception rolls the transaction back; push then records FAILED.   *)
Rollback(p) ==
    /\ phase[p] \in {"begun", "decided", "written", "dependents"}
    /\ EndTransaction(p)
    /\ IF tx[p].job = "push"
       THEN phase' = [phase EXCEPT ![p] = "failing"] /\ UNCHANGED reply
       ELSE Finish(p, "error")
    /\ UNCHANGED logVars

(* failEvent inserts in turn, and may meet the unique key itself.          *)
FailEvent(p) ==
    /\ phase[p] = "failing"
    /\ LET e == tx[p].event IN
       IF Stored(e)
       THEN Finish(p, "error") /\ UNCHANGED log
       ELSE /\ Finish(p, "rejected")
            /\ log' = [log EXCEPT ![e] = [status |-> "FAILED", version |-> 0]]
    /\ UNCHANGED <<rows, conflict, version, lock, tx>>

(* The server process stops: open transactions are rolled back and the     *)
(* request is never answered.                                              *)
Crash(p) ==
    /\ phase[p] \notin {"idle", "done"}
    /\ EndTransaction(p)
    /\ Finish(p, "error")
    /\ UNCHANGED logVars

(* The handler goes on to the next event of its request, or ends.          *)
Release(p) ==
    /\ phase[p] = "done"
    /\ phase' = [phase EXCEPT ![p] = "idle"]
    /\ tx' = [tx EXCEPT ![p] = NoTx]
    /\ reply' = [reply EXCEPT ![p] = "none"]
    /\ UNCHANGED <<logVars, lock>>

-----------------------------------------------------------------------------
(* Conflicts and reprocessing, from the owner's and the admin's screens.   *)

(* reprocessConflict tests the conflict before its transaction begins.     *)
StartReprocess(p, e) ==
    /\ phase[p] = "idle"
    /\ version < MaxVersion
    /\ conflict[e] = [status |-> "OPEN", code |-> "ORDER_NOT_FOUND"]
    /\ Begin(p, e, "reprocess")
    /\ phase' = [phase EXCEPT ![p] = "begun"]
    /\ UNCHANGED <<logVars, lock, reply>>

(* The admin's reprocessEvent classifies the event by its entity and       *)
(* payload, before its transaction begins; its status is not looked at.    *)
StartAdminReprocess(p, e) ==
    /\ phase[p] = "idle"
    /\ version < MaxVersion
    /\ e \in Reprocessable /\ Stored(e)
    /\ Begin(p, e, "admin")
    /\ phase' = [phase EXCEPT ![p] = "begun"]
    /\ UNCHANGED <<logVars, lock, reply>>

(* resolve and archiveConflict: only the conflict is closed.               *)
Resolve(e) ==
    /\ conflict[e].status = "OPEN"
    /\ conflict' = [conflict EXCEPT ![e].status = "RESOLVED"]
    /\ UNCHANGED <<log, rows, version, handlerVars>>

Handle(p) ==
    \/ StoreRefusal(p)
    \/ Materialize(p)
    \/ NextCompanyVersion(p)
    \/ FindDependents(p)
    \/ \E e \in Events : MaterializeDependent(p, e)
    \/ Commit(p)
    \/ Rollback(p)
    \/ FailEvent(p)
    \/ Crash(p)

Next ==
    \/ \E p \in Handlers, e \in Events :
          Receive(p, e) \/ StartReprocess(p, e) \/ StartAdminReprocess(p, e)
    \/ \E p \in Handlers : Handle(p) \/ Release(p)
    \/ \E e \in Events : Resolve(e)

Spec == Init /\ [][Next]_serverVars

-----------------------------------------------------------------------------
(* Properties.                                                             *)

(* Two stored events never share a company version, and none is beyond the *)
(* current one: a checkpoint names one point of the company's history.     *)
VersionsUnique ==
    \A e, f \in Events :
        /\ log[e].version <= version
        /\ log[e].version = log[f].version /\ log[e].version # 0 => e = f

(* A version becomes visible after every smaller one: whatever a commit    *)
(* adds to the log lies beyond the version that was current before it.     *)
(* Otherwise a device whose checkpoint already passed would never pull it. *)
VersionsCommitInOrder ==
    [][\A e \in Events : log'[e].version # log[e].version
                             => log'[e].version > version]_serverVars

Creators(x) ==
    {e \in Events : Creates(e) /\ EntityOf[e] = x /\ log[e].status = "ACCEPTED"}

(* However often an event is delivered, and under whatever event ids, at  *)
(* most one accepted event created a domain row, and the row of every      *)
(* accepted one is there: nothing is materialised twice, and nothing that  *)
(* was answered "accepted" with a version is lost by a rollback.           *)
RowsHaveOneCreator ==
    \A x \in Entities :
        /\ Creators(x) # {} => x \in rows
        /\ \A e, f \in Creators(x) : e = f

(* A conflict waits for review exactly as long as its event is not applied:*)
(* every conflicting event has a conflict, and an open one is about an     *)
(* event that is not in the accepted history.  Events the admin may        *)
(* reprocess are left out: that path never closes the conflict.            *)
ConflictsMatchEvents ==
    \A e \in Events :
        /\ log[e].status = "CONFLICT" => conflict[e].status # "none"
        /\ conflict[e].status = "OPEN" /\ e \notin Reprocessable =>
              log[e].status \in {"CONFLICT", "REJECTED"}

(* The feed pull reads: versions commit in order, and an event that becomes *)
(* visible does so beyond the version that was current before it.          *)
Feed == INSTANCE VersionFeed WITH
            top <- version,
            position <- [e \in Events |-> log[e].version],
            live <- {e \in Events : Visible(e)}

FeedSpec == Feed!Spec

(* sync.routes.test.ts:2313 has a deferred item materialised when its      *)
(* order arrives: no item waits for an order that is already there.        *)
NoItemLeftBehind ==
    \A e \in Events : log[e].status = "PENDING" => OrderOf[e] \notin rows
=============================================================================

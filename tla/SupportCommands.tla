---------------------------- MODULE SupportCommands ----------------------------
(***************************************************************************)
(* How support helps one device whose synchronisation is stuck.  The device *)
(* reports a diagnostic; an administrator sends it a command; the device    *)
(* starts it, executes it and tells the outcome; a command that nobody ends *)
(* expires.  In the sync center administrators archive conflicts and apply  *)
(* stored events again, guided by a classification of the event.            *)
(*                                                                          *)
(* The server answers a request in the statements of its handler, between   *)
(* which those of others run.  A device that waits too long gives up, and   *)
(* its request may still be answered, in any order with the later ones.     *)
(* Commands and diagnostics are stored by device, so one device shows all.  *)
(***************************************************************************)
EXTENDS Naturals, FiniteSets

CONSTANTS Commands,         \* identities of commands
          Items,            \* order items in the queue of the device
          StoredEvents,     \* stored events of the company
          Admins,           \* administrators, and the user of the app who resolves conflicts
          Budgets,          \* bound: the commands asked for, rounds, failures and decisions
          Nothing

Types == {"CLEAR_RESOLVED_CONFLICT_CACHE", "REPAIR_OPERATIONAL_ORDER_ITEM_TOTAL_CENTS",
          "RETRY_FAILED_SYNC_EVENTS", "FORCE_SYNC_PULL", "REFRESH_SYNC_STATUS"}
Statuses == {"none", "PENDING", "RUNNING", "SUCCEEDED", "FAILED", "EXPIRED"}
Ended == {"SUCCEEDED", "FAILED", "EXPIRED"}
Totals == {"kept", "derivable", "lost"}  \* of an order item, in its payload
Payloads == {"remote", "local", "unidentified", "cash", "sensitive", "other"}
EventStatuses == {"ACCEPTED", "DUPLICATE", "REJECTED", "CONFLICT", "FAILED"}
Spendings == Types \cup {"rounds", "failures", "decisions", "mappings"}

ASSUME SupportAssumption ==
    /\ Budgets \subseteq [Spendings -> Nat]
    /\ Nothing \notin Commands \cup StoredEvents
    /\ IsFiniteSet(Items) /\ IsFiniteSet(StoredEvents)

VARIABLES command,    \* SyncSupportCommand: its type and status
          due,        \* the commands whose expiresAt has passed
          diagnostic, \* DeviceSyncDiagnostic: failed changes of the device, or Nothing
          requests,   \* requests of the device that the server has yet to answer
          device,     \* what the runner of the device is doing
          item,       \* operational_sync_events of the device: order items
          cached,     \*   and the conflicts it still shows
          event,      \* SyncEvent: its status
          conflict,   \* SyncConflict: none, OPEN or RESOLVED
          payload,    \* what an event carries, as the classification sees it
          mapped,     \* events whose product exists in the company
          incident,   \* severity of the newest SyncIncident
          job,        \* the request of each administrator
          budget,     \* what may still be spent
          executed,   \* history: commands executed, once more for each time
          done,       \* history: commands whose execution succeeded
          archived,   \* history: events whose conflict was archived
          raced       \* history: commands and events written from a stale read

history == <<executed, done, archived, raced>>
server == <<command, due, diagnostic>>
local == <<item, cached>>
center == <<event, conflict, payload, mapped, incident>>
supportVars == <<server, requests, device, local, center, job, budget, history>>

Idle == [at |-> "idle", list |-> {}, c |-> Nothing, waits |-> 0, seen |-> {}]
Kinds == {"report", "start", "complete", "fail"}

\* Every row has the form of its table and the device does one thing at a time.
SupportTypeOK ==
    /\ command \in [Commands -> [type: Types \cup {Nothing}, status: Statuses]]
    /\ due \subseteq {c \in Commands : command[c].status # "none"}
    /\ diagnostic \in Nat \cup {Nothing}
    /\ \A r \in requests : r.id \in Nat \ {0} /\ r.kind \in Kinds
    /\ \A r, s \in requests : r.id = s.id => r = s
    /\ device.at \in {"idle", "conflicts", "report", "pull", "next", "start", "execute",
                      "told", "complete", "fail"}
    /\ device.list \subseteq Commands /\ device.seen \subseteq StoredEvents
    /\ device.at \in {"start", "execute", "told", "complete", "fail"} <=> device.c # Nothing
    /\ item \in [Items -> [status: {"failed", "pending"}, total: Totals]]
    /\ cached \subseteq StoredEvents
    /\ event \in [StoredEvents -> EventStatuses]
    /\ conflict \in [StoredEvents -> {"none", "OPEN", "RESOLVED"}]
    /\ payload \in [StoredEvents -> Payloads] /\ mapped \subseteq StoredEvents
    /\ incident \in {"none", "warn", "error"}
    /\ \A w \in Admins : job[w] # Nothing =>
          job[w].kind \in {"find", "create", "archive", "admin", "user"}
    /\ executed \in [Commands -> Nat]
    /\ done \subseteq Commands /\ archived \subseteq StoredEvents
    /\ raced \subseteq Commands \cup StoredEvents

SupportInit ==
    /\ command = [c \in Commands |-> [type |-> Nothing, status |-> "none"]]
    /\ due = {} /\ diagnostic = Nothing /\ requests = {} /\ device = Idle
    /\ item \in [Items -> [status: {"failed"}, total: Totals]]
    /\ payload \in [StoredEvents -> Payloads]
    /\ conflict \in [StoredEvents -> {"none", "OPEN"}]
    /\ event \in [StoredEvents -> {"CONFLICT", "FAILED", "REJECTED"}]
    /\ \A e \in StoredEvents : conflict[e] = "OPEN" <=> event[e] = "CONFLICT"
    /\ cached = {e \in StoredEvents : conflict[e] = "OPEN"}
    /\ incident = IF \E e \in StoredEvents : event[e] = "FAILED" THEN "error" ELSE "warn"
    /\ mapped = {}
    /\ job = [w \in Admins |-> Nothing]
    /\ budget \in Budgets
    /\ executed = [c \in Commands |-> 0]
    /\ done = {} /\ archived = {} /\ raced = {}

Spend(what) == budget[what] > 0 /\ budget' = [budget EXCEPT ![what] = @ - 1]

------------------------------------------------------------------------------
(***************************************************************************)
(* The server and the requests of the device.                              *)
(***************************************************************************)
SetStatus(cs, status) ==
    [c \in Commands |-> IF c \in cs THEN [command[c] EXCEPT !.status = status] ELSE command[c]]

Executable(c) == command[c].status \in {"PENDING", "RUNNING"}
IsExecutableExpired(c) == c \in due /\ Executable(c)
ExpireCommands == SetStatus({c \in Commands : IsExecutableExpired(c)}, "EXPIRED")

\* The 24 hours of a command are over.
Deadline(c) ==
    /\ Executable(c) /\ c \notin due
    /\ due' = due \cup {c}
    /\ UNCHANGED <<command, diagnostic, requests, device, local, center, job, budget, history>>

\* What the device does once its request was answered, or it gave up waiting:
\* a start that is not confirmed as running is left, one that failed is told as failed.
Received(kind, answer) ==
    CASE kind = "report" /\ device.at = "report" -> [device EXCEPT !.at = "pull", !.waits = 0]
      [] kind = "report" /\ device.at = "told" -> [device EXCEPT !.at = "complete", !.waits = 0]
      [] kind = "start" /\ answer = "RUNNING" -> [device EXCEPT !.at = "execute", !.waits = 0]
      [] kind = "start" /\ answer = "error" -> [device EXCEPT !.at = "fail", !.waits = 0]
      [] OTHER -> [device EXCEPT !.at = "next", !.c = Nothing, !.waits = 0]

Answer(r, answer) ==
    /\ requests' = requests \ {r}
    /\ device' = IF device.waits = r.id THEN Received(r.kind, answer) ELSE device

Proceed(r, phase) ==
    /\ requests' = (requests \ {r}) \cup {[r EXCEPT !.phase = phase, !.seen = command[r.c].status]}
    /\ UNCHANGED device

Untouched == UNCHANGED <<due, local, center, job, budget, executed, done, archived>>

\* A later report is overwritten by an earlier one that arrives after it.
ReportDiagnostic(r) ==
    /\ r.kind = "report"
    /\ diagnostic' = r.failed
    /\ Answer(r, "ok")
    /\ UNCHANGED command /\ Untouched /\ UNCHANGED raced

\* requireDeviceCommand and the tests that follow it.
ReadStart(r) ==
    /\ r.kind = "start" /\ r.phase \in {"read", "again"}
    /\ IF IsExecutableExpired(r.c) THEN Proceed(r, "expire")
       ELSE IF command[r.c].status = "RUNNING" THEN Answer(r, "RUNNING")
       ELSE IF command[r.c].status = "PENDING" /\ r.phase = "read" THEN Proceed(r, "take")
       ELSE Answer(r, "error")
    /\ UNCHANGED <<command, diagnostic>> /\ Untouched /\ UNCHANGED raced

(* Mutant: the update does not ask for a pending command.                  *)
TakeStart_Any(r) ==
    /\ r.kind = "start" /\ r.phase = "take"
    /\ command' = SetStatus({r.c}, "RUNNING") /\ Proceed(r, "taken")
    /\ UNCHANGED diagnostic /\ Untouched /\ UNCHANGED raced

\* The conditional update: only a pending command is taken, otherwise it is read again.
TakeStart(r) ==
    /\ r.kind = "start" /\ r.phase = "take"
    /\ IF command[r.c].status = "PENDING" /\ r.c \notin due
       THEN command' = SetStatus({r.c}, "RUNNING") /\ Proceed(r, "taken")
       ELSE UNCHANGED command /\ Proceed(r, "again")
    /\ UNCHANGED diagnostic /\ Untouched /\ UNCHANGED raced
\* The answer carries the command as it is read once more.
AnswerStart(r) ==
    /\ r.kind = "start" /\ r.phase = "taken"
    /\ Answer(r, command[r.c].status)
    /\ UNCHANGED <<command, diagnostic>> /\ Untouched /\ UNCHANGED raced

\* What an update by id writes; it is stale when the status is not the one that was read.
Overwrite(r, status) ==
    /\ command' = SetStatus({r.c}, status)
    /\ raced' = IF command[r.c].status # r.seen THEN raced \cup {r.c} ELSE raced

MarkExpired(r) ==
    /\ r.phase = "expire"
    /\ Overwrite(r, "EXPIRED")
    /\ Answer(r, IF r.kind = "start" THEN "EXPIRED" ELSE "error")
    /\ UNCHANGED diagnostic /\ Untouched

Told(r) == IF r.kind = "complete" THEN "SUCCEEDED" ELSE "FAILED"

ReadOutcome(r) ==
    /\ r.kind \in {"complete", "fail"} /\ r.phase = "read"
    /\ IF command[r.c].status = Told(r) THEN Answer(r, "ok")
       ELSE IF IsExecutableExpired(r.c) THEN Proceed(r, "expire")
       ELSE IF command[r.c].status = "RUNNING" THEN Proceed(r, "write")
       ELSE Answer(r, "error")
    /\ UNCHANGED <<command, diagnostic>> /\ Untouched /\ UNCHANGED raced

CompleteCommand(r) ==
    /\ r.kind = "complete" /\ r.phase = "write"
    /\ Overwrite(r, "SUCCEEDED")
    /\ Answer(r, "ok")
    /\ UNCHANGED diagnostic /\ Untouched

FailCommand(r) ==
    /\ r.kind = "fail" /\ r.phase = "write"
    /\ Overwrite(r, "FAILED")
    /\ Answer(r, "ok")
    /\ UNCHANGED diagnostic /\ Untouched

ServeRequest(r) ==
    \/ ReportDiagnostic(r) \/ ReadStart(r) \/ TakeStart(r) \/ AnswerStart(r)
    \/ MarkExpired(r) \/ ReadOutcome(r) \/ CompleteCommand(r) \/ FailCommand(r)

------------------------------------------------------------------------------
(***************************************************************************)
(* The runner of the device.                                               *)
(***************************************************************************)
FreshId == CHOOSE n \in 1 .. Cardinality(requests) + 1 : \A r \in requests : r.id # n
FailedCount(items) == Cardinality({i \in Items : items[i].status = "failed"})

Send(kind, c, failed, next) ==
    /\ requests' = requests \cup
          {[id |-> FreshId, kind |-> kind, c |-> c, phase |-> "read", seen |-> "none",
            failed |-> failed]}
    /\ device' = [next EXCEPT !.waits = FreshId]

\* _loadConflictsForDiagnostics: a lookup that fails leaves its conflicts out.
LoadConflicts ==
    /\ device.at = "idle" /\ Spend("rounds")
    /\ \E seen \in {{}, {e \in StoredEvents : conflict[e] = "RESOLVED"}} :
          device' = [Idle EXCEPT !.at = "conflicts", !.seen = seen]
    /\ UNCHANGED <<server, requests, local, center, job, history>>

\* _reportDiagnosticsSafely, with the cache of resolved conflicts cleared first.
ReportSafely ==
    /\ device.at = "conflicts"
    /\ cached' = cached \ device.seen
    /\ Send("report", Nothing, FailedCount(item), [device EXCEPT !.at = "report", !.seen = {}])
    /\ UNCHANGED <<server, item, center, job, budget, history>>

(* Mutant: commands that run are listed as well.                          *)
PullCommands_Running ==
    /\ device.at = "pull"
    /\ command' = ExpireCommands
    /\ device' = [device EXCEPT !.at = "next",
                     !.list = {c \in Commands : command'[c].status \in {"PENDING", "RUNNING"}}]
    /\ UNCHANGED <<due, diagnostic, requests, local, center, job, budget, history>>

\* pullCommands expires what is due and lists what is pending.
PullCommands ==
    /\ device.at = "pull"
    /\ command' = ExpireCommands
    /\ device' = [device EXCEPT !.at = "next",
                     !.list = {c \in Commands : command'[c].status = "PENDING"}]
    /\ UNCHANGED <<due, diagnostic, requests, local, center, job, budget, history>>

StartNext(c) ==
    /\ device.at = "next" /\ c \in device.list
    /\ Send("start", c, 0,
            [device EXCEPT !.at = "start", !.c = c, !.list = @ \ {c}])
    /\ UNCHANGED <<server, local, center, job, budget, history>>

\* A lost total is derived again, when the payload has what it takes.
RepairOrderItemTotals ==
    [i \in Items |-> IF item[i] = [status |-> "failed", total |-> "derivable"]
                     THEN [status |-> "pending", total |-> "kept"] ELSE item[i]]

ReenqueueRecoverable ==
    [i \in Items |-> IF item[i].total \in {"kept", "derivable"}
                     THEN [status |-> "pending", total |-> "kept"] ELSE item[i]]

\* The conflicts are looked up again by the command that clears their cache.
ClearResolved == cached \ {e \in StoredEvents : conflict[e] = "RESOLVED"}

\* _executeSupportCommand: the effect, then a report; a pull that fails fails the command.
Execute ==
    /\ device.at = "execute"
    /\ LET type == command[device.c].type IN
       /\ item' = IF type = "REPAIR_OPERATIONAL_ORDER_ITEM_TOTAL_CENTS"
                  THEN RepairOrderItemTotals
                  ELSE IF type = "RETRY_FAILED_SYNC_EVENTS" THEN ReenqueueRecoverable ELSE item
       /\ cached' = IF type = "CLEAR_RESOLVED_CONFLICT_CACHE" THEN ClearResolved ELSE cached
       /\ Send("report", device.c, FailedCount(item'), [device EXCEPT !.at = "told"])
    /\ executed' = [executed EXCEPT ![device.c] = @ + 1]
    /\ done' = done \cup {device.c}
    /\ UNCHANGED <<server, center, job, budget, archived, raced>>

ExecuteFails ==
    /\ device.at = "execute"
    /\ executed' = [executed EXCEPT ![device.c] = @ + 1]
    /\ device' = [device EXCEPT !.at = "fail"]
    /\ UNCHANGED <<server, requests, local, center, job, budget, done, archived, raced>>

TellOutcome ==
    /\ device.at \in {"complete", "fail"} /\ device.waits = 0
    /\ Send(device.at, device.c, 0, device)
    /\ UNCHANGED <<server, local, center, job, budget, history>>

\* No answer in time: a start is then told as failed, the others are only logged.
GiveUp ==
    /\ device.waits # 0 /\ Spend("failures")
    /\ LET r == CHOOSE r \in requests : r.id = device.waits IN
       device' = Received(r.kind, "error")
    /\ UNCHANGED <<server, requests, local, center, job, history>>

\* The list is done, or could not be fetched.
EndRound ==
    /\ device.at \in {"pull", "next"} /\ device.list = {}
    /\ device' = Idle
    /\ UNCHANGED <<server, requests, local, center, job, budget, history>>

\* The application ends, or the session that it works in.
StopRunner ==
    /\ device.at # "idle" /\ Spend("failures")
    /\ device' = Idle
    /\ UNCHANGED <<server, requests, local, center, job, history>>

------------------------------------------------------------------------------
(***************************************************************************)
(* Administrators and commands.                                            *)
(***************************************************************************)
RequiresReportedFailure ==
    {"REPAIR_OPERATIONAL_ORDER_ITEM_TOTAL_CENTS", "RETRY_FAILED_SYNC_EVENTS"}

DryRunAllows(type) ==
    type \in RequiresReportedFailure => diagnostic # Nothing /\ diagnostic > 0

\* createAdminCommand up to expireCommands.
AskCommand(w, type) ==
    /\ job[w] = Nothing /\ Spend(type)
    /\ DryRunAllows(type)
    /\ command' = ExpireCommands
    /\ job' = [job EXCEPT ![w] = [kind |-> "find", type |-> type]]
    /\ UNCHANGED <<due, diagnostic, requests, device, local, center, history>>

\* A pending command of the type is answered in place of a new one.
FindPending(w) ==
    /\ job[w] # Nothing /\ job[w].kind = "find"
    /\ LET found == {c \in Commands : /\ command[c].type = job[w].type
                                      /\ command[c].status = "PENDING" /\ c \notin due} IN
       job' = [job EXCEPT ![w] = IF found # {} THEN Nothing ELSE [@ EXCEPT !.kind = "create"]]
    /\ UNCHANGED <<server, requests, device, local, center, budget, history>>

CreateCommand(w) ==
    /\ job[w] # Nothing /\ job[w].kind = "create"
    /\ \E c \in Commands :
          /\ command[c].status = "none"
          /\ command' = [command EXCEPT ![c] = [type |-> job[w].type, status |-> "PENDING"]]
    /\ job' = [job EXCEPT ![w] = Nothing]
    /\ UNCHANGED <<due, diagnostic, requests, device, local, center, budget, history>>

------------------------------------------------------------------------------
(***************************************************************************)
(* The sync center.                                                        *)
(***************************************************************************)

\* A deduction needs the remote identity of a product that the company has.
ClassifyStockDeduction(e) ==
    CASE payload[e] = "local" -> "IRRECOVERABLE_LEGACY_EVENT"
      [] payload[e] = "remote" /\ e \notin mapped -> "NEEDS_PRODUCT_MAPPING"
      [] payload[e] = "remote" /\ e \in mapped -> "REPROCESSABLE"
      [] OTHER -> "MANUAL_STOCK_REVIEW"

ClassifyCashSession(e) == "REPROCESSABLE"

\* Nothing else is applied again from here, whatever its status.
Classify(e) ==
    CASE payload[e] = "sensitive" -> "DANGEROUS"
      [] payload[e] \in {"local", "remote", "unidentified"} -> ClassifyStockDeduction(e)
      [] payload[e] = "cash" -> ClassifyCashSession(e)
      [] OTHER -> "UNKNOWN"

CanReprocess(e) == Classify(e) = "REPROCESSABLE"
(* Mutant: a deduction without a product may be archived as well.          *)
CanArchive_Unmapped(e) ==
    Classify(e) \in {"IRRECOVERABLE_LEGACY_EVENT", "MANUAL_STOCK_REVIEW", "UNKNOWN",
                     "NEEDS_PRODUCT_MAPPING"}

CanArchive(e) == Classify(e) \in {"IRRECOVERABLE_LEGACY_EVENT", "MANUAL_STOCK_REVIEW", "UNKNOWN"}

Decides(w, kind, e) ==
    /\ job[w] = Nothing /\ Spend("decisions")
    /\ job' = [job EXCEPT ![w] = [kind |-> kind, event |-> e, stale |-> FALSE]]
    /\ UNCHANGED <<server, requests, device, local, center, history>>

DecideArchive(w, e) == conflict[e] = "OPEN" /\ CanArchive(e) /\ Decides(w, "archive", e)
DecideReprocess(w, e) == CanReprocess(e) /\ Decides(w, "admin", e)
\* Only an order item whose order was missing is resolved from the application.
DecideResolve(w, e) == conflict[e] = "OPEN" /\ payload[e] = "other" /\ Decides(w, "user", e)

\* The end of a decision: the others about the event are now stale.
Commits(w) ==
    LET e == job[w].event IN
    /\ job' = [v \in Admins |->
                  IF v = w THEN Nothing
                  ELSE IF job[v] # Nothing /\ job[v].kind \in {"archive", "admin", "user"}
                          /\ job[v].event = e
                       THEN [job[v] EXCEPT !.stale = TRUE] ELSE job[v]]
    /\ raced' = IF job[w].stale THEN raced \cup {e} ELSE raced
    /\ UNCHANGED <<server, requests, device, local, payload, mapped, budget, executed, done>>

Deciding(w, kind) == job[w] # Nothing /\ job[w].kind = kind

\* The conflict is closed and the event stays as it is.
ArchiveConflict(w) ==
    /\ Deciding(w, "archive")
    /\ conflict' = [conflict EXCEPT ![job[w].event] = "RESOLVED"]
    /\ archived' = archived \cup {job[w].event}
    /\ Commits(w)
    /\ UNCHANGED <<event, incident>>

(* Mutant: a conflict is stored with the event alone.                     *)
ReprocessEvent_NoConflict(w) ==
    /\ Deciding(w, "admin")
    /\ \E outcome \in {"ACCEPTED", "DUPLICATE", "CONFLICT", "REJECTED"} :
          /\ event' = [event EXCEPT ![job[w].event] = outcome]
          /\ UNCHANGED conflict
    /\ Commits(w)
    /\ UNCHANGED <<incident, archived>>

\* A conflict opens again whatever became of it; the other outcomes leave it alone.
ReprocessEvent(w) ==
    /\ Deciding(w, "admin")
    /\ \E outcome \in {"ACCEPTED", "DUPLICATE", "CONFLICT", "REJECTED"} :
          /\ event' = [event EXCEPT ![job[w].event] = outcome]
          /\ conflict' = IF outcome = "CONFLICT"
                         THEN [conflict EXCEPT ![job[w].event] = "OPEN"] ELSE conflict
    /\ Commits(w)
    /\ UNCHANGED <<incident, archived>>

ReprocessConflict(w) ==
    /\ Deciding(w, "user")
    /\ \/ /\ \E outcome \in {"ACCEPTED", "DUPLICATE"} :
                event' = [event EXCEPT ![job[w].event] = outcome]
          /\ conflict' = [conflict EXCEPT ![job[w].event] = "RESOLVED"]
       \/ UNCHANGED <<event, conflict>>
    /\ Commits(w)
    /\ UNCHANGED <<incident, archived>>

Aborts(w) ==
    /\ job[w] # Nothing
    /\ job' = [job EXCEPT ![w] = Nothing]
    /\ UNCHANGED <<server, requests, device, local, center, budget, history>>

\* A product is stored, or removed, in the company.
MapProduct(e) ==
    /\ payload[e] = "remote" /\ Spend("mappings")
    /\ mapped' = IF e \in mapped THEN mapped \ {e} ELSE mapped \cup {e}
    /\ UNCHANGED <<server, requests, device, local, event, conflict, payload, incident, job,
                   history>>

\* What the panels show of the company: the sync center, then the health page, for which
\* syncEnabled, a last synchronisation and an active device are taken for granted.
Count(status) == Cardinality({e \in StoredEvents : event[e] = status})
OpenConflicts == Cardinality({e \in StoredEvents : conflict[e] = "OPEN"})

ClassifyCompanySyncStatus(failed, conflicts, waiting) ==
    CASE failed > 0 -> "failed"
      [] failed = 0 /\ conflicts > 0 -> "conflict"
      [] OTHER -> IF waiting THEN "requires_review" ELSE "healthy"

CompanySyncStatus ==
    ClassifyCompanySyncStatus(Count("FAILED"), OpenConflicts + Count("CONFLICT"),
                              incident # "none")

ClassifyHealth(failed, conflicts, severity) ==
    CASE failed > 0 \/ severity = "error" -> "error"
      [] failed = 0 /\ severity # "error" /\ conflicts > 0 -> "conflict"
      [] OTHER -> "synced"

Health == ClassifyHealth(Count("FAILED"), OpenConflicts, incident)

\* The page of the owner counts neither conflicts that were archived nor incidents.
ClassifyOwnerStatus(errors, pending) ==
    CASE errors > 0 -> "attention"
      [] errors = 0 /\ pending > 0 -> "pending"
      [] OTHER -> "ok"
OwnerSyncStatus ==
    ClassifyOwnerStatus(Count("FAILED") + Count("REJECTED") + OpenConflicts, Count("PENDING"))

------------------------------------------------------------------------------
Device ==
    \/ LoadConflicts \/ ReportSafely \/ PullCommands \/ Execute \/ ExecuteFails
    \/ TellOutcome \/ GiveUp \/ EndRound \/ StopRunner
    \/ \E c \in Commands : StartNext(c)

Support ==
    \E w \in Admins :
        \/ \E type \in Types : AskCommand(w, type)
        \/ FindPending(w) \/ CreateCommand(w) \/ Aborts(w)
        \/ \E e \in StoredEvents : DecideArchive(w, e) \/ DecideReprocess(w, e) \/ DecideResolve(w, e)
        \/ ArchiveConflict(w) \/ ReprocessEvent(w) \/ ReprocessConflict(w)

SupportNext ==
    \/ \E r \in requests : ServeRequest(r)
    \/ Device \/ Support
    \/ \E c \in Commands : Deadline(c)
    \/ \E e \in StoredEvents : MapProduct(e)

SupportSpec == SupportInit /\ [][SupportNext]_supportVars

------------------------------------------------------------------------------
(***************************************************************************)
(* Properties.                                                             *)
(***************************************************************************)

\* No command is executed twice, whatever arrives late or is repeated; one that waits was
\* never executed, and one that succeeded was: startCommand, completeCommand and the runner.
StatusIsTrue ==
    /\ SupportTypeOK
    /\ \A c \in Commands :
          /\ executed[c] <= 1
          /\ command[c].status = "PENDING" => executed[c] = 0
          /\ command[c].status = "SUCCEEDED" => c \in done

\* The outcome of a command stays, but for one that was read as running before: the updates
\* of completeCommand, failCommand and markExpired do not look at the status again.
EndedStays ==
    [][\A c \in Commands : command[c].status \in Ended /\ command'[c].status # command[c].status
                               => c \in raced']_supportVars

\* A change that an administrator put away is never applied after that, but by a request
\* that had started before: what can be archived can not be reprocessed, at any time.
ArchivedIsNotApplied ==
    \A e \in archived \ raced : event[e] \notin {"ACCEPTED", "DUPLICATE"}

\* A company that the health page shows as synced has no change left behind that nobody
\* looked at, while the sync center goes on to show what was archived as a conflict; and
\* neither has one whose owner is shown no attention, for whom the health page says the
\* same unless an incident was recorded.
SyncedMeansReviewed ==
    /\ Health = "synced" =>
        /\ \A e \in StoredEvents : event[e] \in {"FAILED", "CONFLICT"} => e \in archived
        /\ CompanySyncStatus = "conflict" => archived # {}
    /\ OwnerSyncStatus # "attention" =>
        /\ \A e \in StoredEvents : event[e] \in {"FAILED", "REJECTED", "CONFLICT"} => e \in archived
        /\ Health = IF incident = "error" THEN "error" ELSE "synced"
==============================================================================

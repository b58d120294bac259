------------------------- MODULE SyncEventLogProofs -------------------------
(***************************************************************************)
(* Proofs about SyncEventLog, for any events, handlers and devices: its    *)
(* types, the versions they take and the order in which versions commit,   *)
(* the rows they create, the conflicts they open, and the feed of versions *)
(* that the log implements.                                                *)
(***************************************************************************)
EXTENDS SyncEventLog, TLAPS

AllOutcomes == {"accepted", "duplicate", "rejected", "deferred", "conflict"}

LEMMA OutcomesKnown ==
    ASSUME NEW e, NEW seen, NEW outcome \in Outcomes(e, seen)
    PROVE  outcome \in AllOutcomes
BY DEF Outcomes, AllOutcomes

(* What a materializer's answer is written as.                             *)
LEMMA WriteTyped ==
    ASSUME NEW e, NEW seen, NEW outcome \in AllOutcomes, NEW v \in Nat
    PROVE  /\ Write(e, outcome, seen, v) \in WriteRecord
           /\ Write(e, outcome, seen, v).status = StatusOf(outcome)
           /\ Write(e, outcome, seen, v).version =
                 IF TakesVersion(outcome) THEN v ELSE 0
BY DEF Write, AllOutcomes, WriteRecord, StatusOf, TakesVersion, Statuses,
       ConflictCode, Codes

LEMMA StatusTakesVersion ==
    ASSUME NEW outcome \in AllOutcomes
    PROVE  TakesVersion(outcome) <=> StatusOf(outcome) \in {"ACCEPTED", "CONFLICT"}
BY DEF AllOutcomes, StatusOf, TakesVersion

(* What writing w for e changes in a transaction, and what it keeps.       *)
LEMMA WithWriteTyped ==
    ASSUME NEW t \in TxRecord, NEW e \in Events, NEW w \in WriteRecord
    PROVE  /\ WithWrite(t, e, w) \in TxRecord
           /\ WithWrite(t, e, w).writes = [t.writes EXCEPT ![e] = w]
           /\ WithWrite(t, e, w).top = IF w.version = 0 THEN t.top ELSE w.version
           /\ WithWrite(t, e, w).todo = t.todo \ {e}
           /\ WithWrite(t, e, w).event = t.event
           /\ WithWrite(t, e, w).job = t.job
BY DEF WithWrite, TxRecord, WriteRecord

LEMMA OpenedTyped ==
    ASSUME NEW e \in Events \cup {None}, NEW job \in {"push", "reprocess", "admin"}
    PROVE  Opened(e, job) \in TxRecord
BY DEF Opened, TxRecord, NoWrites, NoWrite, WriteRecord, Statuses, Codes

LEMMA BucketTyped == \A status : BucketOf(status) \in Buckets
BY DEF BucketOf, Buckets

(* A handler that is at work is at work on an event.                       *)
AtWork == \A p \in Handlers : phase[p] # "idle" => tx[p].event \in Events

TypeInv == TypeOK /\ AtWork

LEMMA InitTyped == ASSUME Init PROVE TypeInv
<1>1. NoTx \in TxRecord
  BY OpenedTyped DEF NoTx
<1>2. tx \in [Handlers -> TxRecord]
  BY <1>1 DEF Init
<1> QED
  BY <1>2 DEF Init, TypeInv, TypeOK, AtWork, NoEvents, Absent, Statuses, NoConflict, Codes,
              Phases, Buckets, LogRecord, ConflictRecord

(* What a commit makes of the stored events has the right types.           *)
LEMMA MergeTyped ==
    ASSUME TypeOK, NEW p \in Handlers, NEW e \in Events
    PROVE  /\ Merged(p, e) \in LogRecord
           /\ ConflictAfter(p, e) \in ConflictRecord
<1>1. tx[p].writes[e] \in WriteRecord
  BY DEF TypeOK, TxRecord
<1>2. Merged(p, e) \in LogRecord
  BY <1>1 DEF Merged, TypeOK, WriteRecord, LogRecord
<1>3. ConflictAfter(p, e) \in ConflictRecord
  BY <1>1, Zenon DEF ConflictAfter, TypeOK, WriteRecord, ConflictRecord
<1> QED
  BY <1>2, <1>3

LEMMA TypeStep == ASSUME TypeInv, [Next]_serverVars PROVE TypeOK'
<1> USE DEF TypeInv, TypeOK, AtWork, logVars
<1>1. ASSUME NEW p \in Handlers, NEW e \in Events, Receive(p, e) PROVE TypeOK'
  <2>1. Opened(e, "push") \in TxRecord
    BY OpenedTyped
  <2> QED
    BY <1>1, <2>1 DEF Receive, Begin, Finish, Phases, Buckets
<1>2. ASSUME NEW p \in Handlers, NEW e \in Events, StartReprocess(p, e) PROVE TypeOK'
  <2>1. Opened(e, "reprocess") \in TxRecord
    BY OpenedTyped
  <2> QED
    BY <1>2, <2>1 DEF StartReprocess, Begin, Phases
<1>3. ASSUME NEW p \in Handlers, NEW e \in Events, StartAdminReprocess(p, e) PROVE TypeOK'
  <2>1. Opened(e, "admin") \in TxRecord
    BY OpenedTyped
  <2> QED
    BY <1>3, <2>1 DEF StartAdminReprocess, Begin, Phases
<1>4. ASSUME NEW p \in Handlers, StoreRefusal(p) PROVE TypeOK'
  <2>1. phase' \in [Handlers -> Phases] /\ reply' \in [Handlers -> Buckets]
    BY <1>4 DEF StoreRefusal, Finish, Phases, Buckets
  <2>2. log' \in [Events -> LogRecord]
    BY <1>4 DEF StoreRefusal, Statuses, LogRecord
  <2> QED
    BY <1>4, <2>1, <2>2 DEF StoreRefusal
<1>5. ASSUME NEW p \in Handlers, Materialize(p) PROVE TypeOK'
  <2> DEFINE e == tx[p].event
  <2>1. PICK outcome \in Outcomes(e, rows) :
          /\ tx' = [tx EXCEPT ![p] = WithWrite(@, e, Write(e, outcome, rows, 0))]
          /\ phase' = [phase EXCEPT ![p] = IF TakesVersion(outcome)
                                           THEN "decided" ELSE "written"]
    BY <1>5 DEF Materialize
  <2>2. Write(e, outcome, rows, 0) \in WriteRecord
    BY OutcomesKnown, WriteTyped
  <2>3. tx' \in [Handlers -> TxRecord]
    <3>1. e \in Events
      BY <1>5 DEF Materialize
    <3> QED
      BY <2>1, <2>2, <3>1, WithWriteTyped
  <2>4. phase' \in [Handlers -> Phases]
    BY <2>1 DEF Phases
  <2> QED
    BY <1>5, <2>3, <2>4 DEF Materialize
<1>6. ASSUME NEW p \in Handlers, NextCompanyVersion(p) PROVE TypeOK'
  <2> DEFINE w == [tx[p].writes[tx[p].event] EXCEPT !.version = version + 1]
  <2>1. tx[p].event \in Events
    BY <1>6 DEF NextCompanyVersion
  <2>2. w \in WriteRecord
    <3>1. tx[p].writes[tx[p].event] \in WriteRecord
      BY <2>1 DEF TxRecord
    <3> QED
      BY <3>1 DEF WriteRecord
  <2>3. WithVersion(tx[p], version + 1) \in TxRecord
    BY <2>1, <2>2, WithWriteTyped DEF WithVersion
  <2> QED
    BY <1>6, <2>3 DEF NextCompanyVersion, Phases
<1>7. ASSUME NEW p \in Handlers, FindDependents(p) PROVE TypeOK'
  <2>1. tx' \in [Handlers -> TxRecord]
    BY <1>7 DEF FindDependents, TxRecord
  <2> QED
    BY <1>7, <2>1 DEF FindDependents, Phases
<1>8. ASSUME NEW p \in Handlers, NEW e \in Events, MaterializeDependent(p, e)
      PROVE TypeOK'
  <2> DEFINE seen == rows \cup CreatedBy(p)
  <2>1. PICK outcome \in Outcomes(e, seen) :
          tx' = [tx EXCEPT
                   ![p] = WithWrite(@, e, Write(e, outcome, seen, @.top + 1))]
    BY <1>8 DEF MaterializeDependent
  <2>2. tx[p].top + 1 \in Nat
    BY DEF TxRecord
  <2>3. Write(e, outcome, seen, tx[p].top + 1) \in WriteRecord
    BY <2>2, OutcomesKnown, WriteTyped
  <2> HIDE DEF seen
  <2>4. tx' \in [Handlers -> TxRecord]
    BY <2>1, <2>3, WithWriteTyped
  <2> QED
    BY <1>8, <2>4 DEF MaterializeDependent
<1>9. ASSUME NEW p \in Handlers, EndTransaction(p)
      PROVE  /\ lock' \in Handlers \cup {None}
             /\ tx' \in [Handlers -> TxRecord]
  <2>1. Opened(tx[p].event, tx[p].job) \in TxRecord
    BY OpenedTyped DEF TxRecord
  <2> QED
    BY <1>9, <2>1 DEF EndTransaction
<1>10. ASSUME NEW p \in Handlers, Commit(p) PROVE TypeOK'
  <2>1. log' \in [Events -> LogRecord]
    BY <1>10, MergeTyped DEF Commit
  <2>2. conflict' \in [Events -> ConflictRecord]
    BY <1>10, MergeTyped DEF Commit
  <2>3. rows' \subseteq Entities
    BY <1>10, ConstantsAssumption DEF Commit, CreatedBy
  <2>4. version' \in Nat
    BY <1>10 DEF Commit, TxRecord
  <2>5. phase' \in [Handlers -> Phases] /\ reply' \in [Handlers -> Buckets]
    BY <1>10, BucketTyped DEF Commit, Finish, Phases
  <2> QED
    BY <1>9, <1>10, <2>1, <2>2, <2>3, <2>4, <2>5 DEF Commit
<1>11. ASSUME NEW p \in Handlers, Rollback(p) PROVE TypeOK'
  <2>1. phase' \in [Handlers -> Phases] /\ reply' \in [Handlers -> Buckets]
    BY <1>11 DEF Rollback, Finish, Phases, Buckets
  <2> QED
    BY <1>9, <1>11, <2>1 DEF Rollback
<1>12. ASSUME NEW p \in Handlers, FailEvent(p) PROVE TypeOK'
  <2>1. phase' \in [Handlers -> Phases] /\ reply' \in [Handlers -> Buckets]
    BY <1>12 DEF FailEvent, Finish, Phases, Buckets
  <2>2. log' \in [Events -> LogRecord]
    BY <1>12 DEF FailEvent, Statuses, LogRecord
  <2> QED
    BY <1>12, <2>1, <2>2 DEF FailEvent
<1>13. ASSUME NEW p \in Handlers, Crash(p) PROVE TypeOK'
  <2>1. phase' \in [Handlers -> Phases] /\ reply' \in [Handlers -> Buckets]
    BY <1>13 DEF Crash, Finish, Phases, Buckets
  <2> QED
    BY <1>9, <1>13, <2>1 DEF Crash
<1>14. ASSUME NEW p \in Handlers, Release(p) PROVE TypeOK'
  <2>1. NoTx \in TxRecord
    BY OpenedTyped DEF NoTx
  <2> QED
    BY <1>14, <2>1 DEF Release, Phases, Buckets
<1>15. ASSUME NEW e \in Events, Resolve(e) PROVE TypeOK'
  BY <1>15 DEF Resolve, handlerVars, ConflictRecord
<1>16. CASE UNCHANGED serverVars
  BY <1>16 DEF serverVars
<1> QED
  BY <1>1, <1>2, <1>3, <1>4, <1>5, <1>6, <1>7, <1>8, <1>10, <1>11, <1>12,
     <1>13, <1>14, <1>15, <1>16 DEF Next, Handle

LEMMA AtWorkStep == ASSUME TypeInv, [Next]_serverVars PROVE AtWork'
<1> USE DEF TypeInv, TypeOK, AtWork
<1>1. \A job : \A p \in Handlers, e \in Events : Begin(p, e, job) =>
         \A q \in Handlers : tx'[q].event = IF q = p THEN e ELSE tx[q].event
  BY DEF Begin, Opened
<1>2. ASSUME NEW p \in Handlers, NEW e \in Events,
             Receive(p, e) \/ StartReprocess(p, e) \/ StartAdminReprocess(p, e)
      PROVE  AtWork'
  BY <1>1, <1>2 DEF Receive, StartReprocess, StartAdminReprocess, Finish
<1>3. ASSUME NEW p \in Handlers, EndTransaction(p)
      PROVE  \A q \in Handlers : tx'[q].event = tx[q].event
  BY <1>3 DEF EndTransaction, Opened
<1>4. ASSUME NEW p \in Handlers, Commit(p) \/ Rollback(p) \/ Crash(p)
      PROVE  AtWork'
  BY <1>3, <1>4 DEF Commit, ReadyToCommit, Rollback, Crash, Finish
<1>5. ASSUME NEW p \in Handlers, NEW e \in Events, NEW w
      PROVE  WithWrite(tx[p], e, w).event = tx[p].event
  BY DEF WithWrite, TxRecord
<1>6. ASSUME NEW p \in Handlers,
             \/ Materialize(p) \/ NextCompanyVersion(p)
             \/ \E e \in Events : MaterializeDependent(p, e)
      PROVE  AtWork'
  <2>1. phase[p] # "idle"
    BY <1>6 DEF Materialize, NextCompanyVersion, MaterializeDependent
  <2>2. \A q \in Handlers : tx'[q].event = tx[q].event
    BY <1>5, <1>6, <2>1 DEF Materialize, NextCompanyVersion, WithVersion,
                            MaterializeDependent
  <2>3. \A q \in Handlers \ {p} : phase'[q] = phase[q]
    BY <1>6 DEF Materialize, NextCompanyVersion, MaterializeDependent
  <2> QED
    BY <2>1, <2>2, <2>3
<1>7. ASSUME NEW p \in Handlers, FindDependents(p) PROVE AtWork'
  BY <1>7 DEF FindDependents, TxRecord
<1>8. ASSUME NEW p \in Handlers, StoreRefusal(p) \/ FailEvent(p) PROVE AtWork'
  BY <1>8 DEF StoreRefusal, FailEvent, Finish
<1>9. ASSUME NEW p \in Handlers, Release(p) PROVE AtWork'
  BY <1>9 DEF Release
<1>10. CASE \E e \in Events : Resolve(e)
  BY <1>10 DEF Resolve, handlerVars
<1>11. CASE UNCHANGED serverVars
  BY <1>11 DEF serverVars
<1> QED
  BY <1>2, <1>4, <1>6, <1>7, <1>8, <1>9, <1>10, <1>11 DEF Next, Handle

THEOREM TypeInvariant == Spec => []TypeInv
<1>1. TypeInv /\ [Next]_serverVars => TypeInv'
  BY TypeStep, AtWorkStep DEF TypeInv
<1> QED
  BY InitTyped, <1>1, PTL DEF Spec

(* Every reachable state of the log and of the requests is well typed.     *)
THEOREM TypeCorrect == Spec => []TypeOK
<1>1. TypeInv => TypeOK
  BY DEF TypeInv
<1> QED
  BY TypeInvariant, <1>1, PTL

-----------------------------------------------------------------------------
(* The inductive invariant behind the versions: what is stored lies at or  *)
(* below the current version, what a transaction is about to store lies    *)
(* beyond it, and only the handler that holds the lock has such a write.   *)

Versioned(w) == w.status \in {"ACCEPTED", "CONFLICT"}

LogBounded ==
    \A e \in Events :
        /\ log[e].version <= version
        /\ log[e].status = "absent" => log[e].version = 0

LogDistinct ==
    \A e, f \in Events : log[e].version = log[f].version /\ log[e].version # 0 => e = f

Unlocked(p) ==
    /\ tx[p].top = 0
    /\ \A e \in Events : tx[p].writes[e].version = 0

Locked(p) ==
    /\ phase[p] \in {"written", "dependents"}
    /\ version < tx[p].top
    /\ tx[p].writes[tx[p].event].version # 0
    /\ \A e \in Events : tx[p].writes[e].version # 0 =>
          version < tx[p].writes[e].version /\ tx[p].writes[e].version <= tx[p].top
    /\ \A e, f \in Events :
          /\ tx[p].writes[e].version = tx[p].writes[f].version
          /\ tx[p].writes[e].version # 0
          => e = f

LockInv == \A p \in Handlers : IF lock = p THEN Locked(p) ELSE Unlocked(p)

PhaseInv(p) ==
    /\ phase[p] = "begun" => tx[p].writes = NoWrites
    /\ phase[p] = "decided" =>
          /\ Versioned(tx[p].writes[tx[p].event])
          /\ \A e \in Events \ {tx[p].event} : ~Versioned(tx[p].writes[e])
    /\ phase[p] \in {"written", "dependents"} =>
          \A e \in Events :
             tx[p].writes[e].version # 0 <=> Versioned(tx[p].writes[e])
    /\ phase[p] = "dependents" =>
          /\ lock = p
          /\ KindOf[tx[p].event] \in {"order", "update"}
          /\ \A e \in tx[p].todo : KindOf[e] \in {"item", "linkedItem"}

VersionInv ==
    /\ LogBounded /\ LogDistinct
    /\ LockInv
    /\ \A p \in Handlers : PhaseInv(p)

(* The part of the invariant that is about one handler.                    *)
HandlerInv(p) == (IF lock = p THEN Locked(p) ELSE Unlocked(p)) /\ PhaseInv(p)

Fresh(p) == tx[p].writes = NoWrites /\ tx[p].top = 0

LEMMA NothingWritten ==
    \A e \in Events : NoWrites[e].version = 0 /\ ~Versioned(NoWrites[e])
BY DEF NoWrites, NoWrite, Versioned

LEMMA FreshHolds ==
    ASSUME NEW p \in Handlers, Fresh(p), lock # p,
           phase[p] \notin {"decided", "written", "dependents"}
    PROVE  HandlerInv(p)
BY NothingWritten DEF HandlerInv, Fresh, Unlocked, PhaseInv

LEMMA VersionInit == ASSUME Init PROVE VersionInv
<1>1. \A p \in Handlers : HandlerInv(p)
  <2> SUFFICES ASSUME NEW p \in Handlers PROVE HandlerInv(p)
    OBVIOUS
  <2>1. Fresh(p) /\ lock # p /\ phase[p] = "idle"
    BY ConstantsAssumption DEF Init, NoTx, Opened, Fresh
  <2> QED
    BY <2>1, FreshHolds
<1>2. LogBounded /\ LogDistinct
  BY DEF Init, NoEvents, Absent, LogBounded, LogDistinct
<1> QED
  BY <1>1, <1>2 DEF VersionInv, HandlerInv, LockInv

(* A step of one handler leaves the others' part of the invariant alone.   *)
LEMMA OthersHold ==
    ASSUME VersionInv, NEW q \in Handlers,
           tx'[q] = tx[q], phase'[q] = phase[q], lock' = q <=> lock = q,
           version' = version \/ lock # q
    PROVE  HandlerInv(q)'
<1>1. PhaseInv(q)'
  BY DEF VersionInv, PhaseInv
<1>2. CASE lock = q
  <2>1. Locked(q)'
    BY <1>2 DEF VersionInv, LockInv, Locked
  <2> QED
    BY <1>1, <1>2, <2>1 DEF HandlerInv
<1>3. CASE lock # q
  <2>1. Unlocked(q)'
    BY <1>3 DEF VersionInv, LockInv, Unlocked
  <2> QED
    BY <1>1, <1>3, <2>1 DEF HandlerInv
<1> QED
  BY <1>2, <1>3

(* A handler that begins, ends or rolls back holds nothing afterwards.     *)
LEMMA FreshAfter ==
    ASSUME NEW p \in Handlers, Fresh(p)', lock' # p,
           phase'[p] \notin {"decided", "written", "dependents"}
    PROVE  HandlerInv(p)'
<1>1. Unlocked(p)'
  BY NothingWritten DEF Fresh, Unlocked
<1>2. PhaseInv(p)'
  BY DEF Fresh, PhaseInv
<1> QED
  BY <1>1, <1>2 DEF HandlerInv

LEMMA BeginFresh ==
    ASSUME TypeInv, VersionInv, NEW p \in Handlers, NEW e \in Events, NEW job,
           phase[p] = "idle", Begin(p, e, job), lock' = lock
    PROVE  /\ Fresh(p)' /\ lock' # p
           /\ \A q \in Handlers \ {p} : tx'[q] = tx[q]
BY DEF Begin, Opened, Fresh, TypeInv, TypeOK, VersionInv, LockInv, Locked

LEMMA EndFresh ==
    ASSUME TypeInv, NEW p \in Handlers, EndTransaction(p)
    PROVE  /\ Fresh(p)' /\ lock' # p
           /\ \A q \in Handlers \ {p} : tx'[q] = tx[q] /\ (lock' = q <=> lock = q)
BY ConstantsAssumption DEF EndTransaction, Opened, Fresh, TypeInv, TypeOK

(* The steps of one handler that allocate or keep a version.               *)
LEMMA MaterializeHolds ==
    ASSUME TypeInv, VersionInv, NEW p \in Handlers, Materialize(p)
    PROVE  \A q \in Handlers : HandlerInv(q)'
<1> DEFINE e == tx[p].event
<1>1. PICK outcome \in Outcomes(e, rows) :
        /\ tx' = [tx EXCEPT ![p] = WithWrite(@, e, Write(e, outcome, rows, 0))]
        /\ phase' = [phase EXCEPT ![p] = IF TakesVersion(outcome)
                                         THEN "decided" ELSE "written"]
  BY DEF Materialize
<1> DEFINE w == Write(e, outcome, rows, 0)
<1>2. e \in Events /\ tx[p] \in TxRecord
  BY DEF Materialize, TypeInv, TypeOK, AtWork
<1>3. /\ w \in WriteRecord /\ w.version = 0
      /\ Versioned(w) <=> TakesVersion(outcome)
  BY OutcomesKnown, WriteTyped, StatusTakesVersion DEF Versioned
<1>4. /\ tx'[p].writes = [tx[p].writes EXCEPT ![e] = w]
      /\ tx'[p].top = tx[p].top
      /\ tx'[p].event = e
  BY <1>1, <1>2, <1>3, WithWriteTyped DEF TypeInv, TypeOK
<1>5. lock # p /\ lock' = lock /\ version' = version
  BY DEF Materialize, logVars, VersionInv, LockInv, Locked
<1>6. tx[p].writes = NoWrites /\ tx[p].top = 0
  BY <1>5 DEF Materialize, VersionInv, PhaseInv, LockInv, Unlocked
<1>7. phase'[p] = IF TakesVersion(outcome) THEN "decided" ELSE "written"
  BY <1>1 DEF TypeInv, TypeOK
<1>8. \A f \in Events : tx'[p].writes[f] = IF f = e THEN w ELSE NoWrites[f]
  BY <1>2, <1>4, <1>6 DEF NoWrites
<1> HIDE DEF e, w
<1>9. Unlocked(p)'
  BY <1>3, <1>4, <1>6, <1>8, NothingWritten DEF Unlocked
<1>10. PhaseInv(p)'
  BY <1>2, <1>3, <1>4, <1>7, <1>8, NothingWritten DEF PhaseInv
<1>11. \A q \in Handlers \ {p} : HandlerInv(q)'
  BY <1>1, <1>5, OthersHold DEF TypeInv, TypeOK
<1> QED
  BY <1>5, <1>9, <1>10, <1>11 DEF HandlerInv

LEMMA NextCompanyVersionHolds ==
    ASSUME TypeInv, VersionInv, NEW p \in Handlers, NextCompanyVersion(p)
    PROVE  \A q \in Handlers : HandlerInv(q)'
<1> DEFINE e == tx[p].event
           w == [tx[p].writes[e] EXCEPT !.version = version + 1]
<1>1. e \in Events /\ tx[p] \in TxRecord /\ version \in Nat
  BY DEF NextCompanyVersion, TypeInv, TypeOK, AtWork
<1>2. tx[p].writes[e] \in WriteRecord
  BY <1>1 DEF TxRecord
<1>3. w \in WriteRecord /\ w.version = version + 1 /\ w.status = tx[p].writes[e].status
  BY <1>1, <1>2 DEF WriteRecord
<1>4. lock = None /\ lock' = p /\ version' = version /\ p # None
  BY ConstantsAssumption DEF NextCompanyVersion, logVars
<1>5. tx' = [tx EXCEPT ![p] = WithWrite(@, e, w)]
  BY DEF NextCompanyVersion, WithVersion
<1> HIDE DEF e, w
<1>6. /\ tx'[p].writes = [tx[p].writes EXCEPT ![e] = w]
      /\ tx'[p].top = version + 1
      /\ tx'[p].event = tx[p].event
  BY <1>1, <1>3, <1>5, WithWriteTyped DEF TypeInv, TypeOK
<1>7. tx'[p].event = e
  BY <1>6 DEF e
<1>8. \A f \in Events : tx'[p].writes[f] = IF f = e THEN w ELSE tx[p].writes[f]
  BY <1>1, <1>6 DEF TxRecord
<1>9. \A f \in Events : tx[p].writes[f].version = 0
  BY <1>4 DEF VersionInv, LockInv, Unlocked
<1>10. phase[p] = "decided" /\ phase'[p] = "written"
  BY DEF NextCompanyVersion, TypeInv, TypeOK
<1>11. Versioned(w) /\ \A f \in Events \ {e} : ~Versioned(tx[p].writes[f])
  BY <1>3, <1>10 DEF VersionInv, PhaseInv, Versioned, e
<1>12. Locked(p)'
  BY <1>1, <1>3, <1>4, <1>6, <1>7, <1>8, <1>9, <1>10 DEF Locked
<1>13. PhaseInv(p)'
  BY <1>1, <1>3, <1>8, <1>9, <1>10, <1>11 DEF PhaseInv
<1>14. \A q \in Handlers \ {p} : HandlerInv(q)'
  <2> SUFFICES ASSUME NEW q \in Handlers \ {p} PROVE HandlerInv(q)'
    OBVIOUS
  <2>1. lock' = q <=> lock = q
    BY <1>4, ConstantsAssumption
  <2>2. tx'[q] = tx[q] /\ phase'[q] = phase[q]
    BY DEF NextCompanyVersion, TypeInv, TypeOK
  <2> QED
    BY <1>4, <2>1, <2>2, OthersHold
<1> QED
  BY <1>4, <1>12, <1>13, <1>14 DEF HandlerInv

LEMMA FindDependentsHolds ==
    ASSUME TypeInv, VersionInv, NEW p \in Handlers, FindDependents(p)
    PROVE  \A q \in Handlers : HandlerInv(q)'
<1> DEFINE e == tx[p].event
<1>1. /\ e \in Events /\ phase[p] = "written" /\ phase'[p] = "dependents"
      /\ lock' = lock /\ version' = version
      /\ KindOf[e] \in {"order", "update"}
      /\ tx[p] \in TxRecord
  BY DEF FindDependents, TypeInv, TypeOK, AtWork, logVars
<1>2. /\ tx'[p].writes = tx[p].writes /\ tx'[p].top = tx[p].top
      /\ tx'[p].event = e
      /\ \A f \in tx'[p].todo : KindOf[f] \in {"item", "linkedItem"}
  BY <1>1 DEF FindDependents, TxRecord, TypeInv, TypeOK
<1>3. tx[p].writes[e].version # 0
  BY <1>1 DEF FindDependents, VersionInv, PhaseInv, Versioned
<1>4. lock = p
  BY <1>1, <1>3 DEF VersionInv, LockInv, Unlocked
<1>5. Locked(p)'
  BY <1>1, <1>2, <1>4 DEF VersionInv, LockInv, Locked
<1>6. PhaseInv(p)'
  BY <1>1, <1>2, <1>4 DEF VersionInv, PhaseInv
<1>7. \A q \in Handlers \ {p} : HandlerInv(q)'
  BY <1>1, OthersHold DEF FindDependents, TypeInv, TypeOK
<1> QED
  BY <1>1, <1>4, <1>5, <1>6, <1>7 DEF HandlerInv

LEMMA MaterializeDependentHolds ==
    ASSUME TypeInv, VersionInv, NEW p \in Handlers, NEW e \in Events,
           MaterializeDependent(p, e)
    PROVE  \A q \in Handlers : HandlerInv(q)'
<1> DEFINE seen == rows \cup CreatedBy(p)
           v == tx[p].top + 1
<1>1. PICK outcome \in Outcomes(e, seen) :
        tx' = [tx EXCEPT ![p] = WithWrite(@, e, Write(e, outcome, seen, @.top + 1))]
  BY DEF MaterializeDependent
<1> DEFINE w == Write(e, outcome, seen, v)
<1>2. /\ tx[p] \in TxRecord /\ v \in Nat /\ version \in Nat /\ tx[p].top \in Nat
      /\ \A f \in Events : tx[p].writes[f].version \in Nat
  BY DEF TypeInv, TypeOK, TxRecord, WriteRecord
<1>3. /\ w \in WriteRecord
      /\ w.version = IF TakesVersion(outcome) THEN v ELSE 0
      /\ Versioned(w) <=> TakesVersion(outcome)
  BY <1>2, OutcomesKnown, WriteTyped, StatusTakesVersion DEF Versioned
<1>4. tx' = [tx EXCEPT ![p] = WithWrite(@, e, w)]
  BY <1>1
<1>5. v = tx[p].top + 1
  OBVIOUS
<1> HIDE DEF seen, v, w
<1>6. /\ tx'[p].writes = [tx[p].writes EXCEPT ![e] = w]
      /\ tx'[p].top = IF w.version = 0 THEN tx[p].top ELSE w.version
      /\ tx'[p].event = tx[p].event
      /\ tx'[p].todo = tx[p].todo \ {e}
  BY <1>2, <1>3, <1>4, WithWriteTyped DEF TypeInv, TypeOK
<1>7. \A f \in Events : tx'[p].writes[f] = IF f = e THEN w ELSE tx[p].writes[f]
  BY <1>2, <1>6 DEF TxRecord
<1>8. /\ phase[p] = "dependents" /\ phase' = phase /\ lock' = lock
      /\ version' = version /\ lock = p
      /\ KindOf[tx[p].event] \in {"order", "update"}
      /\ KindOf[e] \in {"item", "linkedItem"}
      /\ tx[p].event \in Events
  BY DEF MaterializeDependent, logVars, VersionInv, PhaseInv, TypeInv, AtWork
<1>9. e # tx[p].event
  BY <1>8
<1>10. Locked(p)
  BY <1>8 DEF VersionInv, LockInv
<1>11. Locked(p)'
  <2>1. version < tx'[p].top /\ tx[p].top <= tx'[p].top
    BY <1>2, <1>3, <1>5, <1>6, <1>10 DEF Locked
  <2>2. tx'[p].writes[tx'[p].event].version # 0
    BY <1>6, <1>7, <1>8, <1>9, <1>10 DEF Locked
  <2>3. ASSUME NEW f \in Events, tx'[p].writes[f].version # 0
        PROVE  version < tx'[p].writes[f].version /\ tx'[p].writes[f].version <= tx'[p].top
    BY <1>2, <1>3, <1>5, <1>6, <1>7, <1>10, <2>1, <2>3 DEF Locked
  <2>4. ASSUME NEW f \in Events, NEW g \in Events,
               tx'[p].writes[f].version = tx'[p].writes[g].version,
               tx'[p].writes[f].version # 0
        PROVE  f = g
    <3>1. \A h \in Events \ {e} :
             tx[p].writes[h].version # 0 => tx[p].writes[h].version < v
      BY <1>2, <1>5, <1>10 DEF Locked
    <3>2. CASE f = e \/ g = e
      BY <1>2, <1>3, <1>7, <2>4, <3>1, <3>2
    <3>3. CASE f # e /\ g # e
      BY <1>7, <1>10, <2>4, <3>3 DEF Locked
    <3> QED
      BY <3>2, <3>3
  <2> QED
    BY <1>8, <2>1, <2>2, <2>3, <2>4 DEF Locked
<1>12. PhaseInv(p)'
  <2>1. \A f \in Events :
           tx'[p].writes[f].version # 0 <=> Versioned(tx'[p].writes[f])
    BY <1>2, <1>3, <1>5, <1>7, <1>8 DEF VersionInv, PhaseInv
  <2>2. \A f \in tx'[p].todo : KindOf[f] \in {"item", "linkedItem"}
    BY <1>6, <1>8 DEF VersionInv, PhaseInv
  <2> QED
    BY <1>6, <1>8, <2>1, <2>2 DEF PhaseInv
<1>13. \A q \in Handlers \ {p} : HandlerInv(q)'
  BY <1>4, <1>8, OthersHold DEF TypeInv, TypeOK
<1> QED
  BY <1>8, <1>11, <1>12, <1>13 DEF HandlerInv

(* What a commit does to the stored versions.                              *)
LEMMA MergedVersion ==
    ASSUME TypeInv, VersionInv, NEW p \in Handlers, ReadyToCommit(p),
           NEW e \in Events
    PROVE  /\ tx[p].writes[e].version # 0 =>
                 /\ lock = p
                 /\ Merged(p, e).version = tx[p].writes[e].version
                 /\ version < Merged(p, e).version
                 /\ Merged(p, e).version <= tx[p].top
           /\ tx[p].writes[e].version = 0 => Merged(p, e).version = log[e].version
           /\ Merged(p, e).status = "absent" => Merged(p, e) = log[e]
<1> DEFINE w == tx[p].writes[e]
<1>1. phase[p] \in {"written", "dependents"}
  BY DEF ReadyToCommit
<1>2. w.version # 0 <=> Versioned(w)
  BY <1>1 DEF VersionInv, PhaseInv
<1>3. ASSUME w.version # 0
      PROVE  /\ lock = p
             /\ version < w.version /\ w.version <= tx[p].top
             /\ Merged(p, e).version = w.version
  <2>1. lock = p
    BY <1>3 DEF VersionInv, LockInv, Unlocked
  <2>2. version < w.version /\ w.version <= tx[p].top
    BY <1>3, <2>1 DEF VersionInv, LockInv, Locked
  <2>3. Merged(p, e).version = w.version
    BY <1>2, <1>3 DEF Merged, Versioned
  <2> QED
    BY <2>1, <2>2, <2>3
<1>4. ASSUME w.version = 0 PROVE Merged(p, e).version = log[e].version
  BY <1>4 DEF Merged
<1>5. Merged(p, e).status = "absent" => Merged(p, e) = log[e]
  BY DEF Merged
<1> QED
  BY <1>3, <1>4, <1>5

LEMMA CommitHolds ==
    ASSUME TypeInv, VersionInv, NEW p \in Handlers, Commit(p)
    PROVE  VersionInv'
<1>1. /\ Fresh(p)' /\ lock' # p
      /\ \A q \in Handlers \ {p} : tx'[q] = tx[q] /\ (lock' = q <=> lock = q)
  BY EndFresh DEF Commit
<1>2. phase'[p] = "done" /\ \A q \in Handlers \ {p} : phase'[q] = phase[q]
  BY DEF Commit, Finish, TypeInv, TypeOK
<1>3. version' = version \/ lock = p
  BY DEF Commit
<1>4. \A q \in Handlers : HandlerInv(q)'
  BY <1>1, <1>2, <1>3, FreshAfter, OthersHold
<1>5. ReadyToCommit(p) /\ \A e \in Events : log'[e] = Merged(p, e)
  BY DEF Commit
<1>6. version \in Nat /\ version' \in Nat /\ version <= version'
  BY DEF Commit, TypeInv, TypeOK, TxRecord, VersionInv, LockInv, Locked
<1>7. lock = p => version' = tx[p].top
  BY DEF Commit
<1>8. \A e \in Events : log[e].version \in Nat /\ Merged(p, e).version \in Nat
  BY MergeTyped DEF TypeInv, TypeOK, LogRecord
<1>9. LogBounded'
  BY <1>5, <1>6, <1>7, <1>8, MergedVersion DEF VersionInv, LogBounded
<1>10. LogDistinct'
  <2> SUFFICES ASSUME NEW e \in Events, NEW f \in Events,
                      Merged(p, e).version = Merged(p, f).version,
                      Merged(p, e).version # 0
               PROVE  e = f
    BY <1>5 DEF LogDistinct
  <2>1. CASE tx[p].writes[e].version # 0 /\ tx[p].writes[f].version # 0
    BY <1>5, <2>1, MergedVersion DEF VersionInv, LockInv, Locked
  <2>2. CASE tx[p].writes[e].version = 0 /\ tx[p].writes[f].version = 0
    BY <1>5, <2>2, MergedVersion DEF VersionInv, LogDistinct
  <2>3. CASE tx[p].writes[e].version # 0 /\ tx[p].writes[f].version = 0
    BY <1>5, <1>6, <1>8, <2>3, MergedVersion DEF VersionInv, LogBounded
  <2>4. CASE tx[p].writes[e].version = 0 /\ tx[p].writes[f].version # 0
    BY <1>5, <1>6, <1>8, <2>4, MergedVersion DEF VersionInv, LogBounded
  <2> QED
    BY <2>1, <2>2, <2>3, <2>4
<1> QED
  BY <1>4, <1>9, <1>10 DEF VersionInv, HandlerInv, LockInv

(* Every other step leaves the versions alone, or stores a refusal, which  *)
(* has none.                                                               *)
LEMMA VersionStep == ASSUME TypeInv, VersionInv, [Next]_serverVars PROVE VersionInv'
<1>1. ASSUME log' = log, version' = version, \A p \in Handlers : HandlerInv(p)'
      PROVE  VersionInv'
  <2>1. LogBounded' /\ LogDistinct'
    BY <1>1 DEF VersionInv, LogBounded, LogDistinct
  <2> QED
    BY <1>1, <2>1 DEF VersionInv, HandlerInv, LockInv
<1>2. ASSUME NEW p \in Handlers, NEW e \in Events,
             Receive(p, e) \/ StartReprocess(p, e) \/ StartAdminReprocess(p, e)
      PROVE  VersionInv'
  <2>1. PICK job : Begin(p, e, job)
    BY <1>2 DEF Receive, StartReprocess, StartAdminReprocess
  <2>2. phase[p] = "idle" /\ lock' = lock /\ log' = log /\ version' = version
    BY <1>2 DEF Receive, StartReprocess, StartAdminReprocess, logVars
  <2>3. /\ Fresh(p)' /\ lock' # p
        /\ \A q \in Handlers \ {p} : tx'[q] = tx[q]
    BY <2>1, <2>2, BeginFresh
  <2>4. /\ phase'[p] \in {"refusing", "begun", "done"}
        /\ \A q \in Handlers \ {p} : phase'[q] = phase[q]
    BY <1>2 DEF Receive, StartReprocess, StartAdminReprocess, Finish, TypeInv, TypeOK
  <2> QED
    BY <1>1, <2>2, <2>3, <2>4, FreshAfter, OthersHold
<1>3. ASSUME NEW p \in Handlers, StoreRefusal(p) \/ FailEvent(p)
      PROVE  VersionInv'
  <2>1. /\ tx' = tx /\ lock' = lock /\ version' = version
        /\ phase[p] \in {"refusing", "failing"}
        /\ phase'[p] = "done" /\ \A q \in Handlers \ {p} : phase'[q] = phase[q]
    BY <1>3 DEF StoreRefusal, FailEvent, Finish, TypeInv, TypeOK
  <2>2. HandlerInv(p)'
    <3>1. lock # p
      BY <2>1 DEF VersionInv, LockInv, Locked
    <3>2. Unlocked(p)' /\ PhaseInv(p)'
      BY <2>1, <3>1 DEF VersionInv, LockInv, Unlocked, PhaseInv
    <3> QED
      BY <2>1, <3>1, <3>2 DEF HandlerInv
  <2>3. \A q \in Handlers : HandlerInv(q)'
    BY <2>1, <2>2, OthersHold
  <2>4. \A e \in Events : \/ log'[e] = log[e]
                          \/ /\ log[e].status = "absent"
                             /\ log'[e].version = 0
                             /\ log'[e].status # "absent"
    BY <1>3 DEF StoreRefusal, FailEvent, Stored, TypeInv, TypeOK
  <2>5. \A e \in Events : log'[e].version = log[e].version
    BY <2>4 DEF VersionInv, LogBounded
  <2>6. LogBounded' /\ LogDistinct'
    BY <2>1, <2>4, <2>5 DEF VersionInv, LogBounded, LogDistinct
  <2> QED
    BY <2>3, <2>6 DEF VersionInv, HandlerInv, LockInv
<1>4. ASSUME NEW p \in Handlers, Materialize(p) PROVE VersionInv'
  BY <1>1, <1>4, MaterializeHolds DEF Materialize, logVars
<1>5. ASSUME NEW p \in Handlers, NextCompanyVersion(p) PROVE VersionInv'
  BY <1>1, <1>5, NextCompanyVersionHolds DEF NextCompanyVersion, logVars
<1>6. ASSUME NEW p \in Handlers, FindDependents(p) PROVE VersionInv'
  BY <1>1, <1>6, FindDependentsHolds DEF FindDependents, logVars
<1>7. ASSUME NEW p \in Handlers, NEW e \in Events, MaterializeDependent(p, e)
      PROVE  VersionInv'
  BY <1>1, <1>7, MaterializeDependentHolds DEF MaterializeDependent, logVars
<1>8. ASSUME NEW p \in Handlers, Rollback(p) \/ Crash(p) PROVE VersionInv'
  <2>1. /\ EndTransaction(p) /\ log' = log /\ version' = version
        /\ phase'[p] \in {"failing", "done"}
        /\ \A q \in Handlers \ {p} : phase'[q] = phase[q]
    BY <1>8 DEF Rollback, Crash, Finish, logVars, TypeInv, TypeOK
  <2> QED
    BY <1>1, <2>1, EndFresh, FreshAfter, OthersHold
<1>9. ASSUME NEW p \in Handlers, Release(p) PROVE VersionInv'
  <2>1. /\ log' = log /\ version' = version /\ lock' = lock
        /\ phase[p] = "done" /\ phase'[p] = "idle"
        /\ \A q \in Handlers \ {p} : phase'[q] = phase[q] /\ tx'[q] = tx[q]
        /\ Fresh(p)'
    BY <1>9 DEF Release, logVars, Fresh, NoTx, Opened, TypeInv, TypeOK
  <2>2. lock' # p
    BY <2>1 DEF VersionInv, LockInv, Locked
  <2> QED
    BY <1>1, <2>1, <2>2, FreshAfter, OthersHold
<1>10. ASSUME NEW e \in Events, Resolve(e) PROVE VersionInv'
  BY <1>1, <1>10, OthersHold DEF Resolve, handlerVars
<1>11. CASE UNCHANGED serverVars
  BY <1>1, <1>11, OthersHold DEF serverVars
<1> QED
  BY <1>2, <1>3, <1>4, <1>5, <1>6, <1>7, <1>8, <1>9, <1>10, <1>11, CommitHolds
     DEF Next, Handle

IInv == TypeInv /\ VersionInv

THEOREM Invariant == Spec => []IInv
<1>1. Init => IInv
  BY InitTyped, VersionInit DEF IInv
<1>2. IInv /\ [Next]_serverVars => IInv'
  BY TypeStep, AtWorkStep, VersionStep DEF IInv, TypeInv
<1> QED
  BY <1>1, <1>2, PTL DEF Spec

(* Whatever requests interleave, crash or reprocess, no two stored events  *)
(* share a company version and none is beyond the current one.             *)
THEOREM VersionsAreUnique == Spec => []VersionsUnique
<1>1. IInv => VersionsUnique
  BY DEF IInv, VersionInv, LogBounded, LogDistinct, VersionsUnique
<1> QED
  BY Invariant, <1>1, PTL

(* Only a commit gives a stored event another version, and that version    *)
(* lies beyond every version that was visible before.                      *)
LEMMA LogStep ==
    ASSUME IInv, [Next]_serverVars, NEW e \in Events
    PROVE  log'[e].version # log[e].version =>
              /\ log'[e].version > version
              /\ \E p \in Handlers : Commit(p)
<1>1. ASSUME NEW p \in Handlers, Commit(p)
      PROVE  log'[e].version # log[e].version => log'[e].version > version
  <2>1. ReadyToCommit(p) /\ log'[e] = Merged(p, e)
    BY <1>1 DEF Commit
  <2>2. version \in Nat /\ Merged(p, e).version \in Nat
    BY MergeTyped DEF IInv, TypeInv, TypeOK, LogRecord
  <2> QED
    BY <2>1, <2>2, MergedVersion DEF IInv
<1>2. ASSUME NEW p \in Handlers, StoreRefusal(p) \/ FailEvent(p)
      PROVE  log'[e].version = log[e].version
  BY <1>2 DEF StoreRefusal, FailEvent, Stored, IInv, TypeInv, TypeOK, VersionInv, LogBounded
<1>3. ASSUME NEW p \in Handlers,
             \/ \E f \in Events : \/ Receive(p, f) \/ StartReprocess(p, f)
                                  \/ StartAdminReprocess(p, f)
                                  \/ MaterializeDependent(p, f)
             \/ Materialize(p) \/ NextCompanyVersion(p) \/ FindDependents(p)
             \/ Rollback(p) \/ Crash(p) \/ Release(p)
      PROVE  log' = log
  BY <1>3 DEF Receive, StartReprocess, StartAdminReprocess, MaterializeDependent,
              Materialize, NextCompanyVersion, FindDependents, Rollback, Crash,
              Release, logVars
<1>4. CASE \E f \in Events : Resolve(f)
  BY <1>4 DEF Resolve
<1>5. CASE UNCHANGED serverVars
  BY <1>5 DEF serverVars
<1> QED
  BY <1>1, <1>2, <1>3, <1>4, <1>5 DEF Next, Handle

(* A version is never handed to a reader after a larger one.               *)
THEOREM VersionsAreCommittedInOrder == Spec => VersionsCommitInOrder
<1>1. IInv /\ [Next]_serverVars =>
         [\A e \in Events : log'[e].version # log[e].version
                               => log'[e].version > version]_serverVars
  BY LogStep
<1> QED
  BY Invariant, <1>1, PTL DEF Spec, VersionsCommitInOrder
-----------------------------------------------------------------------------
(* However requests overlap, repeat, crash or reprocess, every domain row  *)
(* comes from at most one accepted event.                                  *)

(* The inductive invariant: it is about the stored events, and about what  *)
(* each open transaction would add to them.                                *)
AcceptedCreator(e) == Creates(e) /\ log[e].status = "ACCEPTED"
Makes(p, e) == Creates(e) /\ tx[p].writes[e].status = "ACCEPTED"

CreatorsStored == \A e \in Events : AcceptedCreator(e) => EntityOf[e] \in rows

CreatorsSingle ==
    \A e, f \in Events :
        AcceptedCreator(e) /\ AcceptedCreator(f) /\ EntityOf[e] = EntityOf[f]
            => e = f

MakesSingle(p) ==
    \A e, f \in Events :
        Makes(p, e) /\ Makes(p, f) /\ EntityOf[e] = EntityOf[f] => e = f

RowInv ==
    /\ CreatorsStored /\ CreatorsSingle
    /\ \A p \in Handlers : MakesSingle(p)

(* A transaction that has written nothing creates nothing.                 *)
LEMMA FreshMakesNothing ==
    ASSUME NEW p \in Handlers, tx[p].writes = NoWrites
    PROVE  MakesSingle(p)
BY DEF MakesSingle, Makes, NoWrites, NoWrite

LEMMA RowInit == ASSUME Init PROVE RowInv
<1>1. CreatorsStored /\ CreatorsSingle
  BY DEF Init, NoEvents, Absent, CreatorsStored, CreatorsSingle, AcceptedCreator
<1>2. ASSUME NEW p \in Handlers PROVE tx[p].writes = NoWrites
  BY DEF Init, NoTx, Opened
<1> QED
  BY <1>1, <1>2, FreshMakesNothing DEF RowInv

(* Only an event whose row was not seen is accepted as its creator.        *)
LEMMA AcceptedUnseen ==
    ASSUME NEW e, NEW seen, NEW outcome \in Outcomes(e, seen), NEW v,
           Creates(e), Write(e, outcome, seen, v).status = "ACCEPTED"
    PROVE  EntityOf[e] \notin seen
<1>1. outcome = "accepted"
  BY OutcomesKnown DEF Write, StatusOf, AllOutcomes
<1> QED
  BY <1>1 DEF Outcomes

(* A step that writes one outcome keeps what a transaction makes single,   *)
(* when the materializer saw the rows the transaction had made before.     *)
LEMMA WriteKeepsSingle ==
    ASSUME TypeOK, NEW p \in Handlers, MakesSingle(p), NEW e \in Events, NEW seen,
           NEW outcome \in Outcomes(e, seen), NEW v \in Nat,
           CreatedBy(p) \subseteq seen,
           tx' = [tx EXCEPT ![p] = WithWrite(@, e, Write(e, outcome, seen, v))]
    PROVE  MakesSingle(p)'
<1> DEFINE w == Write(e, outcome, seen, v)
<1>1. w \in WriteRecord
  BY OutcomesKnown, WriteTyped
<1>2. Creates(e) /\ w.status = "ACCEPTED" => EntityOf[e] \notin CreatedBy(p)
  BY AcceptedUnseen
<1> HIDE DEF w
<1>3. tx'[p].writes = [tx[p].writes EXCEPT ![e] = w]
  BY <1>1, WithWriteTyped DEF TypeOK, w
<1>4. \A f \in Events : tx'[p].writes[f] = IF f = e THEN w ELSE tx[p].writes[f]
  BY <1>3 DEF TypeOK, TxRecord
<1>5. \A f \in Events : Makes(p, f) => EntityOf[f] \in CreatedBy(p)
  BY DEF Makes, CreatedBy
<1>6. \A f \in Events :
         Makes(p, f)' <=> IF f = e THEN Creates(e) /\ w.status = "ACCEPTED"
                          ELSE Makes(p, f)
  BY <1>4 DEF Makes, Creates
<1> QED
  BY <1>2, <1>5, <1>6 DEF MakesSingle

(* What a commit stores as accepted was stored before, or is new.          *)
LEMMA CommitAccepts ==
    ASSUME NEW p \in Handlers, Commit(p), NEW e \in Events, AcceptedCreator(e)'
    PROVE  AcceptedCreator(e) \/ Makes(p, e)
BY DEF Commit, Merged, AcceptedCreator, Makes, Creates

LEMMA CommitKeepsRows ==
    ASSUME TypeInv, RowInv, NEW p \in Handlers, Commit(p)
    PROVE  RowInv'
<1>1. rows' = rows \cup CreatedBy(p) /\ CreatedBy(p) \cap rows = {}
  BY DEF Commit, Violates
<1>2. \A e \in Events : Makes(p, e) => EntityOf[e] \in CreatedBy(p)
  BY DEF Makes, CreatedBy
<1>3. CreatorsStored'
  BY <1>1, <1>2, CommitAccepts DEF RowInv, CreatorsStored
<1>4. ASSUME NEW e \in Events, NEW f \in Events,
             AcceptedCreator(e)', AcceptedCreator(f)', EntityOf[e] = EntityOf[f]
      PROVE  e = f
  <2>1. CASE AcceptedCreator(e) /\ AcceptedCreator(f)
    BY <1>4, <2>1 DEF RowInv, CreatorsSingle
  <2>2. CASE Makes(p, e) /\ Makes(p, f)
    BY <1>4, <2>2 DEF RowInv, MakesSingle
  <2>3. ~ (AcceptedCreator(e) /\ Makes(p, f)) /\ ~ (Makes(p, e) /\ AcceptedCreator(f))
    BY <1>1, <1>2, <1>4 DEF RowInv, CreatorsStored
  <2> QED
    BY <1>4, <2>1, <2>2, <2>3, CommitAccepts
<1>5. CreatorsSingle'
  BY <1>4 DEF CreatorsSingle
<1>6. Fresh(p)' /\ \A q \in Handlers \ {p} : tx'[q] = tx[q]
  BY EndFresh DEF Commit
<1>7. \A q \in Handlers : MakesSingle(q)'
  <2>1. MakesSingle(p)'
    BY <1>6 DEF Fresh, MakesSingle, Makes, NoWrites, NoWrite
  <2>2. \A q \in Handlers \ {p} : MakesSingle(q)'
    BY <1>6 DEF RowInv, MakesSingle, Makes, Creates
  <2> QED
    BY <2>1, <2>2
<1> QED
  BY <1>3, <1>5, <1>7 DEF RowInv

(* Every other step leaves the accepted events and the rows as they are.   *)
LEMMA RowStep == ASSUME IInv, RowInv, [Next]_serverVars PROVE RowInv'
<1> USE DEF IInv, TypeInv
<1>1. ASSUME log' = log, rows' = rows, \A p \in Handlers : MakesSingle(p)'
      PROVE  RowInv'
  BY <1>1 DEF RowInv, CreatorsStored, CreatorsSingle, AcceptedCreator, Creates
<1>2. ASSUME NEW p \in Handlers, tx'[p].writes = tx[p].writes \/ tx'[p].writes = NoWrites
      PROVE  MakesSingle(p)'
  BY <1>2 DEF RowInv, MakesSingle, Makes, Creates, NoWrites, NoWrite
<1>3. ASSUME NEW p \in Handlers, NEW e \in Events,
             Receive(p, e) \/ StartReprocess(p, e) \/ StartAdminReprocess(p, e)
      PROVE  RowInv'
  <2>1. PICK job : Begin(p, e, job)
    BY <1>3 DEF Receive, StartReprocess, StartAdminReprocess
  <2>2. \A q \in Handlers : tx'[q].writes = tx[q].writes \/ tx'[q].writes = NoWrites
    BY <2>1 DEF Begin, Opened, TypeOK
  <2>3. log' = log /\ rows' = rows
    BY <1>3 DEF Receive, StartReprocess, StartAdminReprocess, logVars
  <2> QED
    BY <1>1, <1>2, <2>2, <2>3
<1>4. ASSUME NEW p \in Handlers, StoreRefusal(p) \/ FailEvent(p) PROVE RowInv'
  <2>1. tx' = tx /\ rows' = rows
    BY <1>4 DEF StoreRefusal, FailEvent
  <2>2. \A e \in Events : AcceptedCreator(e)' => AcceptedCreator(e)
    BY <1>4 DEF StoreRefusal, FailEvent, AcceptedCreator, Creates, TypeOK
  <2>3. CreatorsStored' /\ CreatorsSingle'
    BY <2>1, <2>2 DEF RowInv, CreatorsStored, CreatorsSingle
  <2> QED
    BY <1>2, <2>1, <2>3 DEF RowInv
<1>5. ASSUME NEW p \in Handlers, Materialize(p) PROVE RowInv'
  <2>1. PICK outcome \in Outcomes(tx[p].event, rows) :
          tx' = [tx EXCEPT ![p] =
                   WithWrite(@, tx[p].event, Write(tx[p].event, outcome, rows, 0))]
    BY <1>5 DEF Materialize
  <2>2. phase[p] = "begun" /\ log' = log /\ rows' = rows
    BY <1>5 DEF Materialize, logVars
  <2>3. tx[p].event \in Events /\ tx[p].writes = NoWrites
    BY <2>2 DEF AtWork, VersionInv, PhaseInv
  <2>4. CreatedBy(p) \subseteq rows
    BY <2>3 DEF CreatedBy, NoWrites, NoWrite
  <2>5. MakesSingle(p)'
    BY <2>1, <2>3, <2>4, WriteKeepsSingle DEF RowInv
  <2>6. \A q \in Handlers \ {p} : tx'[q].writes = tx[q].writes
    BY <2>1 DEF TypeOK
  <2> QED
    BY <1>1, <1>2, <2>2, <2>5, <2>6
<1>6. ASSUME NEW p \in Handlers, NEW e \in Events, MaterializeDependent(p, e)
      PROVE  RowInv'
  <2> DEFINE seen == rows \cup CreatedBy(p)
  <2>1. PICK outcome \in Outcomes(e, seen) :
          tx' = [tx EXCEPT
                   ![p] = WithWrite(@, e, Write(e, outcome, seen, @.top + 1))]
    BY <1>6 DEF MaterializeDependent
  <2>2. log' = log /\ rows' = rows
    BY <1>6 DEF MaterializeDependent, logVars
  <2>3. tx[p].top + 1 \in Nat
    BY DEF TypeOK, TxRecord
  <2> HIDE DEF seen
  <2>4. MakesSingle(p)'
    <3>1. CreatedBy(p) \subseteq seen
      BY DEF seen
    <3> QED
      BY <2>1, <2>3, <3>1, WriteKeepsSingle DEF RowInv
  <2>5. \A q \in Handlers \ {p} : tx'[q].writes = tx[q].writes
    BY <2>1 DEF TypeOK
  <2> QED
    BY <1>1, <1>2, <2>2, <2>4, <2>5
<1>7. ASSUME NEW p \in Handlers, NextCompanyVersion(p) PROVE RowInv'
  <2> DEFINE e == tx[p].event
             w == [tx[p].writes[e] EXCEPT !.version = version + 1]
  <2>1. e \in Events /\ tx[p] \in TxRecord /\ version \in Nat
    BY <1>7 DEF NextCompanyVersion, TypeOK, AtWork
  <2>2. tx[p].writes[e] \in WriteRecord
    BY <2>1 DEF TxRecord
  <2>3. w \in WriteRecord /\ w.status = tx[p].writes[e].status
    BY <2>1, <2>2 DEF WriteRecord
  <2>4. tx' = [tx EXCEPT ![p] = WithWrite(@, e, w)] /\ log' = log /\ rows' = rows
    BY <1>7 DEF NextCompanyVersion, WithVersion, logVars
  <2> HIDE DEF e, w
  <2>5. tx'[p].writes = [tx[p].writes EXCEPT ![e] = w]
    BY <2>1, <2>3, <2>4, WithWriteTyped DEF TypeOK
  <2>6. \A f \in Events : tx'[p].writes[f].status = tx[p].writes[f].status
    BY <2>1, <2>3, <2>5 DEF TxRecord
  <2>7. MakesSingle(p)'
    BY <2>6 DEF RowInv, MakesSingle, Makes, Creates
  <2>8. \A q \in Handlers \ {p} : tx'[q].writes = tx[q].writes
    BY <2>4 DEF TypeOK
  <2> QED
    BY <1>1, <1>2, <2>4, <2>7, <2>8
<1>8. ASSUME NEW p \in Handlers, FindDependents(p) PROVE RowInv'
  <2>1. \A q \in Handlers : tx'[q].writes = tx[q].writes
    BY <1>8 DEF FindDependents, TypeOK, TxRecord
  <2> QED
    BY <1>1, <1>2, <1>8, <2>1 DEF FindDependents, logVars
<1>9. ASSUME NEW p \in Handlers, Rollback(p) \/ Crash(p) PROVE RowInv'
  <2>1. EndTransaction(p) /\ log' = log /\ rows' = rows
    BY <1>9 DEF Rollback, Crash, logVars
  <2>2. \A q \in Handlers : tx'[q].writes = tx[q].writes \/ tx'[q].writes = NoWrites
    BY <2>1, EndFresh DEF Fresh
  <2> QED
    BY <1>1, <1>2, <2>1, <2>2
<1>10. ASSUME NEW p \in Handlers, Release(p) PROVE RowInv'
  <2>1. \A q \in Handlers : tx'[q].writes = tx[q].writes \/ tx'[q].writes = NoWrites
    BY <1>10 DEF Release, NoTx, Opened, TypeOK
  <2> QED
    BY <1>1, <1>2, <1>10, <2>1 DEF Release, logVars
<1>11. CASE UNCHANGED serverVars \/ \E e \in Events : Resolve(e)
  BY <1>1, <1>2, <1>11 DEF serverVars, Resolve, handlerVars
<1> QED
  BY <1>3, <1>4, <1>5, <1>6, <1>7, <1>8, <1>9, <1>10, <1>11, CommitKeepsRows
     DEF Next, Handle

(* However often an event is delivered, and under whatever event ids, at   *)
(* most one accepted event created a domain row, and the row is there.     *)
THEOREM RowsAreCreatedOnce == Spec => []RowsHaveOneCreator
<1>1. Init => IInv /\ RowInv
  BY InitTyped, VersionInit, RowInit DEF IInv
<1>2. IInv /\ RowInv /\ [Next]_serverVars => RowInv'
  BY RowStep
<1>3. RowInv => RowsHaveOneCreator
  BY DEF RowInv, CreatorsStored, CreatorsSingle, AcceptedCreator, RowsHaveOneCreator, Creators
<1> QED
  BY Invariant, <1>1, <1>2, <1>3, PTL DEF Spec
-----------------------------------------------------------------------------
(* The inductive invariant behind the conflicts: an event with a conflict  *)
(* is stored and decided, a reprocess has such an event, and beside its    *)
(* own event a transaction writes only pending items of the order it       *)
(* accepted, which no other transaction can touch before it ends.          *)

InTransaction(p) == phase[p] \in {"begun", "decided", "written", "dependents"}

ConflictsDecided ==
    \A e \in Events :
        conflict[e].status # "none" => log[e].status \notin {"absent", "PENDING"}

JobInv(p) ==
    InTransaction(p) =>
        /\ tx[p].job = "reprocess" => conflict[tx[p].event].status # "none"
        /\ tx[p].job = "admin" => /\ tx[p].event \in Reprocessable
                                  /\ Stored(tx[p].event)

PendingItem(f) == log[f].status = "PENDING" /\ KindOf[f] \in {"item", "linkedItem"}

DependentsInv(p) ==
    /\ phase[p] = "dependents" => tx[p].job = "push"
    /\ \A f \in Events : tx[p].writes[f].status # "FAILED"
    /\ \A f \in Events \ {tx[p].event} :
          f \in tx[p].todo \/ tx[p].writes[f].status # "absent" =>
             phase[p] = "dependents" /\ PendingItem(f)

ConflictInv ==
    /\ ConflictsMatchEvents /\ ConflictsDecided
    /\ \A p \in Handlers : JobInv(p) /\ DependentsInv(p)

(* A handler that has nothing written and no transaction open.             *)
LEMMA RestingAgrees ==
    ASSUME NEW p \in Handlers, tx[p].writes = NoWrites, tx[p].todo = {},
           phase[p] # "dependents", JobInv(p)
    PROVE  JobInv(p) /\ DependentsInv(p)
BY DEF DependentsInv, NoWrites, NoWrite

LEMMA ConflictInit == ASSUME Init PROVE ConflictInv
<1>1. ConflictsMatchEvents /\ ConflictsDecided
  BY DEF Init, NoEvents, Absent, NoConflict, ConflictsMatchEvents, ConflictsDecided
<1>2. ASSUME NEW p \in Handlers PROVE JobInv(p) /\ DependentsInv(p)
  <2>1. /\ phase[p] = "idle" /\ tx[p].writes = NoWrites /\ tx[p].todo = {}
        /\ JobInv(p)
    BY DEF Init, NoTx, Opened, JobInv, InTransaction
  <2> QED
    BY <2>1, RestingAgrees
<1> QED
  BY <1>1, <1>2 DEF ConflictInv

(* What the rest of the state must keep for a handler that does not move.  *)
LEMMA OthersAgree ==
    ASSUME TypeInv, ConflictInv, NEW q \in Handlers,
           tx'[q] = tx[q], phase'[q] = phase[q],
           \A e \in Events :
              /\ conflict[e].status # "none" => conflict'[e].status # "none"
              /\ Stored(e) => Stored(e)',
           \A f \in Events \ {tx[q].event} :
              f \in tx[q].todo \/ tx[q].writes[f].status # "absent" =>
                 log'[f].status = log[f].status
    PROVE  JobInv(q)' /\ DependentsInv(q)'
<1>1. InTransaction(q)' => InTransaction(q) /\ tx[q].event \in Events
  BY DEF InTransaction, TypeInv, AtWork
<1>2. JobInv(q)'
  BY <1>1 DEF ConflictInv, JobInv
<1>3. DependentsInv(q)'
  BY DEF ConflictInv, DependentsInv, PendingItem
<1> QED
  BY <1>2, <1>3

(* The events and conflicts stay as they are: only p may have moved.       *)
LEMMA StillAgree ==
    ASSUME TypeInv, ConflictInv, log' = log, conflict' = conflict,
           NEW p \in Handlers, JobInv(p)', DependentsInv(p)',
           \A q \in Handlers \ {p} : tx'[q] = tx[q] /\ phase'[q] = phase[q]
    PROVE  ConflictInv'
<1>1. ConflictsMatchEvents' /\ ConflictsDecided'
  BY DEF ConflictInv, ConflictsMatchEvents, ConflictsDecided
<1>2. \A q \in Handlers \ {p} : JobInv(q)' /\ DependentsInv(q)'
  BY OthersAgree DEF Stored
<1> QED
  BY <1>1, <1>2 DEF ConflictInv

(* A transaction that writes an answer for its own event, or for an item.  *)
LEMMA AnswerWritten ==
    ASSUME TypeOK, NEW p \in Handlers, NEW e \in Events, NEW seen,
           NEW outcome \in Outcomes(e, seen), NEW v \in Nat,
           tx' = [tx EXCEPT ![p] = WithWrite(@, e, Write(e, outcome, seen, v))]
    PROVE  /\ tx'[p].event = tx[p].event /\ tx'[p].job = tx[p].job
           /\ tx'[p].todo = tx[p].todo \ {e}
           /\ tx'[p].writes[e].status \notin {"absent", "FAILED"}
           /\ \A f \in Events \ {e} : tx'[p].writes[f] = tx[p].writes[f]
           /\ \A q \in Handlers \ {p} : tx'[q] = tx[q]
<1> DEFINE w == Write(e, outcome, seen, v)
<1>1. w \in WriteRecord /\ w.status = StatusOf(outcome)
  BY OutcomesKnown, WriteTyped
<1>2. w.status \notin {"absent", "FAILED"}
  BY <1>1, OutcomesKnown DEF StatusOf, AllOutcomes
<1>3. tx' = [tx EXCEPT ![p] = WithWrite(@, e, w)]
  OBVIOUS
<1> HIDE DEF w
<1>4. /\ tx'[p].writes = [tx[p].writes EXCEPT ![e] = w]
      /\ tx'[p].event = tx[p].event /\ tx'[p].job = tx[p].job
      /\ tx'[p].todo = tx[p].todo \ {e}
  BY <1>1, <1>3, WithWriteTyped DEF TypeOK
<1>5. \A f \in Events : tx'[p].writes[f] = IF f = e THEN w ELSE tx[p].writes[f]
  BY <1>4 DEF TypeOK, TxRecord
<1>6. \A q \in Handlers \ {p} : tx'[q] = tx[q]
  BY <1>3 DEF TypeOK
<1> QED
  BY <1>2, <1>4, <1>5, <1>6

LEMMA MaterializeAgrees ==
    ASSUME TypeInv, VersionInv, ConflictInv, NEW p \in Handlers, Materialize(p)
    PROVE  ConflictInv'
<1>1. /\ phase[p] = "begun" /\ tx[p].event \in Events
      /\ log' = log /\ conflict' = conflict
  BY DEF Materialize, logVars, TypeInv, AtWork
<1>2. PICK outcome \in Outcomes(tx[p].event, rows) :
         tx' = [tx EXCEPT ![p] =
                   WithWrite(@, tx[p].event, Write(tx[p].event, outcome, rows, 0))]
  BY DEF Materialize
<1>3. /\ tx'[p].event = tx[p].event /\ tx'[p].job = tx[p].job
      /\ tx'[p].todo = tx[p].todo \ {tx[p].event}
      /\ tx'[p].writes[tx[p].event].status \notin {"absent", "FAILED"}
      /\ \A f \in Events \ {tx[p].event} : tx'[p].writes[f] = tx[p].writes[f]
      /\ \A q \in Handlers \ {p} : tx'[q] = tx[q]
  <2> TypeOK
    BY DEF TypeInv
  <2> QED
    BY <1>1, <1>2, AnswerWritten
<1>4. /\ phase'[p] \in {"decided", "written"}
      /\ \A q \in Handlers \ {p} : phase'[q] = phase[q]
  BY DEF Materialize, TypeInv, TypeOK
<1>5. JobInv(p)'
  BY <1>1, <1>3 DEF ConflictInv, JobInv, InTransaction, Stored
<1>6. DependentsInv(p)'
  BY <1>1, <1>3, <1>4 DEF ConflictInv, DependentsInv
<1> QED
  BY <1>1, <1>3, <1>4, <1>5, <1>6, StillAgree

LEMMA NextCompanyVersionAgrees ==
    ASSUME TypeInv, ConflictInv, NEW p \in Handlers, NextCompanyVersion(p)
    PROVE  ConflictInv'
<1> DEFINE e == tx[p].event
           w == [tx[p].writes[e] EXCEPT !.version = version + 1]
<1>1. /\ phase[p] = "decided" /\ e \in Events /\ tx[p] \in TxRecord
      /\ version \in Nat /\ log' = log /\ conflict' = conflict
  BY DEF NextCompanyVersion, logVars, TypeInv, TypeOK, AtWork
<1>2. tx[p].writes[e] \in WriteRecord
  BY <1>1 DEF TxRecord
<1>3. w \in WriteRecord /\ w.status = tx[p].writes[e].status
  BY <1>1, <1>2 DEF WriteRecord
<1>4. tx' = [tx EXCEPT ![p] = WithWrite(@, e, w)]
  BY DEF NextCompanyVersion, WithVersion
<1> HIDE DEF e, w
<1>5. /\ phase'[p] = "written"
      /\ \A q \in Handlers \ {p} : phase'[q] = phase[q] /\ tx'[q] = tx[q]
  BY <1>4 DEF NextCompanyVersion, TypeInv, TypeOK
<1>6. /\ tx'[p].writes = [tx[p].writes EXCEPT ![e] = w]
      /\ tx'[p].event = tx[p].event /\ tx'[p].job = tx[p].job
      /\ tx'[p].todo = tx[p].todo \ {e}
  BY <1>1, <1>3, <1>4, WithWriteTyped DEF TypeInv, TypeOK
<1>8. \A f \in Events : tx'[p].writes[f].status = tx[p].writes[f].status
  BY <1>1, <1>3, <1>6 DEF TxRecord
<1>9. JobInv(p)'
  BY <1>1, <1>6 DEF ConflictInv, JobInv, InTransaction, Stored
<1>10. DependentsInv(p)'
  BY <1>1, <1>5, <1>6, <1>8 DEF ConflictInv, DependentsInv, e
<1> QED
  BY <1>1, <1>5, <1>9, <1>10, StillAgree

LEMMA FindDependentsAgrees ==
    ASSUME TypeInv, ConflictInv, NEW p \in Handlers, FindDependents(p)
    PROVE  ConflictInv'
<1>1. /\ phase[p] = "written" /\ tx[p].event \in Events /\ tx[p].job = "push"
      /\ log' = log /\ conflict' = conflict /\ tx[p] \in TxRecord
  BY DEF FindDependents, logVars, TypeInv, TypeOK, AtWork
<1>2. /\ tx'[p].event = tx[p].event /\ tx'[p].job = tx[p].job
      /\ tx'[p].writes = tx[p].writes
      /\ \A f \in tx'[p].todo : f \in Events /\ PendingItem(f)
  BY <1>1 DEF FindDependents, TxRecord, TypeInv, TypeOK, PendingItem
<1>3. /\ phase'[p] = "dependents"
      /\ \A q \in Handlers \ {p} : phase'[q] = phase[q] /\ tx'[q] = tx[q]
  BY DEF FindDependents, TypeInv, TypeOK
<1>4. JobInv(p)'
  BY <1>1, <1>2 DEF JobInv
<1>5. DependentsInv(p)'
  BY <1>1, <1>2, <1>3 DEF ConflictInv, DependentsInv, PendingItem
<1> QED
  BY <1>1, <1>3, <1>4, <1>5, StillAgree

LEMMA MaterializeDependentAgrees ==
    ASSUME TypeInv, VersionInv, ConflictInv, NEW p \in Handlers, NEW e \in Events,
           MaterializeDependent(p, e)
    PROVE  ConflictInv'
<1> DEFINE seen == rows \cup CreatedBy(p)
<1>1. /\ phase[p] = "dependents" /\ tx[p].event \in Events /\ e \in tx[p].todo
      /\ log' = log /\ conflict' = conflict /\ phase' = phase
      /\ tx[p].top + 1 \in Nat
  BY DEF MaterializeDependent, logVars, TypeInv, TypeOK, AtWork, TxRecord
<1>2. PICK outcome \in Outcomes(e, seen) :
         tx' = [tx EXCEPT ![p] = WithWrite(@, e, Write(e, outcome, seen, @.top + 1))]
  BY DEF MaterializeDependent
<1> HIDE DEF seen
<1>3. tx' = [tx EXCEPT ![p] = WithWrite(@, e, Write(e, outcome, seen, tx[p].top + 1))]
  BY <1>2
<1>4. /\ tx'[p].event = tx[p].event /\ tx'[p].job = tx[p].job
      /\ tx'[p].todo = tx[p].todo \ {e}
      /\ tx'[p].writes[e].status \notin {"absent", "FAILED"}
      /\ \A f \in Events \ {e} : tx'[p].writes[f] = tx[p].writes[f]
      /\ \A q \in Handlers \ {p} : tx'[q] = tx[q]
  <2> TypeOK
    BY DEF TypeInv
  <2> QED
    BY <1>1, <1>3, AnswerWritten
<1>5. e # tx[p].event
  BY <1>1 DEF VersionInv, PhaseInv
<1>6. JobInv(p)'
  BY <1>1, <1>4 DEF ConflictInv, JobInv, InTransaction, Stored
<1>7. DependentsInv(p)'
  BY <1>1, <1>4, <1>5 DEF ConflictInv, DependentsInv, PendingItem
<1> QED
  BY <1>1, <1>4, <1>6, <1>7, StillAgree

(* Whose stored status a commit may change.                                *)
LEMMA CommitTouches ==
    ASSUME TypeInv, ConflictInv, NEW p \in Handlers, Commit(p), NEW e \in Events,
           log'[e] # log[e] \/ conflict'[e] # conflict[e]
    PROVE  \/ e = tx[p].event
           \/ phase[p] = "dependents" /\ PendingItem(e) /\ tx[p].job = "push"
<1>1. tx[p].writes[e].status # "absent"
  BY DEF Commit, Merged, ConflictAfter
<1> QED
  BY <1>1 DEF ConflictInv, DependentsInv

(* The stored event of a commit was not pending, nor was it ever when the  *)
(* event is pushed.                                                        *)
LEMMA CommittedNotPending ==
    ASSUME TypeInv, ConflictInv, NEW p \in Handlers, Commit(p)
    PROVE  ~ PendingItem(tx[p].event)
<1>1. InTransaction(p) /\ tx[p].event \in Events
  BY DEF Commit, ReadyToCommit, InTransaction, TypeInv, AtWork
<1>2. CASE tx[p].job = "push"
  BY <1>2 DEF Commit, Violates, Stored, PendingItem
<1>3. CASE tx[p].job = "reprocess"
  BY <1>1, <1>3 DEF ConflictInv, JobInv, ConflictsDecided, PendingItem
<1>4. CASE tx[p].job = "admin"
  BY <1>1, <1>4, ConstantsAssumption DEF ConflictInv, JobInv, PendingItem
<1> QED
  BY <1>2, <1>3, <1>4 DEF TypeInv, TypeOK, TxRecord

(* What a commit makes of one event and its conflict.                      *)
LEMMA CommitAgrees ==
    ASSUME TypeInv, ConflictInv, NEW p \in Handlers, Commit(p), NEW e \in Events
    PROVE  /\ log'[e].status = "CONFLICT" => conflict'[e].status # "none"
           /\ conflict'[e].status = "OPEN" /\ e \notin Reprocessable =>
                 log'[e].status \in {"CONFLICT", "REJECTED"}
           /\ conflict'[e].status # "none" => log'[e].status \notin {"absent", "PENDING"}
           /\ conflict[e].status # "none" => conflict'[e].status # "none"
           /\ Stored(e) => Stored(e)'
<1> DEFINE w == tx[p].writes[e]
<1>1. /\ log'[e] = Merged(p, e) /\ conflict'[e] = ConflictAfter(p, e)
      /\ InTransaction(p) /\ tx[p].event \in Events
  BY DEF Commit, ReadyToCommit, InTransaction, TypeInv, AtWork
<1>2. w.status # "FAILED" /\ w.status \in Statuses
  BY DEF ConflictInv, DependentsInv, TypeInv, TypeOK, TxRecord, WriteRecord
<1>3. /\ log[e].status = "CONFLICT" => conflict[e].status # "none"
      /\ conflict[e].status = "OPEN" /\ e \notin Reprocessable =>
            log[e].status \in {"CONFLICT", "REJECTED"}
      /\ conflict[e].status # "none" => log[e].status \notin {"absent", "PENDING"}
  BY DEF ConflictInv, ConflictsMatchEvents, ConflictsDecided
<1>4. log'[e].status =
         IF w.status = "absent" \/ (w.status = "PENDING" /\ Stored(e))
         THEN log[e].status ELSE w.status
  BY <1>1 DEF Merged
<1>5. conflict[e] \in ConflictRecord
  BY DEF TypeInv, TypeOK
<1>6. conflict'[e].status =
         IF tx[p].job # "reprocess" /\ w.status = "CONFLICT" THEN "OPEN"
         ELSE IF tx[p].job = "reprocess" /\ w.status \in {"ACCEPTED", "DUPLICATE"}
              THEN "RESOLVED" ELSE conflict[e].status
  <2>1. [conflict[e] EXCEPT !.status = "RESOLVED"].status = "RESOLVED"
    BY <1>5 DEF ConflictRecord
  <2>2. [status |-> "OPEN", code |-> w.code].status = "OPEN"
    OBVIOUS
  <2> QED
    BY <1>1, <2>1, <2>2, Zenon DEF ConflictAfter
<1>7. w.status # "absent" =>
         \/ tx[p].job = "push" /\ log[e].status \in {"absent", "PENDING"}
         \/ tx[p].job = "reprocess" /\ conflict[e].status # "none"
         \/ tx[p].job = "admin" /\ e \in Reprocessable /\ Stored(e)
  <2> SUFFICES ASSUME w.status # "absent"
               PROVE  \/ tx[p].job = "push" /\ log[e].status \in {"absent", "PENDING"}
                      \/ tx[p].job = "reprocess" /\ conflict[e].status # "none"
                      \/ tx[p].job = "admin" /\ e \in Reprocessable /\ Stored(e)
    OBVIOUS
  <2>1. CASE e # tx[p].event
    BY <2>1 DEF ConflictInv, DependentsInv, PendingItem
  <2>2. CASE e = tx[p].event /\ tx[p].job = "push"
    BY <2>2 DEF Commit, Violates, Stored
  <2>3. CASE e = tx[p].event /\ tx[p].job # "push"
    BY <1>1, <2>3 DEF ConflictInv, JobInv, TypeInv, TypeOK, TxRecord
  <2> QED
    BY <2>1, <2>2, <2>3
<1> HIDE DEF w
<1> QED
  BY <1>2, <1>3, <1>4, <1>6, <1>7 DEF Stored, Statuses

LEMMA CommitKeepsConflicts ==
    ASSUME TypeInv, VersionInv, ConflictInv, NEW p \in Handlers, Commit(p)
    PROVE  ConflictInv'
<1>1. ConflictsMatchEvents' /\ ConflictsDecided'
  BY CommitAgrees DEF ConflictsMatchEvents, ConflictsDecided
<1>2. /\ tx'[p].writes = NoWrites /\ tx'[p].todo = {} /\ phase'[p] = "done"
      /\ \A q \in Handlers \ {p} : tx'[q] = tx[q] /\ phase'[q] = phase[q]
  BY DEF Commit, EndTransaction, Opened, Finish, TypeInv, TypeOK
<1>3. JobInv(p)' /\ DependentsInv(p)'
  <2>1. JobInv(p)'
    BY <1>2 DEF JobInv, InTransaction
  <2> QED
    BY <1>2, <2>1 DEF DependentsInv, NoWrites, NoWrite
<1>4. ASSUME NEW q \in Handlers \ {p}, NEW f \in Events \ {tx[q].event},
             f \in tx[q].todo \/ tx[q].writes[f].status # "absent"
      PROVE  log'[f] = log[f]
  <2>1. phase[q] = "dependents" /\ PendingItem(f)
    BY <1>4 DEF ConflictInv, DependentsInv
  <2>2. phase[p] # "dependents"
    BY <2>1 DEF VersionInv, PhaseInv
  <2>3. f # tx[p].event
    BY <2>1, CommittedNotPending
  <2> QED
    BY <2>2, <2>3, CommitTouches
<1>5. \A q \in Handlers \ {p} : JobInv(q)' /\ DependentsInv(q)'
  BY <1>2, <1>4, CommitAgrees, OthersAgree
<1> QED
  BY <1>1, <1>3, <1>5 DEF ConflictInv

LEMMA ConflictStep ==
    ASSUME TypeInv, VersionInv, ConflictInv, [Next]_serverVars
    PROVE  ConflictInv'
<1>1. ASSUME NEW p \in Handlers, NEW e \in Events,
             Receive(p, e) \/ StartReprocess(p, e) \/ StartAdminReprocess(p, e)
      PROVE  ConflictInv'
  <2>1. PICK job : Begin(p, e, job)
    BY <1>1 DEF Receive, StartReprocess, StartAdminReprocess
  <2>2. /\ tx'[p] = Opened(e, job) /\ log' = log /\ conflict' = conflict
        /\ phase'[p] # "dependents"
        /\ \A q \in Handlers \ {p} : tx'[q] = tx[q] /\ phase'[q] = phase[q]
    BY <1>1, <2>1 DEF Receive, StartReprocess, StartAdminReprocess, Begin, Finish,
                      logVars, TypeInv, TypeOK
  <2>3. JobInv(p)'
    BY <1>1, <2>2 DEF Receive, StartReprocess, StartAdminReprocess, Begin, Opened,
                      JobInv, Stored, TypeInv, TypeOK, ConflictRecord
  <2>4. DependentsInv(p)'
    BY <2>2 DEF Opened, DependentsInv, NoWrites, NoWrite
  <2> QED
    BY <2>2, <2>3, <2>4, StillAgree
<1>2. ASSUME NEW p \in Handlers, StoreRefusal(p) \/ FailEvent(p) PROVE ConflictInv'
  <2>1. /\ tx' = tx /\ conflict' = conflict /\ phase[p] # "dependents"
        /\ phase'[p] = "done" /\ \A q \in Handlers \ {p} : phase'[q] = phase[q]
    BY <1>2 DEF StoreRefusal, FailEvent, Finish, TypeInv, TypeOK
  <2>2. \A e \in Events : \/ log'[e] = log[e]
                          \/ /\ log[e].status = "absent"
                             /\ log'[e].status \in {"REJECTED", "FAILED"}
    BY <1>2 DEF StoreRefusal, FailEvent, Stored, TypeInv, TypeOK
  <2>3. ConflictsMatchEvents' /\ ConflictsDecided'
    BY <2>1, <2>2 DEF ConflictInv, ConflictsMatchEvents, ConflictsDecided
  <2>4. JobInv(p)' /\ DependentsInv(p)'
    BY <2>1 DEF ConflictInv, JobInv, InTransaction, DependentsInv
  <2>5. \A q \in Handlers \ {p} : JobInv(q)' /\ DependentsInv(q)'
    <3> SUFFICES ASSUME NEW q \in Handlers \ {p} PROVE JobInv(q)' /\ DependentsInv(q)'
      OBVIOUS
    <3>1. \A e \in Events : Stored(e) => Stored(e)'
      BY <2>2 DEF Stored
    <3>2. \A f \in Events \ {tx[q].event} :
             f \in tx[q].todo \/ tx[q].writes[f].status # "absent" =>
                log'[f].status = log[f].status
      BY <2>2 DEF ConflictInv, DependentsInv, PendingItem
    <3> QED
      BY <2>1, <3>1, <3>2, OthersAgree
  <2> QED
    BY <2>3, <2>4, <2>5 DEF ConflictInv
<1>3. ASSUME NEW p \in Handlers, NEW e \in Events, MaterializeDependent(p, e)
      PROVE  ConflictInv'
  BY <1>3, MaterializeDependentAgrees
<1>4. ASSUME NEW p \in Handlers, Rollback(p) \/ Crash(p) \/ Release(p) PROVE ConflictInv'
  <2>1. /\ tx'[p].writes = NoWrites /\ tx'[p].todo = {} /\ log' = log
        /\ conflict' = conflict /\ phase'[p] \in {"failing", "done", "idle"}
        /\ \A q \in Handlers \ {p} : tx'[q] = tx[q] /\ phase'[q] = phase[q]
    BY <1>4 DEF Rollback, Crash, Release, EndTransaction, Opened, NoTx, Finish,
                logVars, TypeInv, TypeOK
  <2>2. JobInv(p)'
    BY <2>1 DEF JobInv, InTransaction
  <2>3. DependentsInv(p)'
    BY <2>1 DEF DependentsInv, NoWrites, NoWrite
  <2> QED
    BY <2>1, <2>2, <2>3, StillAgree
<1>5. ASSUME NEW e \in Events, Resolve(e) PROVE ConflictInv'
  <2>1. tx' = tx /\ phase' = phase /\ log' = log
    BY <1>5 DEF Resolve, handlerVars
  <2>2. \A f \in Events :
           \/ conflict'[f] = conflict[f]
           \/ conflict[f].status = "OPEN" /\ conflict'[f].status = "RESOLVED"
    BY <1>5 DEF Resolve, TypeInv, TypeOK, ConflictRecord
  <2>3. ConflictsMatchEvents' /\ ConflictsDecided'
    BY <2>1, <2>2 DEF ConflictInv, ConflictsMatchEvents, ConflictsDecided
  <2>4. \A q \in Handlers : JobInv(q)' /\ DependentsInv(q)'
    BY <2>1, <2>2, OthersAgree DEF Stored
  <2> QED
    BY <2>3, <2>4 DEF ConflictInv
<1>6. CASE UNCHANGED serverVars
  <2>1. \A q \in Handlers : JobInv(q)' /\ DependentsInv(q)'
    BY <1>6, OthersAgree DEF serverVars, Stored
  <2> QED
    BY <1>6, <2>1 DEF serverVars, ConflictInv, ConflictsMatchEvents, ConflictsDecided
<1> QED
  BY <1>1, <1>2, <1>3, <1>4, <1>5, <1>6, MaterializeAgrees, NextCompanyVersionAgrees,
     FindDependentsAgrees, CommitKeepsConflicts DEF Next, Handle

(* Whatever requests, commits, crashes, resolutions and reprocesses        *)
(* interleave, a conflicting event has its conflict, and an open conflict  *)
(* is about an event that is not in the accepted history.                  *)
THEOREM ConflictsAgree == Spec => []ConflictsMatchEvents
<1>1. Init => ConflictInv
  BY ConflictInit
<1>2. IInv /\ ConflictInv /\ [Next]_serverVars => ConflictInv'
  BY ConflictStep DEF IInv
<1>3. ConflictInv => ConflictsMatchEvents
  BY DEF ConflictInv
<1> QED
  BY Invariant, <1>1, <1>2, <1>3, PTL DEF Spec

-----------------------------------------------------------------------------
(* The event log implements the feed of VersionFeed: a device that has     *)
(* pulled up to the current version never needs to look behind it again.   *)

positions == [e \in Events |-> log[e].version]
visible == {e \in Events : Visible(e)}

(* An event that a commit makes visible, or changes, gets a new version.   *)
LEMMA VisibleAfterCommit ==
    ASSUME IInv, NEW p \in Handlers, Commit(p), NEW e \in Events,
           tx[p].writes[e].version = 0, Visible(e)'
    PROVE  Visible(e)
<1> DEFINE w == tx[p].writes[e]
<1>1. /\ log'[e] = Merged(p, e) /\ conflict'[e] = ConflictAfter(p, e)
      /\ phase[p] \in {"written", "dependents"}
  BY DEF Commit, ReadyToCommit
<1>2. w.status \notin {"ACCEPTED", "CONFLICT"}
  BY <1>1 DEF IInv, VersionInv, PhaseInv, Versioned
<1>3. log'[e].status = log[e].status
  <2>1. w.status = "absent" \/ (w.status = "PENDING" /\ Stored(e)) \/
           log'[e].status = w.status
    BY <1>1 DEF Merged
  <2>2. log'[e].status \in {"ACCEPTED", "CONFLICT"}
    BY DEF Visible
  <2> QED
    BY <1>1, <1>2, <2>1, <2>2 DEF Merged
<1>4. conflict'[e].status = "RESOLVED" \/ conflict'[e] = conflict[e]
  <2>1. conflict[e] \in ConflictRecord
    BY DEF IInv, TypeInv, TypeOK
  <2> QED
    BY <1>1, <1>2, <2>1, Zenon DEF ConflictAfter, ConflictRecord
<1> QED
  BY <1>3, <1>4 DEF Visible

(* A commit that allocated versions publishes the events that have them.   *)
LEMMA CommitPublishes ==
    ASSUME IInv, NEW p \in Handlers, Commit(p), lock = p
    PROVE  Feed!Publish({e \in Events : tx[p].writes[e].version # 0})
<1> DEFINE S == {e \in Events : tx[p].writes[e].version # 0}
<1>1. /\ version' = tx[p].top /\ ReadyToCommit(p)
      /\ \A e \in Events : log'[e] = Merged(p, e)
  BY DEF Commit
<1>2. Locked(p) /\ phase[p] # "idle"
  BY <1>1 DEF IInv, VersionInv, LockInv, ReadyToCommit
<1>3. S # {}
  BY <1>2 DEF Locked, IInv, TypeInv, AtWork
<1>4. version' \in Nat /\ version' > version
  BY <1>1, <1>2 DEF Locked, IInv, TypeInv, TypeOK, TxRecord
<1>5. TypeOK'
  BY TypeStep DEF IInv, Next, Handle
<1>6. positions' \in [Events -> Nat]
  BY <1>5 DEF positions, TypeOK, LogRecord
<1>7. \A e \in S : version < positions'[e] /\ positions'[e] <= version'
  BY <1>1, MergedVersion DEF IInv, positions
<1>8. \A e, f \in S : positions'[e] = positions'[f] => e = f
  BY <1>1, <1>2, MergedVersion DEF IInv, positions, Locked
<1>9. \A e \in Events \ S : positions'[e] = positions[e]
  BY <1>1, MergedVersion DEF IInv, positions
<1>10. visible' \subseteq visible \cup S
  BY VisibleAfterCommit DEF visible
<1> QED
  BY <1>3, <1>4, <1>6, <1>7, <1>8, <1>9, <1>10
     DEF Feed!Publish, positions, visible

(* Without a version a commit only takes events out of the feed.           *)
LEMMA CommitWithdraws ==
    ASSUME IInv, NEW p \in Handlers, Commit(p), lock # p
    PROVE  Feed!Withdraw
<1>1. \A e \in Events : tx[p].writes[e].version = 0
  BY DEF IInv, VersionInv, LockInv, Unlocked
<1>2. /\ version' = version /\ ReadyToCommit(p)
      /\ \A e \in Events : log'[e] = Merged(p, e)
  BY DEF Commit
<1>3. positions' = positions
  BY <1>1, <1>2, MergedVersion DEF IInv, positions
<1>4. visible' \subseteq visible
  BY <1>1, VisibleAfterCommit DEF visible
<1> QED
  BY <1>2, <1>3, <1>4 DEF Feed!Withdraw, positions, visible

(* A refusal is stored without a version and is not visible.               *)
LEMMA RefusalWithdraws ==
    ASSUME IInv, NEW p \in Handlers, StoreRefusal(p) \/ FailEvent(p)
    PROVE  Feed!Withdraw
<1>1. version' = version /\ conflict' = conflict
  BY DEF StoreRefusal, FailEvent
<1>2. \A e \in Events : \/ log'[e] = log[e]
                        \/ /\ log[e].version = 0 /\ log'[e].version = 0
                           /\ log'[e].status \in {"REJECTED", "FAILED"}
  BY DEF StoreRefusal, FailEvent, Stored, IInv, TypeInv, TypeOK, VersionInv, LogBounded
<1>3. positions' = positions
  BY <1>2 DEF positions
<1>4. visible' \subseteq visible
  BY <1>1, <1>2 DEF visible, Visible
<1> QED
  BY <1>1, <1>3, <1>4 DEF Feed!Withdraw, positions, visible

LEMMA ResolveWithdraws ==
    ASSUME IInv, NEW e \in Events, Resolve(e)
    PROVE  Feed!Withdraw
<1>1. version' = version /\ log' = log
  BY DEF Resolve
<1>2. \A f \in Events : conflict'[f] = conflict[f] \/ conflict'[f].status = "RESOLVED"
  BY DEF Resolve, IInv, TypeInv, TypeOK, ConflictRecord
<1>3. visible' \subseteq visible
  BY <1>1, <1>2 DEF visible, Visible
<1> QED
  BY <1>1, <1>3 DEF Feed!Withdraw, visible

LEMMA FeedStep == ASSUME IInv, [Next]_serverVars PROVE [Feed!Next]_(Feed!feedVars)
<1>1. ASSUME NEW p \in Handlers, Commit(p) PROVE Feed!Next
  <2>1. CASE lock = p
    <3> DEFINE S == {e \in Events : tx[p].writes[e].version # 0}
    <3>1. Feed!Publish(S)
      BY <1>1, <2>1, CommitPublishes
    <3>2. S \in SUBSET Events
      OBVIOUS
    <3> HIDE DEF S
    <3> QED
      BY <3>1, <3>2 DEF Feed!Next, Feed!Publish
  <2>2. CASE lock # p
    BY <1>1, <2>2, CommitWithdraws DEF Feed!Next
  <2> QED
    BY <2>1, <2>2
<1>2. ASSUME NEW p \in Handlers, StoreRefusal(p) \/ FailEvent(p) PROVE Feed!Next
  BY <1>2, RefusalWithdraws DEF Feed!Next
<1>3. ASSUME NEW e \in Events, Resolve(e) PROVE Feed!Next
  BY <1>3, ResolveWithdraws DEF Feed!Next
<1>4. ASSUME version' = version, log' = log, conflict' = conflict
      PROVE  UNCHANGED Feed!feedVars
  BY <1>4 DEF Feed!feedVars, Visible
<1>5. ASSUME NEW p \in Handlers,
             \/ \E f \in Events : \/ Receive(p, f) \/ StartReprocess(p, f)
                                  \/ StartAdminReprocess(p, f)
                                  \/ MaterializeDependent(p, f)
             \/ Materialize(p) \/ NextCompanyVersion(p) \/ FindDependents(p)
             \/ Rollback(p) \/ Crash(p) \/ Release(p)
      PROVE  UNCHANGED Feed!feedVars
  BY <1>4, <1>5 DEF Receive, StartReprocess, StartAdminReprocess,
       MaterializeDependent, Materialize, NextCompanyVersion, FindDependents,
       Rollback, Crash, Release, logVars
<1>6. CASE UNCHANGED serverVars
  BY <1>4, <1>6 DEF serverVars
<1> QED
  BY <1>1, <1>2, <1>3, <1>5, <1>6 DEF Next, Handle

(* The log as a device sees it through pull is the feed of VersionFeed.    *)
THEOREM LogImplementsFeed == Spec => FeedSpec
<1>1. Init => Feed!Init
  BY DEF Init, Feed!Init, NoEvents, Absent, Visible
<1>2. IInv /\ [Next]_serverVars => [Feed!Next]_(Feed!feedVars)
  BY FeedStep
<1> QED
  BY Invariant, <1>1, <1>2, PTL DEF Spec, FeedSpec, Feed!Spec
-----------------------------------------------------------------------------
(* What that feed gives any reader of it: positions name one history, and  *)
(* nothing appears behind a reader that has seen the top.                  *)

VARIABLES top, position, live   \* a feed of its own, whatever implements it

Reader == INSTANCE VersionFeed


FeedInv == Reader!FeedTypeOK /\ Reader!PositionsUnique

LEMMA FeedInvStep == FeedInv /\ [Reader!Next]_(Reader!feedVars) => FeedInv'
<1> SUFFICES ASSUME FeedInv, [Reader!Next]_(Reader!feedVars) PROVE FeedInv'
  OBVIOUS
<1> USE DEF FeedInv, Reader!FeedTypeOK, Reader!PositionsUnique
<1>1. ASSUME NEW S \in SUBSET Events, Reader!Publish(S) PROVE FeedInv'
  <2>1. Reader!FeedTypeOK'
    BY <1>1 DEF Reader!Publish
  <2>2. \A e \in Events : position'[e] <= top'
    BY <1>1 DEF Reader!Publish
  <2>3. ASSUME NEW e \in Events, NEW f \in Events,
               position'[e] = position'[f], position'[e] # 0
        PROVE  e = f
    <3>1. CASE e \in S /\ f \in S
      BY <1>1, <2>3, <3>1 DEF Reader!Publish
    <3>2. CASE e \notin S /\ f \notin S
      BY <1>1, <2>3, <3>2 DEF Reader!Publish
    <3>3. CASE ~ (e \in S <=> f \in S)
      BY <1>1, <2>3, <3>3 DEF Reader!Publish
    <3> QED
      BY <3>1, <3>2, <3>3
  <2> QED
    BY <2>1, <2>2, <2>3
<1>2. CASE Reader!Withdraw
  BY <1>2 DEF Reader!Withdraw
<1>3. CASE UNCHANGED Reader!feedVars
  BY <1>3 DEF Reader!feedVars
<1> QED
  BY <1>1, <1>2, <1>3 DEF Reader!Next

(* Positions are unique and none is beyond the top: a checkpoint names one *)
(* point of the history.                                                   *)
THEOREM PositionsAreUnique == Reader!Spec => []Reader!PositionsUnique
<1>1. Reader!Init => FeedInv
  BY DEF Reader!Init, FeedInv, Reader!FeedTypeOK, Reader!PositionsUnique
<1>2. FeedInv => Reader!PositionsUnique
  BY DEF FeedInv
<1> QED
  BY <1>1, <1>2, FeedInvStep, PTL DEF Reader!Spec

(* A reader that has seen everything up to the top misses nothing later:   *)
(* what becomes live or moves lies beyond that top.                        *)
THEOREM ReadersMissNothing == Reader!Spec => Reader!NothingAppearsBehind
<1>1. [Reader!Next]_(Reader!feedVars) =>
        [\A e \in Events :
            \/ e \in live' /\ e \notin live
            \/ position'[e] # position[e]
            => position'[e] > top]_(Reader!feedVars)
  <2> SUFFICES ASSUME Reader!Next, NEW e \in Events,
                      (e \in live' /\ e \notin live) \/ position'[e] # position[e]
               PROVE  position'[e] > top
    BY DEF Reader!feedVars
  <2>1. PICK S \in SUBSET Events : Reader!Publish(S)
    BY DEF Reader!Next, Reader!Withdraw
  <2>2. e \in S
    BY <2>1 DEF Reader!Publish
  <2>3. top < position'[e]
    BY <2>1, <2>2 DEF Reader!Publish
  <2> QED
    BY <2>3
<1> QED
  BY <1>1, PTL DEF Reader!Spec, Reader!NothingAppearsBehind
=============================================================================

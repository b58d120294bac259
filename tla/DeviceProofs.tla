------------------------ MODULE DeviceProofs ------------------------
(***************************************************************************)
(* The two halves of a sync run.  Push: what a device shows is what the    *)
(* server stored, for a queue and batches of any size and any number of    *)
(* requests, crashes, timeouts and losses.  Pull: a run leaves no gap and  *)
(* the checkpoint only moves forward.  Then the commands by which support   *)
(* helps a device: none runs twice, its outcome stays, and what was         *)
(* archived is not applied, for any commands, items, events and             *)
(* administrators, whatever answers are late and whatever requests overlap. *)
(***************************************************************************)
EXTENDS OperationalPush, OperationalPull, SupportCommands, FiniteSetTheorems, TLAPS

RequestRecord == [running : BOOLEAN, todo : SUBSET Events,
                  answers : [Events -> Terminal \cup {"none"}]]

LEMMA FreeSlotTyped == FreeSlot \in RequestRecord
BY DEF FreeSlot, RequestRecord, NoAnswers

-----------------------------------------------------------------------------
(* Types.  A runner that waits has a request.                              *)

Waits == phase = "waiting" => current \in Requests

TypeInv == TypeOK /\ Waits

LEMMA InitTyped == ASSUME Init PROVE TypeInv
<1>1. 0 \in 0..MaxFaults
  BY PushAssumption
<1> QED
  BY <1>1, FreeSlotTyped
     DEF Init, TypeInv, TypeOK, Waits, RowStatuses, Phases, NoAnswers, RequestRecord

LEMMA SetRowsTyped ==
    ASSUME TypeOK, NEW S, NEW state \in RowStatuses,
           NEW time \in {"none", "waiting", "due"}, SetRows(S, state, time)
    PROVE  /\ queue' \in [Events -> RowStatuses]
           /\ timer' \in [Events -> {"none", "waiting", "due"}]
BY DEF TypeOK, SetRows

LEMMA EndPushTyped ==
    ASSUME EndPush
    PROVE  /\ phase' = "idle" /\ current' = None /\ batch' = {}
           /\ answers' \in [Events -> Terminal \cup {"none"}]
BY DEF EndPush, NoAnswers

LEMMA FaultTyped == ASSUME TypeOK, Fault PROVE faults' \in 0..MaxFaults
BY PushAssumption DEF TypeOK, Fault

(* A step that frees a slot keeps the others.                              *)
LEMMA FreeTyped ==
    ASSUME TypeOK, NEW r \in Requests, request' = [request EXCEPT ![r] = FreeSlot]
    PROVE  request' \in [Requests -> RequestRecord]
BY FreeSlotTyped DEF TypeOK, RequestRecord

LEMMA DeviceStepTyped ==
    ASSUME TypeInv,
           \/ \E e \in Events : Enqueue(e) \/ Tick(e) \/ Mark(e)
           \/ RecoverStalePushing \/ Finish
    PROVE  TypeInv'
<1> USE DEF TypeInv, Waits
<1>1. ASSUME NEW e \in Events, Enqueue(e) PROVE TypeInv'
  <2>1. SetRows({e}, "pending", "none")
    BY <1>1 DEF Enqueue
  <2> QED
    BY <1>1, <2>1, SetRowsTyped DEF Enqueue, RowStatuses, TypeOK
<1>2. ASSUME NEW e \in Events, Tick(e) PROVE TypeInv'
  BY <1>2 DEF Tick, TypeOK
<1>3. ASSUME NEW e \in Events, Mark(e) PROVE TypeInv'
  <2>1. answers[e] \in Terminal
    BY <1>3 DEF Mark, Unmarked, TypeOK
  <2>2. SetRows({e}, answers[e], "none") /\ answers[e] \in RowStatuses
    BY <1>3, <2>1 DEF Mark, RowStatuses
  <2> QED
    BY <1>3, <2>2, SetRowsTyped DEF Mark, TypeOK
<1>4. CASE RecoverStalePushing
  <2>1. SetRows({e \in Events : queue[e] = "pushing" /\ timer[e] = "due"},
                "pending", "none")
    BY <1>4 DEF RecoverStalePushing
  <2> QED
    BY <1>4, <2>1, SetRowsTyped DEF RecoverStalePushing, RowStatuses, Phases, TypeOK
<1>5. CASE Finish
  BY <1>5, EndPushTyped DEF Finish, TypeOK, Phases
<1> QED
  BY <1>1, <1>2, <1>3, <1>4, <1>5

LEMMA PushTyped ==
    ASSUME TypeInv, NEW retryOnly \in BOOLEAN, NEW force \in BOOLEAN,
           Push(retryOnly, force)
    PROVE  TypeInv'
<1> USE DEF TypeInv, Waits
<1> DEFINE items == FirstOf(Listed(retryOnly, force))
<1>1. items \subseteq Events
  BY DEF FirstOf, Listed
<1>2. CASE items = {}
  <2>1. EndPush /\ UNCHANGED <<queue, timer, request, store, faults>>
    BY <1>2 DEF Push
  <2> QED
    BY <2>1, EndPushTyped DEF TypeOK, Phases
<1>3. CASE items # {}
  <2>1. PICK r \in Requests :
          /\ SetRows(items, "pushing", "waiting")
          /\ request' = [request EXCEPT ![r] =
                [running |-> TRUE, todo |-> items, answers |-> NoAnswers]]
          /\ phase' = "waiting" /\ current' = r /\ batch' = items
          /\ UNCHANGED <<answers, store, faults>>
    BY <1>3 DEF Push
  <2> HIDE DEF items
  <2>2. [running |-> TRUE, todo |-> items, answers |-> NoAnswers] \in RequestRecord
    BY <1>1 DEF RequestRecord, NoAnswers
  <2>3. request' \in [Requests -> RequestRecord]
    BY <2>1, <2>2 DEF TypeOK, RequestRecord
  <2>4. /\ queue' \in [Events -> RowStatuses]
        /\ timer' \in [Events -> {"none", "waiting", "due"}]
    BY <2>1, SetRowsTyped DEF RowStatuses
  <2> QED
    BY <1>1, <2>1, <2>3, <2>4 DEF TypeOK, Phases, RequestRecord
<1> QED
  BY <1>2, <1>3

LEMMA FailureTyped ==
    ASSUME TypeInv,
           \/ NoAnswer \/ Timeout \/ MarkingFails \/ Stop
           \/ \E r \in Requests : RefusePendingDeletion(r)
    PROVE  TypeInv'
<1> USE DEF TypeInv, Waits
<1>1. ASSUME FailBatch, faults' \in 0..MaxFaults PROVE TypeInv'
  BY <1>1, SetRowsTyped, EndPushTyped DEF FailBatch, RowStatuses, Phases, TypeOK
<1>2. CASE NoAnswer
  BY <1>1, <1>2 DEF NoAnswer, TypeOK
<1>3. CASE Timeout \/ MarkingFails
  BY <1>1, <1>3, FaultTyped DEF Timeout, MarkingFails
<1>4. CASE Stop
  BY <1>4, EndPushTyped, FaultTyped DEF Stop, Phases, TypeOK
<1>5. ASSUME NEW r \in Requests, RefusePendingDeletion(r) PROVE TypeInv'
  <2>1. SetRows(batch, "failed", "none") /\ EndPush
    BY <1>5 DEF RefusePendingDeletion
  <2>2. request' \in [Requests -> RequestRecord]
    BY <1>5, FreeTyped DEF RefusePendingDeletion
  <2>3. /\ queue' \in [Events -> RowStatuses]
        /\ timer' \in [Events -> {"none", "waiting", "due"}]
    BY <2>1, SetRowsTyped DEF RowStatuses
  <2>4. faults' \in 0..MaxFaults /\ store' = store
    BY <1>5, FaultTyped DEF RefusePendingDeletion
  <2> QED
    BY <2>1, <2>2, <2>3, <2>4, EndPushTyped DEF TypeOK, Phases, RequestRecord
<1> QED
  BY <1>2, <1>3, <1>4, <1>5

(* One event of a request is served: it is new and stored under s, or it   *)
(* was stored and is answered as a duplicate.                              *)
Answers(r, e, answer) ==
    request' = [request EXCEPT ![r].todo = @ \ {e}, ![r].answers[e] = answer]

ServesNew(r, e, s) ==
    /\ store[e] = "absent"
    /\ store' = [store EXCEPT ![e] = s]
    /\ Answers(r, e, IF s = "failed" THEN "rejected" ELSE s)

ServesAgain(r, e) ==
    /\ store[e] # "absent" /\ store' = store
    /\ Answers(r, e, "duplicates")

LEMMA ServeCases ==
    ASSUME TypeOK, NEW r \in Requests, Serve(r)
    PROVE  \E e \in Events :
              ServesAgain(r, e) \/ \E s \in Stored : ServesNew(r, e, s)
<1>1. Smallest(request[r].todo) \subseteq Events
  BY DEF Smallest, TypeOK
<1> QED
  BY <1>1 DEF Serve, ServesNew, ServesAgain, Answers

(* What serving an event makes of the answers of its request.              *)
LEMMA ServedRequest ==
    ASSUME TypeOK, NEW r \in Requests, NEW e \in Events,
           NEW answer \in Terminal, Answers(r, e, answer)
    PROVE  /\ request' \in [Requests -> RequestRecord]
           /\ request'[r].answers = [request[r].answers EXCEPT ![e] = answer]
           /\ \A q \in Requests \ {r} : request'[q] = request[q]
<1> DEFINE row == [request[r] EXCEPT !.todo = @ \ {e}, !.answers[e] = answer]
<1>1. request[r] \in RequestRecord
  BY DEF TypeOK, RequestRecord
<1>2. /\ row.running = request[r].running
      /\ row.todo = request[r].todo \ {e}
      /\ row.answers = [request[r].answers EXCEPT ![e] = answer]
      /\ row \in RequestRecord
  BY <1>1 DEF RequestRecord
<1>3. request' = [request EXCEPT ![r] = row]
  BY <1>1 DEF RequestRecord, Answers
<1>4. request \in [Requests -> RequestRecord]
  BY DEF TypeOK, RequestRecord
<1> HIDE DEF row
<1> QED
  BY <1>2, <1>3, <1>4

LEMMA StoredAnswer ==
    ASSUME NEW s \in Stored
    PROVE  (IF s = "failed" THEN "rejected" ELSE s) \in Terminal
BY DEF Stored, Terminal

LEMMA ServerStepTyped ==
    ASSUME TypeInv, NEW r \in Requests,
           Respond(r) \/ Serve(r) \/ Discard(r) \/ Drop(r)
    PROVE  TypeInv'
<1> USE DEF TypeInv, Waits
<1>1. CASE Respond(r)
  <2>1. request' \in [Requests -> RequestRecord]
    BY <1>1, FreeTyped DEF Respond
  <2> QED
    BY <1>1, <2>1 DEF Respond, TypeOK, Phases, RequestRecord
<1>2. CASE Serve(r)
  <2>1. PICK e \in Events :
           ServesAgain(r, e) \/ \E s \in Stored : ServesNew(r, e, s)
    BY <1>2, ServeCases
  <2>2. request' \in [Requests -> RequestRecord]
    <3>1. CASE ServesAgain(r, e)
      <4>1. "duplicates" \in Terminal
        BY DEF Terminal
      <4> QED
        BY <3>1, <4>1, ServedRequest DEF ServesAgain
    <3>2. ASSUME NEW s \in Stored, ServesNew(r, e, s)
          PROVE  request' \in [Requests -> RequestRecord]
      BY <3>2, StoredAnswer, ServedRequest DEF ServesNew
    <3> QED
      BY <2>1, <3>1, <3>2
  <2>3. store' \in [Events -> Stored \cup {"absent"}]
    BY <2>1 DEF ServesAgain, ServesNew, TypeOK
  <2> QED
    BY <1>2, <2>2, <2>3 DEF Serve, deviceVars, TypeOK, RequestRecord
<1>3. CASE Discard(r) \/ Drop(r)
  <2>1. request' \in [Requests -> RequestRecord]
    BY <1>3, FreeTyped DEF Discard, Drop
  <2>2. faults' \in 0..MaxFaults
    BY <1>3, FaultTyped DEF Discard, Drop, TypeOK
  <2> QED
    BY <1>3, <2>1, <2>2 DEF Discard, Drop, deviceVars, TypeOK, RequestRecord
<1> QED
  BY <1>1, <1>2, <1>3

LEMMA TypeStep == TypeInv /\ [Next]_vars => TypeInv'
<1> SUFFICES ASSUME TypeInv, [Next]_vars PROVE TypeInv'
  OBVIOUS
<1>1. CASE UNCHANGED vars
  BY <1>1 DEF vars, TypeInv, TypeOK, Waits
<1> QED
  BY <1>1, DeviceStepTyped, PushTyped, FailureTyped, ServerStepTyped DEF Next

(* Type correctness, whatever the queue, the batches and the requests.     *)
THEOREM TypeCorrect == Spec => []TypeOK
<1>1. Init => TypeInv
  BY InitTyped
<1>2. TypeInv => TypeOK
  BY DEF TypeInv
<1> QED
  BY <1>1, <1>2, TypeStep, PTL DEF Spec

-----------------------------------------------------------------------------
(* What the device shows.  An answer is true from the moment it is given:  *)
(* on the server, on its way, in the hands of the runner and in the queue. *)

True(answer, stored) ==
    /\ answer \in Terminal => stored # "absent"
    /\ answer \in {"accepted", "conflicts"} => stored = answer
    /\ answer = "rejected" => stored \in {"rejected", "failed"}

AnswersTrue ==
    \A e \in Events :
        /\ True(queue[e], store[e])
        /\ True(answers[e], store[e])
        /\ \A r \in Requests : True(request[r].answers[e], store[e])

LEMMA NotSettled ==
    ASSUME NEW stored
    PROVE  /\ True("none", stored) /\ True("pending", stored)
           /\ True("pushing", stored) /\ True("failed", stored)
BY DEF True, Terminal

(* Rows that leave or enter the queue unsettled show nothing false.        *)
LEMMA UnsettledRows ==
    ASSUME TypeOK, AnswersTrue, NEW S,
           NEW state \in {"pending", "pushing", "failed"},
           NEW time, SetRows(S, state, time), store' = store
    PROVE  \A e \in Events : True(queue'[e], store'[e])
<1>1. \A e \in Events : queue'[e] = state \/ queue'[e] = queue[e]
  BY DEF SetRows
<1> QED
  BY <1>1, NotSettled DEF AnswersTrue

LEMMA ForgottenAnswers ==
    ASSUME EndPush PROVE \A e \in Events : answers'[e] = "none"
BY DEF EndPush, NoAnswers

(* A slot that is freed has no answers; the others keep theirs.            *)
LEMMA FreedAnswers ==
    ASSUME TypeOK, AnswersTrue, NEW r \in Requests,
           request' = request \/ request' = [request EXCEPT ![r] = FreeSlot],
           store' = store
    PROVE  \A q \in Requests, e \in Events : True(request'[q].answers[e], store'[e])
<1>1. \A q \in Requests, e \in Events :
         \/ request'[q].answers[e] = request[q].answers[e]
         \/ request'[q].answers[e] = "none"
  BY DEF TypeOK, FreeSlot, NoAnswers
<1> QED
  BY <1>1, NotSettled DEF AnswersTrue

LEMMA AnswersInit == ASSUME Init PROVE AnswersTrue
BY NotSettled DEF Init, AnswersTrue, FreeSlot, NoAnswers

LEMMA DeviceStepTrue ==
    ASSUME TypeInv, AnswersTrue,
           \/ \E e \in Events : Enqueue(e) \/ Tick(e) \/ Mark(e)
           \/ RecoverStalePushing \/ Finish
           \/ \E retryOnly, force \in BOOLEAN : Push(retryOnly, force)
    PROVE  AnswersTrue'
<1> USE DEF TypeInv
<1>1. ASSUME NEW e \in Events, Enqueue(e) PROVE AnswersTrue'
  <2>1. SetRows({e}, "pending", "none") /\ UNCHANGED <<answers, request, store>>
    BY <1>1 DEF Enqueue
  <2> QED
    BY <2>1, UnsettledRows DEF AnswersTrue
<1>2. ASSUME NEW e \in Events, Tick(e) PROVE AnswersTrue'
  BY <1>2 DEF Tick, AnswersTrue
<1>3. ASSUME NEW e \in Events, Mark(e) PROVE AnswersTrue'
  <2>1. /\ \A f \in Events : queue'[f] = IF f = e THEN answers[e] ELSE queue[f]
        /\ \A f \in Events : answers'[f] = IF f = e THEN "none" ELSE answers[f]
        /\ UNCHANGED <<request, store>>
    BY <1>3 DEF Mark, SetRows, TypeOK
  <2> QED
    BY <2>1, NotSettled DEF AnswersTrue
<1>4. CASE RecoverStalePushing
  <2>1. /\ SetRows({e \in Events : queue[e] = "pushing" /\ timer[e] = "due"},
                   "pending", "none")
        /\ UNCHANGED <<answers, request, store>>
    BY <1>4 DEF RecoverStalePushing
  <2> QED
    BY <2>1, UnsettledRows DEF AnswersTrue
<1>5. CASE Finish
  BY <1>5, ForgottenAnswers, NotSettled DEF Finish, AnswersTrue
<1>6. ASSUME NEW retryOnly \in BOOLEAN, NEW force \in BOOLEAN, Push(retryOnly, force)
      PROVE  AnswersTrue'
  <2> DEFINE items == FirstOf(Listed(retryOnly, force))
  <2>1. CASE items = {}
    <3>1. EndPush /\ UNCHANGED <<queue, request, store>>
      BY <1>6, <2>1 DEF Push
    <3> QED
      BY <3>1, ForgottenAnswers, NotSettled DEF AnswersTrue
  <2>2. CASE items # {}
    <3>1. PICK r \in Requests :
            /\ SetRows(items, "pushing", "waiting")
            /\ request' = [request EXCEPT ![r] =
                  [running |-> TRUE, todo |-> items, answers |-> NoAnswers]]
            /\ UNCHANGED <<answers, store>>
      BY <1>6, <2>2 DEF Push
    <3> HIDE DEF items
    <3>2. \A e \in Events : True(queue'[e], store'[e])
      BY <3>1, UnsettledRows
    <3>3. \A q \in Requests, e \in Events :
             \/ request'[q].answers[e] = request[q].answers[e]
             \/ request'[q].answers[e] = "none"
      BY <3>1 DEF NoAnswers, TypeOK
    <3> QED
      BY <3>1, <3>2, <3>3, NotSettled DEF AnswersTrue
  <2> QED
    BY <2>1, <2>2
<1> QED
  BY <1>1, <1>2, <1>3, <1>4, <1>5, <1>6

LEMMA FailureTrue ==
    ASSUME TypeInv, AnswersTrue,
           \/ NoAnswer \/ Timeout \/ MarkingFails \/ Stop
           \/ \E r \in Requests : RefusePendingDeletion(r)
    PROVE  AnswersTrue'
<1> USE DEF TypeInv
<1>1. CASE FailBatch
  BY <1>1, UnsettledRows, ForgottenAnswers, NotSettled DEF FailBatch, AnswersTrue
<1>2. CASE Stop
  BY <1>2, ForgottenAnswers, NotSettled DEF Stop, AnswersTrue
<1>3. ASSUME NEW r \in Requests, RefusePendingDeletion(r) PROVE AnswersTrue'
  <2>1. /\ SetRows(batch, "failed", "none") /\ EndPush /\ store' = store
        /\ request' = [request EXCEPT ![r] = FreeSlot]
    BY <1>3 DEF RefusePendingDeletion
  <2> QED
    BY <2>1, UnsettledRows, ForgottenAnswers, FreedAnswers, NotSettled DEF AnswersTrue
<1> QED
  BY <1>1, <1>2, <1>3 DEF NoAnswer, Timeout, MarkingFails

(* The server stores an event once, so what was answered stays true.       *)
LEMMA ServeTrue ==
    ASSUME TypeInv, AnswersTrue, NEW r \in Requests, Serve(r)
    PROVE  AnswersTrue'
<1> USE DEF TypeInv
<1>1. PICK e \in Events :
         ServesAgain(r, e) \/ \E s \in Stored : ServesNew(r, e, s)
  BY ServeCases
<1>2. queue' = queue /\ answers' = answers
  BY DEF Serve, deviceVars
<1>3. CASE ServesAgain(r, e)
  <2>1. "duplicates" \in Terminal
    BY DEF Terminal
  <2>2. /\ request'[r].answers = [request[r].answers EXCEPT ![e] = "duplicates"]
        /\ \A q \in Requests \ {r} : request'[q] = request[q]
    BY <1>3, <2>1, ServedRequest DEF ServesAgain
  <2>3. store' = store /\ True("duplicates", store[e])
    BY <1>3 DEF ServesAgain, True
  <2>4. \A q \in Requests, f \in Events :
           \/ request'[q].answers[f] = request[q].answers[f]
           \/ f = e /\ request'[q].answers[f] = "duplicates"
    BY <2>2 DEF TypeOK
  <2> QED
    BY <1>2, <2>3, <2>4 DEF AnswersTrue
<1>4. ASSUME NEW s \in Stored, ServesNew(r, e, s) PROVE AnswersTrue'
  <2> DEFINE answer == IF s = "failed" THEN "rejected" ELSE s
  <2>1. /\ request'[r].answers = [request[r].answers EXCEPT ![e] = answer]
        /\ \A q \in Requests \ {r} : request'[q] = request[q]
    BY <1>4, StoredAnswer, ServedRequest DEF ServesNew
  <2>2. store[e] = "absent"
        /\ \A f \in Events : store'[f] = IF f = e THEN s ELSE store[f]
    BY <1>4 DEF ServesNew, TypeOK
  <2>3. True(answer, s)
    BY DEF True, Stored
  <2> HIDE DEF answer
  <2>4. \A q \in Requests, f \in Events :
           \/ request'[q].answers[f] = request[q].answers[f]
           \/ f = e /\ request'[q].answers[f] = answer
    BY <2>1 DEF TypeOK
  <2>5. /\ queue[e] \notin Terminal /\ answers[e] \notin Terminal
        /\ \A q \in Requests : request[q].answers[e] \notin Terminal
    BY <2>2 DEF AnswersTrue, True
  <2>6. \A a : a \notin Terminal => True(a, s)
    BY DEF True, Terminal
  <2> QED
    BY <1>2, <2>2, <2>3, <2>4, <2>5, <2>6 DEF AnswersTrue
<1> QED
  BY <1>1, <1>3, <1>4

LEMMA AnswersStep == TypeInv /\ AnswersTrue /\ [Next]_vars => AnswersTrue'
<1> SUFFICES ASSUME TypeInv, AnswersTrue, [Next]_vars PROVE AnswersTrue'
  OBVIOUS
<1>1. ASSUME NEW r \in Requests, Respond(r) PROVE AnswersTrue'
  <2>1. /\ queue' = queue /\ store' = store /\ answers' = request[r].answers
        /\ request' = [request EXCEPT ![r] = FreeSlot]
    BY <1>1 DEF Respond
  <2> QED
    BY <2>1, FreedAnswers DEF AnswersTrue, TypeInv
<1>2. ASSUME NEW r \in Requests, Discard(r) \/ Drop(r) PROVE AnswersTrue'
  <2>1. /\ queue' = queue /\ store' = store /\ answers' = answers
        /\ request' = [request EXCEPT ![r] = FreeSlot]
    BY <1>2 DEF Discard, Drop, deviceVars
  <2> QED
    BY <2>1, FreedAnswers DEF AnswersTrue, TypeInv
<1>3. CASE UNCHANGED vars
  BY <1>3 DEF vars, AnswersTrue
<1> QED
  BY <1>1, <1>2, <1>3, DeviceStepTrue, FailureTrue, ServeTrue DEF Next

LEMMA AnswersAlways == Spec => []AnswersTrue
<1>1. Init => TypeInv /\ AnswersTrue
  BY InitTyped, AnswersInit
<1> QED
  BY <1>1, TypeStep, AnswersStep, PTL DEF Spec

(* A row the device regards as settled is stored on the server, however    *)
(* requests overlap, time out, are lost or are repeated.                   *)
THEOREM SettledRowsAreStored == Spec => []SettledIsStored
<1>1. AnswersTrue => SettledIsStored
  BY DEF AnswersTrue, True, SettledIsStored
<1> QED
  BY <1>1, AnswersAlways, PTL

(* A row shown as accepted, refused or in conflict is that on the server.  *)
THEOREM NamedAnswersAreTrue == Spec => []AnswerIsTrue
<1>1. AnswersTrue => AnswerIsTrue
  BY DEF AnswersTrue, True, AnswerIsTrue
<1> QED
  BY <1>1, AnswersAlways, PTL
-----------------------------------------------------------------------------
(* The order in which events reach the server.  As long as nothing failed, *)
(* the runner awaits the only request there is, no row is left behind in   *)
(* "pushing", and a batch continues where the settled rows end.            *)

LEMMA CountTyped ==
    ASSUME NEW S \in SUBSET Events, NEW e \in Events
    PROVE  /\ IsFiniteSet({g \in S : g < e})
           /\ Cardinality({g \in S : g < e}) \in Nat
<1>1. IsFiniteSet(Events)
  BY FS_Interval, PushAssumption DEF Events
<1>2. {g \in S : g < e} \subseteq Events
  OBVIOUS
<1>3. IsFiniteSet({g \in S : g < e})
  BY <1>1, <1>2, FS_Subset
<1> QED
  BY <1>3, FS_CardinalityType

(* A batch takes the listed rows from the first one on.                    *)
LEMMA FirstOfIsPrefix ==
    ASSUME NEW S \in SUBSET Events, NEW e \in S, NEW f \in FirstOf(S), e < f
    PROVE  e \in FirstOf(S)
<1> DEFINE before(x) == {g \in S : g < x}
<1>1. f \in S /\ Cardinality(before(f)) < MaxBatch
  BY DEF FirstOf
<1>2. before(e) \subseteq before(f)
  <2>1. \A g \in S : g \in Int
    BY DEF Events
  <2>2. \A g \in S : g < e => g < f
    BY <1>1, <2>1
  <2> QED
    BY <2>2
<1>3. IsFiniteSet(before(f)) /\ Cardinality(before(f)) \in Nat /\ Cardinality(before(e)) \in Nat
  <2>1. e \in Events /\ f \in Events
    BY <1>1
  <2> QED
    BY <2>1, CountTyped
<1>4. Cardinality(before(e)) <= Cardinality(before(f))
  <2> HIDE DEF before
  <2> QED
    BY <1>2, <1>3, FS_Subset
<1>5. Cardinality(before(e)) < MaxBatch
  BY <1>1, <1>3, <1>4, PushAssumption
<1> QED
  BY <1>5 DEF FirstOf

EnqueuedInOrder ==
    /\ \A e, f \in Events : e < f /\ queue[f] # "none" => queue[e] # "none"
    /\ \A e \in batch : queue[e] # "none"

(* Only the request the runner awaits is under way, and what it has served *)
(* of the batch is stored and answered.                                    *)
OneRequest ==
    /\ \A r \in Requests : request[r].running => phase = "waiting" /\ current = r
    /\ phase = "waiting" =>
          /\ request[current].running
          /\ request[current].todo \subseteq batch
          /\ \A e \in batch \ request[current].todo :
                request[current].answers[e] # "none" /\ store[e] # "absent"

RowsAtWork ==
    \A e \in Events :
        /\ queue[e] # "failed"
        /\ queue[e] = "pushing" =>
              /\ e \in batch /\ phase \in {"waiting", "marking"}
              /\ phase = "marking" => answers[e] # "none"

BatchContinues ==
    \A e \in batch, f \in Events : f < e /\ f \notin batch => queue[f] \in Terminal

StoredPrefix ==
    \A e, f \in Events : e < f /\ store[f] # "absent" => store[e] # "absent"

Orderly == EnqueuedInOrder /\ OneRequest /\ RowsAtWork /\ BatchContinues /\ StoredPrefix

OrderInv == faults = 0 => Orderly

LEMMA OrderInit == ASSUME Init PROVE Orderly
BY DEF Init, Orderly, EnqueuedInOrder, OneRequest, RowsAtWork, BatchContinues,
       StoredPrefix, FreeSlot, Terminal

LEMMA DeviceKeepsOrder ==
    ASSUME TypeInv, Orderly,
           \/ \E e \in Events : Enqueue(e) \/ Tick(e) \/ Mark(e)
           \/ RecoverStalePushing \/ Finish
    PROVE  Orderly'
<1> USE DEF TypeInv, TypeOK, Orderly
<1>1. ASSUME NEW e \in Events, Enqueue(e) PROVE Orderly'
  <2>1. /\ queue[e] = "none" /\ \A f \in Events : f < e => queue[f] # "none"
        /\ \A f \in Events : queue'[f] = IF f = e THEN "pending" ELSE queue[f]
        /\ UNCHANGED <<phase, current, batch, answers, request, store>>
    BY <1>1 DEF Enqueue, SetRows
  <2>2. EnqueuedInOrder' /\ RowsAtWork'
    BY <2>1 DEF EnqueuedInOrder, RowsAtWork
  <2>3. OneRequest' /\ BatchContinues' /\ StoredPrefix'
    BY <2>1 DEF OneRequest, BatchContinues, StoredPrefix, Terminal
  <2> QED
    BY <2>2, <2>3
<1>2. ASSUME NEW e \in Events, Tick(e) PROVE Orderly'
  BY <1>2 DEF Tick, EnqueuedInOrder, OneRequest, RowsAtWork, BatchContinues, StoredPrefix
<1>3. ASSUME NEW e \in Events, Mark(e) PROVE Orderly'
  <2>1. answers[e] \in Terminal
    BY <1>3 DEF Mark, Unmarked
  <2>2. /\ phase = "marking" /\ e \in batch
        /\ \A f \in Events : queue'[f] = IF f = e THEN answers[e] ELSE queue[f]
        /\ \A f \in Events : answers'[f] = IF f = e THEN "none" ELSE answers[f]
        /\ UNCHANGED <<phase, current, batch, request, store>>
    BY <1>3 DEF Mark, Unmarked, SetRows
  <2>3. EnqueuedInOrder' /\ RowsAtWork'
    BY <2>1, <2>2 DEF EnqueuedInOrder, RowsAtWork, Terminal
  <2>4. OneRequest' /\ BatchContinues' /\ StoredPrefix'
    BY <2>1, <2>2 DEF OneRequest, BatchContinues, StoredPrefix
  <2> QED
    BY <2>3, <2>4
<1>4. CASE RecoverStalePushing
  <2>1. /\ phase = "idle" /\ phase' = "recovered"
        /\ UNCHANGED <<current, batch, answers, request, store>>
    BY <1>4 DEF RecoverStalePushing
  <2>2. \A e \in Events : queue'[e] = queue[e]
    BY <1>4, <2>1 DEF RecoverStalePushing, SetRows, RowsAtWork
  <2>3. EnqueuedInOrder' /\ RowsAtWork'
    BY <2>1, <2>2 DEF EnqueuedInOrder, RowsAtWork
  <2>4. OneRequest' /\ BatchContinues' /\ StoredPrefix'
    BY <2>1, <2>2 DEF OneRequest, BatchContinues, StoredPrefix
  <2> QED
    BY <2>3, <2>4
<1>5. CASE Finish
  <2>1. /\ phase = "marking" /\ phase' = "idle" /\ batch' = {}
        /\ \A e \in batch : answers[e] = "none"
        /\ UNCHANGED <<queue, request, store>>
    BY <1>5 DEF Finish, EndPush, Unmarked
  <2>2. EnqueuedInOrder' /\ RowsAtWork'
    BY <2>1 DEF EnqueuedInOrder, RowsAtWork
  <2>3. OneRequest' /\ BatchContinues' /\ StoredPrefix'
    BY <2>1 DEF OneRequest, BatchContinues, StoredPrefix
  <2> QED
    BY <2>2, <2>3
<1> QED
  BY <1>1, <1>2, <1>3, <1>4, <1>5

(* The rows that are listed when nothing failed are pending, and the ones  *)
(* before them that are not listed are settled.                            *)
LEMMA PushKeepsOrder ==
    ASSUME TypeInv, Orderly, NEW retryOnly \in BOOLEAN, NEW force \in BOOLEAN,
           Push(retryOnly, force)
    PROVE  Orderly'
<1> USE DEF TypeInv, TypeOK, Orderly
<1> DEFINE listed == Listed(retryOnly, force)
           items == FirstOf(listed)
<1>1. phase = "recovered" /\ \A e \in Events : queue[e] # "pushing"
  BY DEF Push, RowsAtWork
<1>2. CASE items = {}
  <2>1. /\ phase' = "idle" /\ batch' = {}
        /\ UNCHANGED <<queue, request, store>>
    BY <1>2 DEF Push, EndPush
  <2> QED
    BY <1>1, <2>1
       DEF EnqueuedInOrder, OneRequest, RowsAtWork, BatchContinues, StoredPrefix
<1>3. CASE items # {}
  <2>1. PICK r \in Requests :
          /\ SetRows(items, "pushing", "waiting")
          /\ request' = [request EXCEPT ![r] =
                [running |-> TRUE, todo |-> items, answers |-> NoAnswers]]
          /\ phase' = "waiting" /\ current' = r /\ batch' = items
          /\ UNCHANGED <<answers, store>>
    BY <1>3 DEF Push
  <2>2. /\ listed \subseteq Events /\ items \subseteq listed
        /\ \A e \in items : queue[e] = "pending"
        /\ items # {} => ~retryOnly
    BY DEF Listed, FirstOf, RowsAtWork
  <2>3. \A e \in items, f \in Events : f < e /\ f \notin items => queue[f] \in Terminal
    <3> SUFFICES ASSUME NEW e \in items, NEW f \in Events, f < e, f \notin items
                 PROVE  queue[f] \in Terminal
      OBVIOUS
    <3>1. f \notin listed
      BY <2>2, FirstOfIsPrefix
    <3>2. queue[f] # "pending"
      BY <1>3, <2>2, <3>1 DEF Listed
    <3>3. queue[f] # "none"
      BY <2>2 DEF EnqueuedInOrder
    <3> QED
      BY <1>1, <3>2, <3>3 DEF RowsAtWork, RowStatuses
  <2> HIDE DEF listed, items
  <2>4. \A e \in Events : queue'[e] = IF e \in items THEN "pushing" ELSE queue[e]
    BY <2>1 DEF SetRows
  <2>5. /\ request'[r].running /\ request'[r].todo = items
        /\ \A q \in Requests \ {r} : request'[q] = request[q]
    BY <2>1
  <2>6. EnqueuedInOrder' /\ StoredPrefix'
    BY <2>1, <2>2, <2>4 DEF EnqueuedInOrder, StoredPrefix
  <2>7. OneRequest'
    BY <1>1, <2>1, <2>5 DEF OneRequest
  <2>8. RowsAtWork'
    BY <1>1, <2>1, <2>4 DEF RowsAtWork
  <2>9. BatchContinues'
    BY <2>1, <2>3, <2>4 DEF BatchContinues
  <2> QED
    BY <2>6, <2>7, <2>8, <2>9
<1> QED
  BY <1>2, <1>3

(* The next event of the only request is the first one not yet stored.     *)
LEMMA ServeKeepsOrder ==
    ASSUME TypeInv, AnswersTrue, Orderly, NEW r \in Requests, Serve(r)
    PROVE  Orderly'
<1> USE DEF TypeInv, Orderly
<1>1. PICK e \in Smallest(request[r].todo) :
         ServesAgain(r, e) \/ \E s \in Stored : ServesNew(r, e, s)
  BY DEF Serve, ServesNew, ServesAgain, Answers
<1>2. /\ request[r].running /\ phase = "waiting" /\ current = r
      /\ request[r].todo \subseteq batch
      /\ UNCHANGED <<queue, phase, current, batch, answers>>
  BY DEF Serve, OneRequest, deviceVars
<1>3. /\ e \in Events /\ e \in batch /\ e \in request[r].todo
      /\ \A f \in request[r].todo : e <= f
  BY <1>2 DEF Smallest, TypeOK
<1>4. \A f \in Events : f < e => store[f] # "absent"
  <2> SUFFICES ASSUME NEW f \in Events, f < e PROVE store[f] # "absent"
    OBVIOUS
  <2>1. f \notin request[r].todo
    BY <1>3 DEF Events
  <2>2. CASE f \in batch
    BY <1>2, <2>1, <2>2 DEF OneRequest
  <2>3. CASE f \notin batch
    BY <1>3, <2>3 DEF BatchContinues, AnswersTrue, True
  <2> QED
    BY <2>2, <2>3
<1>5. PICK answer \in Terminal :
         /\ Answers(r, e, answer)
         /\ store'[e] # "absent"
         /\ \A f \in Events \ {e} : store'[f] = store[f]
  <2>1. CASE ServesAgain(r, e)
    BY <2>1 DEF ServesAgain, Terminal
  <2>2. ASSUME NEW s \in Stored, ServesNew(r, e, s)
        PROVE  /\ Answers(r, e, IF s = "failed" THEN "rejected" ELSE s)
               /\ store'[e] # "absent"
               /\ \A f \in Events \ {e} : store'[f] = store[f]
    BY <1>3, <2>2 DEF ServesNew, Stored, TypeOK
  <2> QED
    BY <1>1, <2>1, <2>2, StoredAnswer
<1>6. /\ request'[r].answers = [request[r].answers EXCEPT ![e] = answer]
      /\ \A q \in Requests \ {r} : request'[q] = request[q]
  BY <1>3, <1>5, ServedRequest
<1>7. request'[r].running /\ request'[r].todo = request[r].todo \ {e}
  BY <1>2, <1>5 DEF Answers, TypeOK
<1>8. \A f \in Events : request'[r].answers[f] =
                           IF f = e THEN answer ELSE request[r].answers[f]
  BY <1>6 DEF TypeOK
<1>9. OneRequest'
  <2>1. \A q \in Requests : request'[q].running => phase' = "waiting" /\ current' = q
    BY <1>2, <1>6 DEF OneRequest
  <2>2. answer # "none" /\ batch \subseteq Events
    BY DEF Terminal, TypeOK
  <2>3. \A f \in batch \ request'[r].todo :
           request'[r].answers[f] # "none" /\ store'[f] # "absent"
    BY <1>2, <1>5, <1>7, <1>8, <2>2 DEF OneRequest
  <2> QED
    BY <1>2, <1>7, <2>1, <2>3 DEF OneRequest
<1>10. StoredPrefix'
  BY <1>3, <1>4, <1>5 DEF StoredPrefix, Events
<1>11. EnqueuedInOrder' /\ RowsAtWork' /\ BatchContinues'
  BY <1>2 DEF EnqueuedInOrder, RowsAtWork, BatchContinues
<1> QED
  BY <1>9, <1>10, <1>11

LEMMA RespondKeepsOrder ==
    ASSUME TypeInv, Orderly, NEW r \in Requests, Respond(r)
    PROVE  Orderly'
<1> USE DEF TypeInv, TypeOK, Orderly
<1>1. /\ phase = "waiting" /\ current = r /\ request[r].todo = {}
      /\ phase' = "marking" /\ answers' = request[r].answers
      /\ ~request'[r].running
      /\ \A q \in Requests \ {r} : request'[q] = request[q]
      /\ UNCHANGED <<queue, batch, store>>
  BY DEF Respond, FreeSlot
<1>2. \A e \in batch : answers'[e] # "none"
  BY <1>1 DEF OneRequest
<1>3. OneRequest' /\ RowsAtWork'
  BY <1>1, <1>2 DEF OneRequest, RowsAtWork
<1>4. EnqueuedInOrder' /\ BatchContinues' /\ StoredPrefix'
  BY <1>1 DEF EnqueuedInOrder, BatchContinues, StoredPrefix
<1> QED
  BY <1>3, <1>4

(* A fault ends the claim; without one no request is given up or unheard.  *)
LEMMA FaultsCount == ASSUME TypeInv, Fault PROVE faults' # 0
BY PushAssumption DEF Fault, TypeInv, TypeOK

LEMMA OrderStep == TypeInv /\ AnswersTrue /\ OrderInv /\ [Next]_vars => OrderInv'
<1> SUFFICES ASSUME TypeInv, AnswersTrue, OrderInv, [Next]_vars, faults' = 0 PROVE Orderly'
  BY DEF OrderInv
<1>1. ~ Fault
  BY FaultsCount
<1>2. ~ (Timeout \/ MarkingFails \/ Stop)
      /\ \A r \in Requests : ~ RefusePendingDeletion(r) /\ ~ Drop(r)
  BY <1>1 DEF Timeout, MarkingFails, Stop, RefusePendingDeletion, Drop
<1>3. faults = 0
  <2>1. \A e \in Events : Enqueue(e) \/ Tick(e) \/ Mark(e) => faults' = faults
    BY DEF Enqueue, Tick, Mark
  <2>2. \A retryOnly, force \in BOOLEAN : Push(retryOnly, force) => faults' = faults
    BY DEF Push
  <2>3. \A r \in Requests : Respond(r) \/ Serve(r) \/ Discard(r) => faults' = faults
    BY DEF Respond, Serve, Discard
  <2>4. RecoverStalePushing \/ Finish \/ NoAnswer \/ UNCHANGED vars => faults' = faults
    BY DEF RecoverStalePushing, Finish, NoAnswer, vars
  <2> QED
    BY <1>2, <2>1, <2>2, <2>3, <2>4 DEF Next
<1>4. Orderly
  BY <1>3 DEF OrderInv
<1>5. ~ NoAnswer /\ \A r \in Requests : ~ Discard(r)
  BY <1>4 DEF NoAnswer, Discard, Orderly, OneRequest
<1>6. CASE UNCHANGED vars
  BY <1>4, <1>6 DEF vars, Orderly, EnqueuedInOrder, OneRequest, RowsAtWork,
                    BatchContinues, StoredPrefix
<1> QED
  BY <1>2, <1>4, <1>5, <1>6, DeviceKeepsOrder, PushKeepsOrder, ServeKeepsOrder,
     RespondKeepsOrder DEF Next

(* Without a fault, events reach the server in the order of the queue:     *)
(* only a crash, a lost or failed request lets a later one overtake.       *)
THEOREM EventsAreStoredInOrder == Spec => []StoredInOrder
<1>1. Init => TypeInv /\ OrderInv
  BY InitTyped, OrderInit DEF OrderInv
<1>2. TypeInv /\ OrderInv => StoredInOrder
  BY PushAssumption DEF OrderInv, Orderly, StoredPrefix, StoredInOrder, TypeInv, TypeOK
<1> QED
  BY <1>1, <1>2, TypeStep, OrderStep, AnswersAlways, PTL DEF Spec

-----------------------------------------------------------------------------
(***************************************************************************)
(* Pull.  A run leaves no gap and the checkpoint only moves forward, for   *)
(* any history, page size, limits and failures.                            *)
(***************************************************************************)
PulledChange == [event : CompanyEvents, version : Nat, accepted : BOOLEAN]

PullTypeInv ==
    /\ version \in Nat
    /\ position \in [CompanyEvents -> Nat]
    /\ status \in [CompanyEvents -> {"none", "ACCEPTED", "CONFLICT", "hidden"}]
    /\ checkpoint \in Nat
    /\ applied \in [CompanyEvents -> Nat]
    /\ pullPhase \in {"idle", "pulling", "applying", "saving", "empty"}
    /\ start \in Nat /\ safe \in Nat
    /\ page \subseteq PulledChange

(* The history: positions are unique and none is beyond the version.       *)
HistoryInv ==
    /\ \A e \in CompanyEvents : position[e] <= version
    /\ \A e, f \in CompanyEvents : position[e] = position[f] /\ position[e] # 0 => e = f

(* The checkpoint of a run is what it has applied so far.                  *)
CheckpointInv ==
    /\ checkpoint <= version
    /\ safe <= version
    /\ pullPhase # "idle" => safe = checkpoint

(* What is left of a page lies beyond the checkpoint, and was the latest   *)
(* version of its event when the page was read.                            *)
PageInv ==
    /\ \A c \in page : /\ safe < c.version
                       /\ c.version <= position[c.event]
    /\ \A c, d \in page : c.version = d.version => c = d
    /\ pullPhase \notin {"applying", "saving"} => page = {}

(* A page has every visible change up to its last one.                     *)
InPage(e) ==
    \E d \in page : /\ d.event = e /\ d.version = position[e]
                    /\ d.accepted <=> status[e] = "ACCEPTED"

PageComplete ==
    \A c \in page : \A e \in Visible(safe) :
        position[e] <= c.version => InPage(e)

(* The change about to be saved has been applied.                          *)
FirstApplied ==
    pullPhase = "saving" =>
        \A c \in page : First(c) /\ c.accepted => applied[c.event] = c.version

(* Between the start of the run and its checkpoint there is no gap.        *)
NoGap ==
    \A e \in CompanyEvents :
        status[e] = "ACCEPTED" /\ start < position[e] /\ position[e] <= safe
            => applied[e] = position[e]

PullInv ==
    /\ PullTypeInv /\ HistoryInv /\ CheckpointInv
    /\ PageInv /\ PageComplete /\ FirstApplied /\ NoGap

-----------------------------------------------------------------------------
(* The page the server returns.                                            *)

(* When a visible event is in the page, so is every one before it.         *)
LEMMA PageIsPrefix ==
    ASSUME PullTypeInv, NEW since, NEW e \in Visible(since), NEW f \in PageAfter(since),
           position[e] <= position[f]
    PROVE  e \in PageAfter(since)
<1> DEFINE Below(g) == {h \in Visible(since) : position[h] < position[g]}
<1>1. /\ Visible(since) \subseteq CompanyEvents
      /\ f \in Visible(since) /\ Cardinality(Below(f)) < PageLimit
  BY DEF Visible, PageAfter
<1>2. Below(e) \subseteq Below(f)
  BY <1>1 DEF PullTypeInv
<1>3. IsFiniteSet(Below(f))
  <2>1. Below(f) \subseteq CompanyEvents
    BY <1>1
  <2> HIDE DEF Below
  <2> QED
    BY <2>1, FS_Subset, PullAssumption
<1>4. Cardinality(Below(e)) <= Cardinality(Below(f)) /\ IsFiniteSet(Below(e))
  <2> HIDE DEF Below
  <2> QED
    BY <1>2, <1>3, FS_Subset
<1>5. Cardinality(Below(e)) \in Nat /\ Cardinality(Below(f)) \in Nat
  <2> HIDE DEF Below
  <2> QED
    BY <1>3, <1>4, FS_CardinalityType
<1>6. Cardinality(Below(e)) < PageLimit
  <2>1. PageLimit \in Nat
    BY PullAssumption
  <2> HIDE DEF Below
  <2> QED
    BY <1>1, <1>4, <1>5, <2>1
<1> QED
  BY <1>6 DEF PageAfter

-----------------------------------------------------------------------------

LEMMA PullStarts == ASSUME PullInit PROVE PullInv
BY DEF PullInit, PullInv, PullTypeInv, HistoryInv, CheckpointInv, PageInv, PageComplete,
       FirstApplied, NoGap

LEMMA EndRunHolds ==
    ASSUME PullInv, EndRun, UNCHANGED <<serverVars, applied>>,
           checkpoint' \in Nat, checkpoint' <= version
    PROVE  PullInv'
<1>1. /\ pullPhase' = "idle" /\ start' = 0 /\ safe' = 0 /\ page' = {}
      /\ version' = version /\ position' = position /\ status' = status
  BY DEF EndRun, serverVars
<1>2. PullTypeInv' /\ HistoryInv'
  BY <1>1 DEF PullInv, PullTypeInv, HistoryInv
<1>3. CheckpointInv'
  BY <1>1 DEF PullInv, PullTypeInv, CheckpointInv
<1>4. PageInv' /\ PageComplete' /\ FirstApplied'
  BY <1>1 DEF PageInv, PageComplete, FirstApplied
<1>5. NoGap'
  BY <1>1 DEF PullInv, PullTypeInv, NoGap
<1> QED
  BY <1>2, <1>3, <1>4, <1>5 DEF PullInv

(* A commit puts its event beyond everything a run has seen.               *)
LEMMA CommitHolds ==
    ASSUME PullInv, NEW e \in CompanyEvents, NEW s \in {"ACCEPTED", "CONFLICT"}, Commit(e, s)
    PROVE  PullInv'
<1> USE DEF PullInv
<1>1. /\ version' = version + 1
      /\ \A f \in CompanyEvents : position'[f] = IF f = e THEN version + 1 ELSE position[f]
      /\ \A f \in CompanyEvents : status'[f] = IF f = e THEN s ELSE status[f]
      /\ checkpoint' = checkpoint /\ applied' = applied
      /\ pullPhase' = pullPhase /\ start' = start /\ safe' = safe /\ page' = page
  BY DEF Commit, runVars, PullTypeInv
<1>2. PullTypeInv'
  BY <1>1 DEF Commit, PullTypeInv
<1>3. HistoryInv' /\ CheckpointInv'
  BY <1>1 DEF PullTypeInv, HistoryInv, CheckpointInv
<1>4. \A f \in CompanyEvents \ {e} : position'[f] = position[f] /\ status'[f] = status[f]
  BY <1>1
<1>5. \A c \in page : c.version \in Nat /\ c.version <= version /\ c.event \in CompanyEvents
  BY DEF PullTypeInv, PulledChange, PageInv, HistoryInv
<1>6. PageInv'
  BY <1>1, <1>5 DEF PageInv, PullTypeInv
<1>7. PageComplete'
  <2> SUFFICES ASSUME NEW c \in page, NEW f \in Visible(safe)', position'[f] <= c.version
               PROVE  InPage(f)'
    BY <1>1 DEF PageComplete
  <2>1. f \in CompanyEvents \ {e}
    BY <1>1, <1>5 DEF Visible, PullTypeInv
  <2>2. f \in Visible(safe)
    BY <1>1, <1>4, <2>1 DEF Visible
  <2>3. InPage(f)
    BY <1>4, <2>1, <2>2 DEF PageComplete
  <2> QED
    BY <1>1, <1>4, <2>1, <2>3 DEF InPage
<1>8. FirstApplied'
  BY <1>1 DEF FirstApplied, First
<1>9. NoGap'
  <2> SUFFICES ASSUME NEW f \in CompanyEvents, status'[f] = "ACCEPTED",
                      start < position'[f], position'[f] <= safe
               PROVE  applied[f] = position'[f]
    BY <1>1 DEF NoGap
  <2>1. f # e
    BY <1>1 DEF CheckpointInv, PullTypeInv
  <2> QED
    BY <1>4, <2>1 DEF NoGap
<1> QED
  BY <1>2, <1>3, <1>6, <1>7, <1>8, <1>9

LEMMA HideHolds ==
    ASSUME PullInv, NEW e \in CompanyEvents, Hide(e)
    PROVE  PullInv'
<1> USE DEF PullInv
<1>1. /\ UNCHANGED <<version, position, checkpoint, applied>>
      /\ pullPhase' = pullPhase /\ start' = start /\ safe' = safe /\ page' = page
      /\ status' = [status EXCEPT ![e] = "hidden"]
  BY DEF Hide, runVars
<1>2. \A f \in CompanyEvents : status'[f] = IF f = e THEN "hidden" ELSE status[f]
  BY <1>1 DEF PullTypeInv
<1>3. PullTypeInv' /\ HistoryInv' /\ CheckpointInv' /\ PageInv' /\ FirstApplied'
  BY <1>1 DEF PullTypeInv, HistoryInv, CheckpointInv, PageInv, FirstApplied, First
<1>4. PageComplete'
  <2> SUFFICES ASSUME NEW c \in page, NEW f \in Visible(safe)', position[f] <= c.version
               PROVE  InPage(f)'
    BY <1>1 DEF PageComplete
  <2>1. f \in CompanyEvents /\ f # e
    BY <1>2 DEF Visible
  <2>2. f \in Visible(safe)
    BY <1>1, <1>2, <2>1 DEF Visible
  <2> QED
    BY <1>1, <1>2, <2>1, <2>2 DEF PageComplete, InPage
<1>5. NoGap'
  BY <1>1, <1>2 DEF NoGap
<1> QED
  BY <1>3, <1>4, <1>5

LEMMA PullPageHolds == ASSUME PullInv, PullPage PROVE PullInv'
<1> USE DEF PullInv
<1> DEFINE events == PageAfter(safe)
<1>1. UNCHANGED <<version, position, status, checkpoint, applied>>
  BY DEF PullPage, serverVars
<1>2. CASE events = {} /\ pages # 0
  BY <1>1, <1>2, EndRunHolds DEF PullPage, CheckpointInv, PullTypeInv, serverVars
<1>3. CASE events = {} /\ pages = 0
  <2>1. pullPhase = "pulling" /\ pullPhase' = "empty" /\ UNCHANGED <<start, safe, page>>
    BY <1>3 DEF PullPage
  <2> QED
    BY <1>1, <2>1 DEF PullTypeInv, HistoryInv, CheckpointInv, PageInv, PageComplete,
                      FirstApplied, NoGap
<1>4. CASE events # {}
  <2>1. /\ pullPhase = "pulling" /\ pullPhase' = "applying" /\ UNCHANGED <<start, safe>>
        /\ page' = {[event |-> e, version |-> position[e],
                     accepted |-> status[e] = "ACCEPTED"] : e \in events}
    BY <1>4 DEF PullPage
  <2>2. events \subseteq Visible(safe) /\ Visible(safe) \subseteq CompanyEvents
    BY DEF PageAfter, Visible
  <2>3. ASSUME NEW c \in page'
        PROVE  /\ c.event \in events /\ c.version = position[c.event]
               /\ c.accepted <=> status[c.event] = "ACCEPTED"
               /\ c = [event |-> c.event, version |-> position[c.event],
                       accepted |-> status[c.event] = "ACCEPTED"]
               /\ c \in PulledChange
    <3>1. PICK e \in events :
             c = [event |-> e, version |-> position[e],
                  accepted |-> status[e] = "ACCEPTED"]
      BY <2>1
    <3>2. /\ c.event = e /\ c.version = position[e]
          /\ c.accepted <=> status[e] = "ACCEPTED"
      BY <3>1, Zenon
    <3>3. e \in CompanyEvents /\ position[e] \in Nat /\ (status[e] = "ACCEPTED") \in BOOLEAN
      BY <2>2 DEF PullTypeInv
    <3>4. c \in PulledChange
      BY <3>1, <3>3, Zenon DEF PulledChange
    <3> QED
      BY <3>1, <3>2, <3>4
  <2>4. PullTypeInv'
    BY <1>1, <2>1, <2>3 DEF PullTypeInv
  <2>5. HistoryInv' /\ CheckpointInv' /\ NoGap' /\ FirstApplied'
    BY <1>1, <2>1 DEF HistoryInv, CheckpointInv, NoGap, FirstApplied
  <2>6. PageInv'
    <3>1. ASSUME NEW c \in page' PROVE safe < c.version /\ c.version <= position[c.event]
      BY <2>2, <2>3 DEF Visible, PullTypeInv
    <3>2. ASSUME NEW c \in page', NEW d \in page', c.version = d.version
          PROVE  c = d
      <4>1. /\ c.event \in CompanyEvents /\ d.event \in CompanyEvents
            /\ position[c.event] = position[d.event] /\ position[c.event] # 0
        BY <2>2, <2>3, <3>1, <3>2 DEF PullTypeInv
      <4>2. c.event = d.event
        BY <4>1 DEF HistoryInv
      <4> QED
        BY <2>3, <4>2
    <3> QED
      BY <1>1, <2>1, <3>1, <3>2 DEF PageInv
  <2>7. PageComplete'
    <3> SUFFICES ASSUME NEW c \in page', NEW e \in Visible(safe), position[e] <= c.version
                 PROVE  InPage(e)'
      BY <1>1, <2>1 DEF PageComplete, Visible
    <3>1. e \in events
      BY <2>3, PageIsPrefix
    <3>2. [event |-> e, version |-> position[e],
           accepted |-> status[e] = "ACCEPTED"] \in page'
      BY <2>1, <3>1
    <3> QED
      BY <1>1, <3>2 DEF InPage
  <2> QED
    BY <2>4, <2>5, <2>6, <2>7
<1> QED
  BY <1>2, <1>3, <1>4

LEMMA ApplyChangeHolds ==
    ASSUME PullInv, NEW c \in page, ApplyChange(c)
    PROVE  PullInv'
<1> USE DEF PullInv
<1>1. /\ UNCHANGED <<version, position, status, checkpoint, start, safe, page>>
      /\ pullPhase = "applying" /\ pullPhase' = "saving" /\ First(c)
      /\ applied' = IF c.accepted THEN [applied EXCEPT ![c.event] = c.version]
                    ELSE applied
  BY DEF ApplyChange, serverVars
<1>2. c \in PulledChange
  BY DEF PullTypeInv
<1>3. PullTypeInv'
  BY <1>1, <1>2 DEF PullTypeInv, PulledChange
<1>4. HistoryInv' /\ CheckpointInv' /\ PageInv'
  BY <1>1 DEF HistoryInv, CheckpointInv, PageInv
<1>5. PageComplete'
  BY <1>1 DEF PageComplete, Visible, InPage
<1>6. FirstApplied'
  <2> SUFFICES ASSUME NEW d \in page, First(d), d.accepted
               PROVE  applied'[d.event] = d.version
    BY <1>1 DEF FirstApplied, First
  <2>1. d.version <= c.version /\ c.version <= d.version /\ d \in PulledChange
    BY <1>1 DEF First, PullTypeInv
  <2>2. d = c
    BY <1>2, <2>1 DEF PageInv, PulledChange
  <2> QED
    BY <1>1, <1>2, <2>2 DEF PullTypeInv, PulledChange
<1>7. NoGap'
  <2> SUFFICES ASSUME NEW e \in CompanyEvents, status[e] = "ACCEPTED",
                      start < position[e], position[e] <= safe
               PROVE  applied'[e] = position[e]
    BY <1>1 DEF NoGap
  <2>1. safe < c.version /\ c.version <= position[c.event]
    BY DEF PageInv
  <2>2. e # c.event
    BY <1>2, <2>1 DEF PullTypeInv, PulledChange
  <2> QED
    BY <1>1, <1>2, <2>2 DEF NoGap, PullTypeInv, PulledChange
<1> QED
  BY <1>3, <1>4, <1>5, <1>6, <1>7

LEMMA SaveCheckpointHolds ==
    ASSUME PullInv, NEW c \in page, SaveCheckpoint(c)
    PROVE  PullInv'
<1> USE DEF PullInv
<1>1. /\ UNCHANGED <<version, position, status, applied, start>>
      /\ pullPhase = "saving" /\ pullPhase' = "applying" /\ First(c)
      /\ checkpoint' = c.version /\ safe' = c.version /\ page' = page \ {c}
  BY DEF SaveCheckpoint, serverVars
<1>2. /\ c.event \in CompanyEvents /\ c.version \in Nat
      /\ safe < c.version /\ c.version <= position[c.event]
  BY DEF PullTypeInv, PulledChange, PageInv
<1>3. PullTypeInv' /\ HistoryInv' /\ CheckpointInv'
  <2>1. PullTypeInv' /\ HistoryInv'
    BY <1>1, <1>2 DEF PullTypeInv, HistoryInv
  <2>2. c.version <= version
    BY <1>2 DEF PullTypeInv, HistoryInv
  <2> QED
    BY <1>1, <2>1, <2>2 DEF CheckpointInv
<1>4. \A d \in page \ {c} : c.version < d.version /\ d.version \in Nat
  <2> SUFFICES ASSUME NEW d \in page \ {c} PROVE c.version < d.version /\ d.version \in Nat
    OBVIOUS
  <2>1. c.version <= d.version /\ d.version \in Nat /\ c.version # d.version
    BY <1>1 DEF First, PageInv, PullTypeInv, PulledChange
  <2> QED
    BY <1>2, <2>1
<1>5. PageInv' /\ FirstApplied'
  BY <1>1, <1>4 DEF PageInv, FirstApplied
<1>6. PageComplete'
  <2> SUFFICES ASSUME NEW d \in page \ {c}, NEW e \in Visible(safe)', position[e] <= d.version
               PROVE  InPage(e)'
    BY <1>1 DEF PageComplete
  <2>1. e \in CompanyEvents /\ c.version < position[e] /\ e \in Visible(safe)
    BY <1>1, <1>2 DEF Visible, PullTypeInv
  <2>2. InPage(e)
    BY <2>1 DEF PageComplete
  <2> QED
    BY <1>1, <1>2, <2>1, <2>2 DEF InPage, PullTypeInv
<1>7. NoGap'
  <2> SUFFICES ASSUME NEW e \in CompanyEvents, status[e] = "ACCEPTED",
                      start < position[e], position[e] <= c.version
               PROVE  applied[e] = position[e]
    BY <1>1 DEF NoGap
  <2>1. CASE position[e] <= safe
    BY <2>1 DEF NoGap
  <2>2. CASE ~ (position[e] <= safe)
    <3>1. e \in Visible(safe)
      BY <2>2 DEF Visible, PullTypeInv
    <3>2. PICK d \in page : /\ d.event = e /\ d.version = position[e]
                            /\ d.accepted <=> status[e] = "ACCEPTED"
      BY <3>1 DEF PageComplete, InPage
    <3>3. d = c
      BY <1>4, <1>2, <3>2 DEF PullTypeInv
    <3> QED
      BY <1>1, <3>2, <3>3 DEF FirstApplied
  <2> QED
    BY <2>1, <2>2
<1> QED
  BY <1>3, <1>5, <1>6, <1>7

LEMMA PullStep == PullInv /\ [PullNext]_pullVars => PullInv'
<1> SUFFICES ASSUME PullInv, [PullNext]_pullVars PROVE PullInv'
  OBVIOUS
<1> USE DEF PullInv
<1>1. CASE StartPull
  <2>1. /\ UNCHANGED <<version, position, status, checkpoint, applied, page>>
        /\ pullPhase = "idle" /\ pullPhase' = "pulling"
        /\ start' = checkpoint /\ safe' = checkpoint
    BY <1>1 DEF StartPull, serverVars
  <2>2. PullTypeInv' /\ HistoryInv' /\ CheckpointInv'
    BY <2>1 DEF PullTypeInv, HistoryInv, CheckpointInv
  <2>3. PageInv' /\ PageComplete' /\ FirstApplied'
    BY <2>1 DEF PageInv, PageComplete, FirstApplied
  <2>4. NoGap'
    BY <2>1 DEF NoGap, PullTypeInv
  <2> QED
    BY <2>2, <2>3, <2>4
<1>2. CASE StopAtLimit \/ Fail
  BY <1>2, EndRunHolds DEF StopAtLimit, Fail, CheckpointInv, PullTypeInv
<1>3. CASE EndPage
  <2>1. CASE page = {} /\ hasMore
    <3>1. /\ pullPhase = "applying" /\ pullPhase' = "pulling"
          /\ UNCHANGED <<version, position, status, checkpoint, applied, start, safe, page>>
      BY <1>3, <2>1 DEF EndPage, serverVars
    <3> QED
      BY <2>1, <3>1 DEF PullTypeInv, HistoryInv, CheckpointInv, PageInv, PageComplete,
                        FirstApplied, NoGap
  <2>2. CASE ~ (page = {} /\ hasMore)
    BY <1>3, <2>2, EndRunHolds DEF EndPage, CheckpointInv, PullTypeInv
  <2> QED
    BY <2>1, <2>2
<1>4. CASE FastForward
  BY <1>4, EndRunHolds DEF FastForward, CheckpointInv, PullTypeInv
<1>5. CASE UNCHANGED pullVars
  <2>1. UNCHANGED <<version, position, status, checkpoint, applied, pullPhase, start, safe, page>>
    BY <1>5 DEF pullVars, serverVars, runVars
  <2> QED
    BY <2>1 DEF PullTypeInv, HistoryInv, CheckpointInv, PageInv, PageComplete, Visible,
                InPage, FirstApplied, First, NoGap
<1> QED
  BY <1>1, <1>2, <1>3, <1>4, <1>5, CommitHolds, HideHolds, PullPageHolds,
     ApplyChangeHolds, SaveCheckpointHolds DEF PullNext, Pull

(* The inductive invariant of a run of pull.                               *)
THEOREM PullInvariant == PullSpec => []PullInv
<1>1. PullInit => PullInv
  BY PullStarts
<1> QED
  BY <1>1, PullStep, PTL DEF PullSpec

\* Of finitely many, one is highest: nothing is above it when the set of what is above it
\* is smallest.
LEMMA HighestExists ==
    ASSUME NEW T, IsFiniteSet(T), T # {}, NEW p, \A e \in T : p[e] \in Nat
    PROVE  \E m \in T : \A e \in T : p[e] <= p[m]
<1> DEFINE Above(e) == {f \in T : p[f] > p[e]}
           R == StrictSubsetOrdering(T)
           G == {Above(e) : e \in T}
<1>1. IsWellFoundedOn(R, SUBSET T)
  BY FS_StrictSubsetOrderingWellFounded, FS_FiniteSubsetsOfFinite
<1>2. G \subseteq SUBSET T /\ G # {}
  OBVIOUS
<1>3. PICK A \in G : \A B \in G : <<B, A>> \notin R
  <2> HIDE DEF R, G
  <2> QED
    BY <1>1, <1>2, WFMin
<1>4. PICK m \in T : A = Above(m)
  OBVIOUS
<1>5. ASSUME NEW e \in T, ~(p[e] <= p[m]) PROVE FALSE
  <2>1. p[e] > p[m]
    BY <1>5
  <2>2. Above(e) \subseteq Above(m) /\ e \in Above(m) /\ e \notin Above(e)
    BY <2>1
  <2>3. Above(e) \in G /\ Above(e) \subseteq T /\ A \subseteq T
    BY <1>4
  <2>4. <<Above(e), A>> \in R
    <3>1. PICK B : B = Above(e)
      OBVIOUS
    <3>2. B \in SUBSET T /\ A \in SUBSET T /\ B \subseteq A /\ B # A
      BY <1>4, <2>2, <2>3, <3>1
    <3> HIDE DEF Above
    <3>3. <<B, A>> \in R
      BY ONLY <3>2 DEF StrictSubsetOrdering
    <3> QED
      BY <3>1, <3>3
  <2> QED
    BY <1>3, <2>3, <2>4
<1> QED
  BY <1>5

\* A page has no more events than its limit: all but the highest one are below it.
LEMMA PageWithinLimit ==
    ASSUME PullTypeInv, HistoryInv, NEW since \in Nat
    PROVE  /\ IsFiniteSet(PageAfter(since))
           /\ Cardinality(PageAfter(since)) <= PageLimit
<1> DEFINE T == PageAfter(since)
           Below(e) == {f \in Visible(since) : position[f] < position[e]}
<1>1. /\ \A e \in T : e \in Visible(since) /\ Cardinality(Below(e)) < PageLimit
      /\ \A e \in Visible(since) : e \in CompanyEvents /\ position[e] > since
  BY DEF PageAfter, Visible
<1>2. IsFiniteSet(T) /\ PageLimit \in Nat
  <2>1. T \in SUBSET CompanyEvents
    BY <1>1
  <2> HIDE DEF T
  <2> QED
    BY <2>1, FS_Subset, PullAssumption
<1>3. CASE T = {}
  BY <1>2, <1>3, FS_EmptySet
<1>4. CASE T # {}
  <2>1. \A e \in T : position[e] \in Nat /\ e \in CompanyEvents
    BY <1>1 DEF PullTypeInv
  <2>2. PICK m \in T : \A e \in T : position[e] <= position[m]
    <3> HIDE DEF T
    <3> QED
      BY <1>2, <1>4, <2>1, HighestExists
  <2>3. ASSUME NEW e \in T \ {m} PROVE e \in Below(m)
    <3>1. e \in Visible(since) /\ position[e] <= position[m] /\ position[e] # 0
      <4>1. e \in T
        BY <2>3
      <4> HIDE DEF T, Below
      <4>2. e \in Visible(since) /\ position[e] > since /\ position[e] \in Nat
        BY <1>1, <2>1, <4>1
      <4> QED
        BY <2>2, <4>1, <4>2
    <3>2. position[e] # position[m]
      BY <2>1, <3>1 DEF HistoryInv
    <3> QED
      BY <2>1, <3>1, <3>2
  <2>4. IsFiniteSet(Below(m))
    <3>1. Below(m) \in SUBSET CompanyEvents
      BY <1>1
    <3> HIDE DEF Below
    <3> QED
      BY <3>1, FS_Subset, PullAssumption
  <2>5. Cardinality(Below(m)) < PageLimit
    BY <1>1
  <2> HIDE DEF T, Below
  <2>6. PICK U : U = T \ {m}
    OBVIOUS
  <2>7. U \in SUBSET Below(m)
    BY <2>3, <2>6
  <2>8. Cardinality(U) <= Cardinality(Below(m)) /\ IsFiniteSet(U)
    BY <2>4, <2>7, FS_Subset
  <2>9. Cardinality(U) = Cardinality(T) - 1
    BY <1>2, <2>6, FS_RemoveElement
  <2>10. /\ Cardinality(T) \in Nat /\ Cardinality(U) \in Nat
         /\ Cardinality(Below(m)) \in Nat
    BY <1>2, <2>4, <2>8, FS_CardinalityType
  <2> QED
    BY ONLY <1>2, <2>5, <2>8, <2>9, <2>10 DEF T
<1> QED
  BY <1>2, <1>3, <1>4

\* The page stays within its limit since it is finite.
PullTyped == PullTypeOK /\ IsFiniteSet(page)

\* The end of a run empties the page.
LEMMA EndRunTyped ==
    ASSUME PullTyped, EndRun, UNCHANGED <<serverVars, applied>>,
           checkpoint' \in 0..MaxVersion, pullFaults' \in 0..MaxPullFaults
    PROVE  PullTyped'
<1>1. 0 \in 0..MaxVersion /\ 0 \in 0..MaxPages /\ 0 \in 0..MaxChanges
  BY PullAssumption
<1>2. Cardinality({}) <= PageLimit /\ IsFiniteSet({})
  BY PullAssumption, FS_EmptySet
<1>3. /\ pullPhase' = "idle" /\ start' = 0 /\ safe' = 0 /\ page' = {} /\ hasMore' = FALSE
      /\ pages' = 0 /\ changes' = 0
      /\ UNCHANGED <<version, position, status, applied>>
  BY DEF EndRun, serverVars
<1> QED
  BY <1>1, <1>2, <1>3 DEF PullTyped, PullTypeOK

\* A page that is read has at most as many changes as events.
LEMMA PullPageTyped == ASSUME PullInv, PullTyped, PullPage PROVE PullTyped'
<1> DEFINE events == PageAfter(safe)
           f == [e \in events |-> [event |-> e, version |-> position[e],
                                   accepted |-> status[e] = "ACCEPTED"]]
<1>1. /\ pullPhase = "pulling" /\ ~LimitReached
      /\ UNCHANGED <<version, position, status, checkpoint, applied, pullFaults>>
  BY DEF PullPage, serverVars
<1>2. CASE events = {} /\ pages # 0
  BY <1>1, <1>2, EndRunTyped DEF PullPage, PullTyped, PullTypeOK, serverVars
<1>3. CASE events = {} /\ pages = 0
  BY <1>1, <1>3 DEF PullPage, PullTyped, PullTypeOK
<1>4. CASE events # {}
  <2>1. /\ pullPhase' = "applying" /\ pages' = pages + 1 /\ hasMore' \in BOOLEAN
        /\ page' = {[event |-> e, version |-> position[e],
                     accepted |-> status[e] = "ACCEPTED"] : e \in events}
        /\ UNCHANGED <<start, safe, changes>>
    BY <1>4 DEF PullPage
  <2>2. pages' \in 0..MaxPages
    BY <1>1, <2>1, PullAssumption DEF LimitReached, PullTyped, PullTypeOK
  <2>3. \A e \in events : e \in CompanyEvents /\ position[e] > safe
    BY DEF PageAfter, Visible
  <2>4. f \in Surjection(events, page')
    BY <2>1 DEF Surjection
  <2>5. IsFiniteSet(events) /\ Cardinality(events) <= PageLimit
    BY PageWithinLimit DEF PullInv, PullTypeInv
  <2>6. Cardinality(page') <= Cardinality(events) /\ IsFiniteSet(page')
    <3> HIDE DEF events, f
    <3>1. PICK P : P = page'
      OBVIOUS
    <3>2. f \in Surjection(events, P) /\ IsFiniteSet(events)
      BY <2>4, <2>5, <3>1
    <3>3. Cardinality(P) <= Cardinality(events) /\ IsFiniteSet(P)
      BY ONLY <3>2, FS_Surjection
    <3> QED
      BY <3>1, <3>3
  <2>7. Cardinality(page') <= PageLimit
    <3>1. Cardinality(page') \in Nat /\ Cardinality(events) \in Nat /\ PageLimit \in Nat
      BY <2>5, <2>6, FS_CardinalityType, PullAssumption
    <3> QED
      BY ONLY <2>5, <2>6, <3>1
  <2>8. ASSUME NEW c \in page' PROVE c \in Changes
    <3>1. PICK e \in events : c = [event |-> e, version |-> position[e],
                                   accepted |-> status[e] = "ACCEPTED"]
      BY <2>1
    <3>2. position[e] \in 0..MaxVersion /\ safe \in 0..MaxVersion
      BY <2>3 DEF PullTyped, PullTypeOK
    <3>3. position[e] \in 1..MaxVersion
      BY <2>3, <3>2, PullAssumption
    <3>4. e \in CompanyEvents /\ (status[e] = "ACCEPTED") \in BOOLEAN
      BY <2>3
    <3> QED
      BY <3>1, <3>3, <3>4, Zenon DEF Changes
  <2> HIDE DEF events, f
  <2> QED
    BY <1>1, <2>1, <2>2, <2>6, <2>7, <2>8 DEF PullTyped, PullTypeOK
<1> QED
  BY <1>2, <1>3, <1>4

LEMMA PullTypeStep ==
    ASSUME PullInv, PullTyped, [PullNext]_pullVars PROVE PullTyped'
<1>1. ASSUME NEW e \in CompanyEvents, Hide(e) PROVE PullTyped'
  BY <1>1 DEF Hide, PullTyped, PullTypeOK, runVars
<1>2. ASSUME NEW e \in CompanyEvents, NEW s \in {"ACCEPTED", "CONFLICT"}, Commit(e, s)
      PROVE  PullTyped'
  <2>1. version + 1 \in 0..MaxVersion
    BY <1>2, PullAssumption DEF Commit, PullTyped, PullTypeOK
  <2>2. /\ version' = version + 1 /\ position' = [position EXCEPT ![e] = version + 1]
        /\ status' = [status EXCEPT ![e] = s]
        /\ UNCHANGED <<checkpoint, applied, pullPhase, start, safe, page, hasMore, pages,
                       changes, pullFaults>>
    BY <1>2 DEF Commit, runVars
  <2>3. position' \in [CompanyEvents -> 0..MaxVersion]
    BY <2>1, <2>2 DEF PullTyped, PullTypeOK
  <2>4. status' \in [CompanyEvents -> {"none", "ACCEPTED", "CONFLICT", "hidden"}]
    BY <2>2 DEF PullTyped, PullTypeOK
  <2> QED
    BY <2>1, <2>2, <2>3, <2>4 DEF PullTyped, PullTypeOK
<1>3. CASE StartPull
  BY <1>3 DEF StartPull, PullTyped, PullTypeOK, serverVars
<1>4. CASE StopAtLimit
  BY <1>4, EndRunTyped DEF StopAtLimit, PullTyped, PullTypeOK
<1>5. CASE PullPage
  BY <1>5, PullPageTyped
<1>6. CASE EndPage
  <2>1. CASE page = {} /\ hasMore
    BY <1>6, <2>1 DEF EndPage, PullTyped, PullTypeOK, serverVars
  <2>2. CASE ~(page = {} /\ hasMore)
    BY <1>6, <2>2, EndRunTyped DEF EndPage, PullTyped, PullTypeOK
  <2> QED
    BY <2>1, <2>2
<1>7. CASE FastForward
  BY <1>7, EndRunTyped DEF FastForward, PullTyped, PullTypeOK
<1>8. ASSUME NEW c \in page, ApplyChange(c) PROVE PullTyped'
  <2>1. c.event \in CompanyEvents /\ c.version \in 0..MaxVersion
    BY DEF PullTyped, PullTypeOK, Changes
  <2>2. changes' \in 0..MaxChanges
    BY <1>8, PullAssumption DEF ApplyChange, PullTyped, PullTypeOK
  <2>3. applied' \in [CompanyEvents -> 0..MaxVersion]
    BY <1>8, <2>1 DEF ApplyChange, PullTyped, PullTypeOK
  <2> QED
    BY <1>8, <2>2, <2>3 DEF ApplyChange, PullTyped, PullTypeOK, serverVars
<1>9. ASSUME NEW c \in page, SaveCheckpoint(c) PROVE PullTyped'
  <2>1. c.version \in 0..MaxVersion
    BY DEF PullTyped, PullTypeOK, Changes
  <2>2. IsFiniteSet(page) /\ Cardinality(page) <= PageLimit /\ PageLimit \in Nat
    BY PullAssumption DEF PullTyped, PullTypeOK
  <2>3. PICK P : P = page \ {c}
    OBVIOUS
  <2>4. P \in SUBSET page
    BY <2>3
  <2>5. IsFiniteSet(P) /\ Cardinality(P) <= Cardinality(page)
    BY ONLY <2>2, <2>4, FS_Subset
  <2>6. Cardinality(P) <= PageLimit
    <3>1. Cardinality(P) \in Nat /\ Cardinality(page) \in Nat
      BY ONLY <2>2, <2>5, FS_CardinalityType
    <3> QED
      BY ONLY <2>2, <2>5, <3>1
  <2>7. /\ page' = P /\ pullPhase' = "applying" /\ checkpoint' = c.version /\ safe' = c.version
        /\ UNCHANGED <<version, position, status, applied, start, hasMore, pages, changes,
                       pullFaults>>
    BY <1>9, <2>3 DEF SaveCheckpoint, serverVars
  <2> QED
    BY <2>1, <2>4, <2>5, <2>6, <2>7 DEF PullTyped, PullTypeOK
<1>10. CASE Fail
  <2>1. pullFaults' \in 0..MaxPullFaults
    BY <1>10, PullAssumption DEF Fail, PullTyped, PullTypeOK
  <2> QED
    BY <1>10, <2>1, EndRunTyped DEF Fail, PullTyped, PullTypeOK
<1>11. CASE UNCHANGED pullVars
  BY <1>11 DEF pullVars, serverVars, runVars, PullTyped, PullTypeOK
<1> QED
  BY <1>1, <1>2, <1>3, <1>4, <1>5, <1>6, <1>7, <1>8, <1>9, <1>10, <1>11 DEF PullNext, Pull

\* A page never has more changes than its limit, and no run counts beyond its limits, for any
\* history (_pullOperationalPages, _applyPulledChanges).
THEOREM PullTypeCorrect == PullSpec => []PullTypeOK
<1>1. PullInit => PullTyped
  <2> SUFFICES ASSUME PullInit PROVE PullTyped
    OBVIOUS
  <2>1. /\ 0 \in 0..MaxVersion /\ 0 \in 0..MaxPages /\ 0 \in 0..MaxChanges
        /\ 0 \in 0..MaxPullFaults
    BY PullAssumption
  <2>2. IsFiniteSet({}) /\ Cardinality({}) <= PageLimit
    BY PullAssumption, FS_EmptySet
  <2> QED
    BY <2>1, <2>2 DEF PullInit, PullTyped, PullTypeOK
<1>2. PullInv /\ PullTyped /\ [PullNext]_pullVars => PullTyped'
  BY PullTypeStep
<1>3. PullTyped => PullTypeOK
  BY DEF PullTyped
<1> QED
  BY <1>1, <1>2, <1>3, PullInvariant, PTL DEF PullSpec

(* Neither the order of a page, its limit, nor commits and reprocessing    *)
(* between two pages leave a gap in what a run has read.                   *)
THEOREM RunsLeaveNoGap == PullSpec => []NoGapWithinRun
<1>1. PullInv => NoGapWithinRun
  BY DEF PullInv, NoGap, NoGapWithinRun
<1> QED
  BY PullInvariant, <1>1, PTL

(* Whatever page, limit or failure a run ends with, its checkpoint never   *)
(* moves back, nor beyond the version of the company.                      *)
THEOREM CheckpointsAdvance == PullSpec => CheckpointAdvances
<1>1. ASSUME PullInv, [PullNext]_pullVars, checkpoint' # checkpoint
      PROVE  checkpoint' >= checkpoint /\ checkpoint' <= version
  <2>1. CASE FastForward
    BY <1>1, <2>1 DEF FastForward, PullInv, PullTypeInv, CheckpointInv
  <2>2. ASSUME NEW c \in page, SaveCheckpoint(c)
        PROVE  checkpoint' >= checkpoint /\ checkpoint' <= version
    <3>1. /\ checkpoint' = c.version /\ c.version \in Nat /\ c.event \in CompanyEvents
          /\ safe < c.version /\ c.version <= position[c.event]
          /\ pullPhase = "saving"
      BY <1>1, <2>2 DEF SaveCheckpoint, PullInv, PullTypeInv, PageInv, PulledChange
    <3> QED
      BY <1>1, <3>1 DEF PullInv, PullTypeInv, CheckpointInv, HistoryInv
  <2> QED
    BY <1>1, <2>1, <2>2
       DEF PullNext, Pull, Commit, Hide, StartPull, StopAtLimit, PullPage,
                            EndPage, ApplyChange, Fail, pullVars
<1>2. PullInv /\ [PullNext]_pullVars =>
         [checkpoint' >= checkpoint /\ checkpoint' <= version]_pullVars
  <2>1. ASSUME PullInv, [PullNext]_pullVars, checkpoint' = checkpoint
        PROVE  checkpoint' >= checkpoint /\ checkpoint' <= version
    BY <2>1 DEF PullInv, PullTypeInv, CheckpointInv
  <2> QED
    BY <1>1, <2>1
<1> QED
  BY PullInvariant, <1>2, PTL DEF PullSpec, CheckpointAdvances

-----------------------------------------------------------------------------
(* The server as the pull model has it is the feed of VersionFeed, which   *)
(* SyncEventLog implements as well.                                        *)

LEMMA FeedStep ==
    ASSUME PullInv, [PullNext]_pullVars
    PROVE  [Feed!Next]_(Feed!feedVars)
<1> USE DEF PullInv, PullTypeInv
<1>1. ASSUME NEW e \in CompanyEvents, NEW s \in {"ACCEPTED", "CONFLICT"}, Commit(e, s)
      PROVE  Feed!Next
  <2>1. /\ version' = version + 1
        /\ \A f \in CompanyEvents : position'[f] = IF f = e THEN version + 1 ELSE position[f]
        /\ \A f \in CompanyEvents : status'[f] = IF f = e THEN s ELSE status[f]
    BY <1>1 DEF Commit
  <2>2. position' \in [CompanyEvents -> Nat]
    BY <1>1 DEF Commit
  <2>3. Visible(0)' \subseteq Visible(0) \cup {e}
    BY <2>1 DEF Visible
  <2>4. Feed!Publish({e})
    BY <2>1, <2>2, <2>3 DEF Feed!Publish
  <2> QED
    BY <2>4 DEF Feed!Next
<1>2. ASSUME NEW e \in CompanyEvents, Hide(e) PROVE Feed!Next
  <2>1. version' = version /\ position' = position /\ Visible(0)' \subseteq Visible(0)
    BY <1>2 DEF Hide, Visible
  <2> QED
    BY <2>1 DEF Feed!Next, Feed!Withdraw
<1>3. ASSUME UNCHANGED serverVars PROVE UNCHANGED Feed!feedVars
  BY <1>3 DEF serverVars, Feed!feedVars, Visible
<1>4. CASE Pull \/ Fail \/ UNCHANGED pullVars
  <2>1. UNCHANGED serverVars
    BY <1>4 DEF Pull, StartPull, StopAtLimit, PullPage, EndPage, FastForward,
                ApplyChange, SaveCheckpoint, Fail, pullVars
  <2> QED
    BY <1>3, <2>1
<1> QED
  BY <1>1, <1>2, <1>4 DEF PullNext

(* Every step of the pull model is a step of the feed, or leaves it alone. *)
THEOREM PullReadsFeed == PullSpec => FeedSpec
<1>1. PullInit => Feed!Init
  BY DEF PullInit, Feed!Init, Visible
<1>2. PullInv /\ [PullNext]_pullVars => [Feed!Next]_(Feed!feedVars)
  BY FeedStep
<1> QED
  BY <1>1, <1>2, PullInvariant, PTL DEF PullSpec, FeedSpec, Feed!Spec

-----------------------------------------------------------------------------
(***************************************************************************)
(* Support.  A command that was executed has left "PENDING" for good, and  *)
(* the device neither lists it nor starts it again; a request that writes  *)
(* by the id alone saw the command pending or running when it read it.     *)
(***************************************************************************)
(***************************************************************************)
(* Types.                                                                  *)
(***************************************************************************)
RequestPhases == {"read", "again", "take", "taken", "expire", "write"}
Request == [id: Nat \ {0}, kind: Kinds, c: Commands \cup {Nothing}, phase: RequestPhases,
            seen: Statuses, failed: Nat]
Busy == {"start", "execute", "told", "complete", "fail"}
Waiting == {"report", "told", "start", "complete", "fail"}
DeviceState == [at: {"idle", "conflicts", "pull", "next"} \cup Busy \cup Waiting,
            list: SUBSET Commands, c: Commands \cup {Nothing}, waits: Nat, seen: SUBSET StoredEvents]
Asking == [kind: {"find", "create"}, type: Types]
Decision == [kind: {"archive", "admin", "user"}, event: StoredEvents, stale: BOOLEAN]
Command == [type: Types \cup {Nothing}, status: Statuses]
Item == [status: {"failed", "pending"}, total: Totals]

(***************************************************************************)
(* Commands: what the server stores, what is under way and what the device *)
(* does.                                                                   *)
(***************************************************************************)
Expected(at) == IF at \in {"report", "told"} THEN "report" ELSE at
Begun(c) == command[c].status \notin {"none", "PENDING"}

ServerOK ==
    /\ command \in [Commands -> Command]
    /\ due \subseteq {c \in Commands : command[c].status # "none"}
    /\ diagnostic \in Nat \cup {Nothing}

RequestOK(r) ==
    /\ r.kind # "report" => r.c \in Commands
    /\ r.kind = "report" => r.phase = "read"
    /\ r.kind = "complete" => r.c \in done
    /\ r.phase \in {"expire", "write"} => r.seen \in {"PENDING", "RUNNING"}

RequestsOK ==
    /\ requests \subseteq Request /\ IsFiniteSet(requests)
    /\ \A r, s \in requests : r.id = s.id => r = s
    /\ \A r \in requests : RequestOK(r)

Awaited == \E r \in requests : /\ r.id = device.waits
                               /\ r.kind = Expected(device.at) /\ r.c = device.c

DeviceOK ==
    /\ device \in DeviceState
    /\ device.at \in Busy <=> device.c # Nothing
    /\ device.c \notin device.list
    /\ device.at \in {"report", "told", "start"} => device.waits # 0
    /\ device.waits # 0 => device.at \in Waiting /\ Awaited
    /\ device.at \in {"told", "complete"} => device.c \in done

LocalOK ==
    /\ item \in [Items -> Item] /\ cached \subseteq StoredEvents
    /\ executed \in [Commands -> Nat] /\ done \subseteq Commands

ExecutedOnce ==
    /\ \A c \in Commands :
          /\ executed[c] <= 1
          /\ executed[c] > 0 => /\ Begun(c) /\ c \notin device.list
                                /\ device.at \in {"start", "execute"} => device.c # c
          /\ command[c].status = "SUCCEEDED" => c \in done
    /\ device.at = "execute" => Begun(device.c)

CommandSide == ServerOK /\ RequestsOK /\ DeviceOK /\ LocalOK /\ ExecutedOnce

(***************************************************************************)
(* The sync center: what was archived is of a kind that is never applied   *)
(* again, and its conflict is closed.                                      *)
(***************************************************************************)
Archivable == {"local", "unidentified", "other"}

CenterOK ==
    /\ event \in [StoredEvents -> EventStatuses]
    /\ conflict \in [StoredEvents -> {"none", "OPEN", "RESOLVED"}]
    /\ payload \in [StoredEvents -> Payloads] /\ mapped \subseteq StoredEvents
    /\ incident \in {"none", "warn", "error"}
    /\ archived \subseteq StoredEvents /\ raced \subseteq Commands \cup StoredEvents

Holds(j) ==
    /\ j.kind = "archive" => payload[j.event] \in Archivable
    /\ j.kind = "admin" => payload[j.event] \notin Archivable
    /\ j.kind = "user" => payload[j.event] = "other"
    /\ j.kind \in {"archive", "user"} /\ ~j.stale => conflict[j.event] = "OPEN"

JobOK(j) ==
    /\ j \in Asking \cup Decision \cup {Nothing}
    /\ j # Nothing /\ j.kind \in {"archive", "admin", "user"} => j \in Decision /\ Holds(j)

JobsOK ==
    /\ job \in [Admins -> Asking \cup Decision \cup {Nothing}]
    /\ \A w \in Admins : JobOK(job[w])

EventsOK ==
    /\ \A e \in StoredEvents : payload[e] \in Archivable /\ conflict[e] = "OPEN" => event[e] = "CONFLICT"
    /\ \A e \in archived : payload[e] \in Archivable /\ conflict[e] = "RESOLVED"
    /\ \A e \in StoredEvents : event[e] = "CONFLICT" => conflict[e] = "OPEN" \/ e \in archived
    /\ ArchivedIsNotApplied

CenterSide == CenterOK /\ JobsOK /\ EventsOK

IInv == CommandSide /\ CenterSide

LEMMA TypedIsTypeOK == ASSUME IInv PROVE SupportTypeOK
<1>1. \A r \in requests : r.id \in Nat \ {0} /\ r.kind \in Kinds
  BY DEF IInv, CommandSide, RequestsOK, Request
<1>2. /\ device.at \in {"idle", "conflicts", "report", "pull", "next", "start", "execute",
                        "told", "complete", "fail"}
      /\ device.list \subseteq Commands /\ device.seen \subseteq StoredEvents
      /\ device.at \in Busy <=> device.c # Nothing
  BY DEF IInv, CommandSide, DeviceOK, DeviceState, Busy, Waiting
<1>3. \A w \in Admins : job[w] # Nothing =>
          job[w].kind \in {"find", "create", "archive", "admin", "user"}
  BY DEF IInv, CenterSide, JobsOK, Asking, Decision
<1>4. /\ command \in [Commands -> [type: Types \cup {Nothing}, status: Statuses]]
      /\ due \subseteq {c \in Commands : command[c].status # "none"}
      /\ diagnostic \in Nat \cup {Nothing}
      /\ \A r, s \in requests : r.id = s.id => r = s
      /\ item \in [Items -> [status: {"failed", "pending"}, total: Totals]]
      /\ cached \subseteq StoredEvents
      /\ executed \in [Commands -> Nat] /\ done \subseteq Commands
  BY DEF IInv, CommandSide, ServerOK, RequestsOK, LocalOK, Command, Item
<1> QED
  BY <1>1, <1>2, <1>3, <1>4 DEF SupportTypeOK, IInv, CenterSide, CenterOK, Busy

LEMMA CommandsNotNothing == Nothing \notin Commands /\ Nothing \notin StoredEvents
BY SupportAssumption

(* A new request has an identity that no other has.                        *)
LEMMA FreshIsNew ==
    ASSUME RequestsOK
    PROVE  FreshId \in Nat \ {0} /\ \A r \in requests : r.id # FreshId
<1> DEFINE k == Cardinality(requests)
           ids == 1 .. k + 1
<1>1. k \in Nat /\ IsFiniteSet(requests)
  BY FS_CardinalityType DEF RequestsOK
<1>2. IsFiniteSet(ids) /\ Cardinality(ids) = k + 1
  <2>1. 1 \in Int /\ k + 1 \in Int
    BY <1>1
  <2>2. IsFiniteSet(ids) /\ Cardinality(ids) = IF 1 > k + 1 THEN 0 ELSE (k + 1) - 1 + 1
    BY <2>1, FS_Interval
  <2> HIDE DEF ids
  <2>3. Cardinality(ids) = k + 1
    BY <1>1, <2>2
  <2> QED
    BY <2>2, <2>3
<1>3. \E n \in ids : \A r \in requests : r.id # n
  <2>1. SUFFICES ASSUME \A n \in ids : \E r \in requests : r.id = n
                 PROVE  FALSE
    OBVIOUS
  <2> DEFINE f == [n \in ids |-> CHOOSE r \in requests : r.id = n]
  <2>2. \A n \in ids : f[n] \in requests /\ f[n].id = n
    BY <2>1
  <2>3. f \in [ids -> requests]
    BY <2>2
  <2>4. Cardinality(requests) < Cardinality(ids)
    BY <1>1, <1>2
  <2> HIDE DEF f, ids, k
  <2>5. \E x, y \in ids : x # y /\ f[x] = f[y]
    BY <1>1, <1>2, <2>3, <2>4, FS_PigeonHole
  <2> QED
    BY <2>2, <2>5
<1>4. FreshId \in ids /\ \A r \in requests : r.id # FreshId
  BY <1>3 DEF FreshId
<1> QED
  BY <1>1, <1>4

LEMMA FailedIsCounted ==
    ASSUME NEW items, items \in [Items -> Item]
    PROVE  FailedCount(items) \in Nat
<1>1. {i \in Items : items[i].status = "failed"} \in SUBSET Items
  OBVIOUS
<1> QED
  BY <1>1, SupportAssumption, FS_Subset, FS_CardinalityType DEF FailedCount

(* What the device does with the answer that it waits for.                 *)
LEMMA ReceivedKeeps ==
    ASSUME DeviceOK, NEW kind, NEW answer, device.waits # 0, kind = Expected(device.at)
    PROVE  LET to == Received(kind, answer) IN
           /\ to \in DeviceState /\ to.waits = 0 /\ to.list = device.list
           /\ to.at \in {"pull", "next", "complete", "execute", "fail"}
           /\ to.at \in Busy <=> to.c # Nothing
           /\ to.c \in {device.c, Nothing}
           /\ to.at = "execute" => /\ kind = "start" /\ answer = "RUNNING"
                                   /\ device.at = "start" /\ to.c = device.c
           /\ to.at = "complete" => device.at = "told"
<1> DEFINE to == Received(kind, answer)
<1>1. device \in DeviceState /\ device.at \in Waiting
  BY DEF DeviceOK
<1>2. /\ device.at \in {"start", "told", "complete", "fail"} => device.c # Nothing
      /\ device.at = "report" => device.c = Nothing
  BY <1>1 DEF DeviceOK, Busy, Waiting
<1>3. CASE kind = "report" /\ device.at = "report"
  <2>1. to = [device EXCEPT !.at = "pull", !.waits = 0]
    BY <1>3 DEF Received
  <2>2. /\ to \in DeviceState /\ to.at = "pull" /\ to.waits = 0
        /\ to.list = device.list /\ to.c = device.c
    <3>1. ASSUME NEW x, x = [device EXCEPT !.at = "pull", !.waits = 0]
          PROVE  /\ x \in DeviceState /\ x.at = "pull" /\ x.waits = 0
                 /\ x.list = device.list /\ x.c = device.c
      BY <1>1, <3>1 DEF DeviceState, Busy
    <3> HIDE DEF to
    <3> QED
      BY <2>1, <3>1
  <2> QED
    BY <1>2, <1>3, <2>2 DEF Busy
<1>4. CASE kind = "report" /\ device.at = "told"
  <2>1. to = [device EXCEPT !.at = "complete", !.waits = 0]
    BY <1>4 DEF Received
  <2>2. /\ to \in DeviceState /\ to.at = "complete" /\ to.waits = 0
        /\ to.list = device.list /\ to.c = device.c
    <3>1. ASSUME NEW x, x = [device EXCEPT !.at = "complete", !.waits = 0]
          PROVE  /\ x \in DeviceState /\ x.at = "complete" /\ x.waits = 0
                 /\ x.list = device.list /\ x.c = device.c
      BY <1>1, <3>1 DEF DeviceState, Busy
    <3> HIDE DEF to
    <3> QED
      BY <2>1, <3>1
  <2> QED
    BY <1>2, <1>4, <2>2 DEF Busy
<1>5. CASE kind = "start" /\ answer = "RUNNING"
  <2>1. to = [device EXCEPT !.at = "execute", !.waits = 0]
    BY <1>5 DEF Received
  <2>2. device.at = "start"
    BY <1>1, <1>5 DEF Expected, Waiting
  <2>3. /\ to \in DeviceState /\ to.at = "execute" /\ to.waits = 0
        /\ to.list = device.list /\ to.c = device.c
    <3>1. ASSUME NEW x, x = [device EXCEPT !.at = "execute", !.waits = 0]
          PROVE  /\ x \in DeviceState /\ x.at = "execute" /\ x.waits = 0
                 /\ x.list = device.list /\ x.c = device.c
      BY <1>1, <3>1 DEF DeviceState, Busy
    <3> HIDE DEF to
    <3> QED
      BY <2>1, <3>1
  <2> QED
    BY <1>2, <1>5, <2>2, <2>3 DEF Busy
<1>6. CASE kind = "start" /\ answer = "error"
  <2>1. to = [device EXCEPT !.at = "fail", !.waits = 0]
    BY <1>6 DEF Received
  <2>2. device.at = "start"
    BY <1>1, <1>6 DEF Expected, Waiting
  <2>3. /\ to \in DeviceState /\ to.at = "fail" /\ to.waits = 0
        /\ to.list = device.list /\ to.c = device.c
    <3>1. ASSUME NEW x, x = [device EXCEPT !.at = "fail", !.waits = 0]
          PROVE  /\ x \in DeviceState /\ x.at = "fail" /\ x.waits = 0
                 /\ x.list = device.list /\ x.c = device.c
      BY <1>1, <3>1 DEF DeviceState, Busy
    <3> HIDE DEF to
    <3> QED
      BY <2>1, <3>1
  <2> QED
    BY <1>2, <1>6, <2>2, <2>3 DEF Busy
<1>7. CASE /\ ~(kind = "report" /\ device.at = "report") /\ ~(kind = "report" /\ device.at = "told")
           /\ ~(kind = "start" /\ answer = "RUNNING") /\ ~(kind = "start" /\ answer = "error")
  <2>1. to = [device EXCEPT !.at = "next", !.c = Nothing, !.waits = 0]
    BY <1>7 DEF Received
  <2>2. /\ to \in DeviceState /\ to.at = "next" /\ to.waits = 0
        /\ to.list = device.list /\ to.c = Nothing
    <3>1. ASSUME NEW x, x = [device EXCEPT !.at = "next", !.c = Nothing, !.waits = 0]
          PROVE  /\ x \in DeviceState /\ x.at = "next" /\ x.waits = 0
                 /\ x.list = device.list /\ x.c = Nothing
      BY <1>1, <3>1 DEF DeviceState, Busy
    <3> HIDE DEF to
    <3> QED
      BY <2>1, <3>1
  <2> QED
    BY <2>2 DEF Busy
<1> QED
  BY <1>3, <1>4, <1>5, <1>6, <1>7

(***************************************************************************)
(* Steps in which the device goes on with the command that it has, if any. *)
(***************************************************************************)
Onwards ==
    /\ device'.list \subseteq device.list
    /\ device'.at \in {"start", "execute"} =>
          device'.c = device.c /\ device.at \in {"start", "execute"}
    /\ device'.at = "execute" => Begun(device.c)

LEMMA AnswerKeeps ==
    ASSUME CommandSide, NEW r \in requests, NEW answer, Answer(r, answer), done' = done,
           r.kind = "start" /\ answer = "RUNNING" => Begun(r.c)
    PROVE  RequestsOK' /\ DeviceOK' /\ Onwards
<1>1. /\ requests' = requests \ {r}
      /\ requests \subseteq Request /\ IsFiniteSet(requests)
      /\ \A q, s \in requests : q.id = s.id => q = s
      /\ \A q \in requests : RequestOK(q)
  BY DEF Answer, CommandSide, RequestsOK
<1>2. RequestsOK'
  <2>1. IsFiniteSet(requests \ {r})
    BY <1>1, FS_RemoveElement
  <2> QED
    BY <1>1, <2>1 DEF RequestsOK, RequestOK
<1>3. DeviceOK /\ r.id # 0
  BY <1>1 DEF CommandSide, Request
<1>4. CASE device.waits = r.id
  <2>1. device' = Received(r.kind, answer) /\ device.waits # 0
    BY <1>3, <1>4 DEF Answer
  <2>2. r.kind = Expected(device.at) /\ r.c = device.c
    BY <1>1, <1>3, <1>4, <2>1 DEF DeviceOK, Awaited
  <2>3. /\ device' \in DeviceState /\ device'.waits = 0 /\ device'.list = device.list
        /\ device'.at \in {"pull", "next", "complete", "execute", "fail"}
        /\ device'.at \in Busy <=> device'.c # Nothing
        /\ device'.c \in {device.c, Nothing}
        /\ device'.at = "execute" => /\ r.kind = "start" /\ answer = "RUNNING"
                                     /\ device.at = "start" /\ device'.c = device.c
        /\ device'.at = "complete" => device.at = "told"
    BY <1>3, <2>1, <2>2, ReceivedKeeps
  <2>4. device.c \notin device.list /\ Nothing \notin device.list
    BY <1>3, CommandsNotNothing DEF DeviceOK, DeviceState
  <2>5. device'.at = "complete" => device'.c \in done'
    <3>1. device'.at = "complete" => device'.c = device.c
      BY <2>3 DEF Busy
    <3> QED
      BY <1>3, <2>3, <3>1 DEF DeviceOK
  <2>6. DeviceOK'
    BY <2>3, <2>4, <2>5 DEF DeviceOK
  <2>7. Onwards
    BY <2>2, <2>3 DEF Onwards
  <2> QED
    BY <1>2, <2>6, <2>7
<1>5. CASE device.waits # r.id
  <2>1. device' = device
    BY <1>5 DEF Answer
  <2>2. Awaited => Awaited'
    BY <1>1, <1>5, <2>1 DEF Awaited
  <2>3. DeviceOK'
    BY <1>3, <2>1, <2>2 DEF DeviceOK
  <2>4. Onwards
    BY <2>1 DEF Onwards, CommandSide, ExecutedOnce
  <2> QED
    BY <1>2, <2>3, <2>4
<1> QED
  BY <1>4, <1>5

LEMMA ProceedKeeps ==
    ASSUME CommandSide, NEW r \in requests, NEW step \in RequestPhases, Proceed(r, step),
           r.kind # "report", done' = done,
           step \in {"expire", "write"} => command[r.c].status \in {"PENDING", "RUNNING"}
    PROVE  RequestsOK' /\ DeviceOK' /\ Onwards
<1> DEFINE outcome == command[r.c].status
<1>1. /\ requests \subseteq Request /\ IsFiniteSet(requests)
      /\ \A q, s \in requests : q.id = s.id => q = s
      /\ \A q \in requests : RequestOK(q)
  BY DEF CommandSide, RequestsOK
<1>2. r \in Request /\ RequestOK(r) /\ r.c \in Commands /\ outcome \in Statuses
  <2>1. r \in Request /\ RequestOK(r) /\ r.c \in Commands
    BY <1>1 DEF RequestOK
  <2> QED
    BY <2>1 DEF CommandSide, ServerOK, Command
<1>3. PICK new : new = [r EXCEPT !.phase = step, !.seen = outcome]
  OBVIOUS
<1>4. /\ new \in Request /\ new.id = r.id /\ new.kind = r.kind /\ new.c = r.c
      /\ new.phase = step /\ new.seen = outcome
  <2> HIDE DEF outcome
  <2> QED
    BY <1>2, <1>3 DEF Request
<1>5. requests' = (requests \ {r}) \cup {new} /\ device' = device
  BY <1>3 DEF Proceed
<1>6. RequestsOK'
  <2>1. IsFiniteSet(requests')
    BY <1>1, <1>5, FS_RemoveElement, FS_AddElement
  <2>2. \A q, s \in requests' : q.id = s.id => q = s
    BY <1>1, <1>4, <1>5
  <2>3. RequestOK(new)'
    BY <1>2, <1>4 DEF RequestOK
  <2>4. \A q \in requests \ {r} : RequestOK(q)'
    BY <1>1 DEF RequestOK
  <2>5. \A q \in requests' : RequestOK(q)'
    BY <1>5, <2>3, <2>4
  <2> QED
    BY <1>1, <1>4, <1>5, <2>1, <2>2, <2>5 DEF RequestsOK
<1>7. DeviceOK'
  <2>1. Awaited => Awaited'
    BY <1>1, <1>4, <1>5 DEF Awaited
  <2> QED
    BY <1>5, <2>1 DEF DeviceOK, CommandSide
<1>8. Onwards
  BY <1>5 DEF Onwards, CommandSide, ExecutedOnce
<1> QED
  BY <1>6, <1>7, <1>8

(* How the status of a command may change without being executed.           *)
Touches(c) ==
    \/ command'[c].status = command[c].status
    \/ command[c].status = "none" /\ command'[c].status = "PENDING"
    \/ /\ command'[c].status \notin {"none", "PENDING"}
       /\ command'[c].status = "SUCCEEDED" => c \in done

LEMMA ExecutedOnceKeeps ==
    ASSUME CommandSide, Onwards, UNCHANGED <<executed, done>>,
           \A c \in Commands : Touches(c)
    PROVE  ExecutedOnce'
<1>1. \A c \in Commands : Begun(c) => Begun(c)'
  BY DEF Begun, Touches
<1>2. ASSUME NEW c \in Commands
      PROVE  /\ executed'[c] <= 1
             /\ executed'[c] > 0 => /\ Begun(c)' /\ c \notin device'.list
                                    /\ device'.at \in {"start", "execute"} => device'.c # c
             /\ command'[c].status = "SUCCEEDED" => c \in done'
  BY <1>1 DEF CommandSide, ExecutedOnce, Onwards, Touches
<1>3. ASSUME device'.at = "execute" PROVE Begun(device.c)'
  <2>1. Begun(device.c) /\ device'.c = device.c /\ device.at \in {"start", "execute"}
    BY <1>3 DEF Onwards
  <2>2. device.c \in Commands
    BY <2>1 DEF CommandSide, DeviceOK, DeviceState, Busy
  <2> QED
    BY <1>1, <2>1, <2>2 DEF Begun
<1> QED
  BY <1>2, <1>3 DEF ExecutedOnce

(* What writes by identity alone.                                          *)
LEMMA SetStatusIs ==
    ASSUME ServerOK, NEW cs, NEW outcome \in Statuses \ {"none"},
           command' = SetStatus(cs, outcome)
    PROVE  /\ command' \in [Commands -> Command]
           /\ \A c \in Commands :
                 command'[c].status = IF c \in cs THEN outcome ELSE command[c].status
           /\ due \subseteq {c \in Commands : command'[c].status # "none"}
<1> DEFINE new(c) == [command[c] EXCEPT !.status = outcome]
<1>1. \A c \in Commands : command[c] \in Command
  BY DEF ServerOK
<1>2. \A c \in Commands : new(c) \in Command /\ new(c).status = outcome
  BY <1>1 DEF Command
<1>3. command' = [c \in Commands |-> IF c \in cs THEN new(c) ELSE command[c]]
  BY DEF SetStatus
<1> HIDE DEF new
<1>4. \A c \in Commands : command'[c] = IF c \in cs THEN new(c) ELSE command[c]
  BY <1>3
<1>5. command' \in [Commands -> Command]
  BY <1>1, <1>2, <1>3
<1>6. \A c \in Commands : command'[c].status = IF c \in cs THEN outcome ELSE command[c].status
  BY <1>2, <1>4
<1>7. due \subseteq {c \in Commands : command'[c].status # "none"}
  BY <1>6 DEF ServerOK
<1> QED
  BY <1>5, <1>6, <1>7

(***************************************************************************)
(* The server answers a request of the device.                             *)
(***************************************************************************)
LEMMA ServeSame ==
    ASSUME CommandSide, RequestsOK', DeviceOK', Onwards, Untouched, UNCHANGED command,
           diagnostic' \in Nat \cup {Nothing}
    PROVE  CommandSide'
<1>1. UNCHANGED <<due, item, cached, executed, done>>
  BY DEF Untouched, local
<1>2. ServerOK' /\ LocalOK'
  BY <1>1 DEF CommandSide, ServerOK, LocalOK
<1>3. ExecutedOnce'
  BY <1>1, ExecutedOnceKeeps DEF Touches
<1> QED
  BY <1>2, <1>3 DEF CommandSide

LEMMA ServeSets ==
    ASSUME CommandSide, RequestsOK', DeviceOK', Onwards, Untouched, UNCHANGED diagnostic,
           NEW c \in Commands, NEW outcome \in Ended \cup {"RUNNING"},
           command' = SetStatus({c}, outcome), outcome = "SUCCEEDED" => c \in done
    PROVE  CommandSide'
<1>1. UNCHANGED <<due, item, cached, executed, done>>
  BY DEF Untouched, local
<1>2. outcome \in Statuses \ {"none"} /\ outcome # "PENDING"
  BY DEF Ended, Statuses
<1>3. /\ command' \in [Commands -> Command]
      /\ \A d \in Commands : command'[d].status = IF d \in {c} THEN outcome ELSE command[d].status
      /\ due \subseteq {d \in Commands : command'[d].status # "none"}
  BY <1>2, SetStatusIs DEF CommandSide
<1>4. ServerOK' /\ LocalOK'
  BY <1>1, <1>3 DEF CommandSide, ServerOK, LocalOK
<1>5. \A d \in Commands : Touches(d)
  BY <1>2, <1>3 DEF Touches
<1>6. ExecutedOnce'
  BY <1>1, <1>5, ExecutedOnceKeeps
<1> QED
  BY <1>4, <1>6 DEF CommandSide

LEMMA ReadStartKeeps ==
    ASSUME CommandSide, NEW r \in requests, ReadStart(r)
    PROVE  CommandSide'
<1>1. /\ r.kind = "start" /\ UNCHANGED <<command, diagnostic>> /\ Untouched /\ done' = done
  BY DEF ReadStart, Untouched
<1>2. diagnostic' \in Nat \cup {Nothing}
  BY <1>1 DEF CommandSide, ServerOK
<1>3. CASE IsExecutableExpired(r.c) /\ Proceed(r, "expire")
  <2>1. command[r.c].status \in {"PENDING", "RUNNING"} /\ "expire" \in RequestPhases
    BY <1>3 DEF IsExecutableExpired, Executable, RequestPhases
  <2>2. RequestsOK' /\ DeviceOK' /\ Onwards
    BY <1>1, <1>3, <2>1, ProceedKeeps
  <2> QED
    BY <1>1, <1>2, <2>2, ServeSame
<1>4. CASE command[r.c].status = "RUNNING" /\ Answer(r, "RUNNING")
  <2>1. RequestsOK' /\ DeviceOK' /\ Onwards
    BY <1>1, <1>4, AnswerKeeps DEF Begun
  <2> QED
    BY <1>1, <1>2, <2>1, ServeSame
<1>5. CASE Proceed(r, "take")
  <2>1. "take" \in RequestPhases \ {"expire", "write"}
    BY DEF RequestPhases
  <2>2. RequestsOK' /\ DeviceOK' /\ Onwards
    BY <1>1, <1>5, <2>1, ProceedKeeps
  <2> QED
    BY <1>1, <1>2, <2>2, ServeSame
<1>6. CASE Answer(r, "error")
  <2>1. RequestsOK' /\ DeviceOK' /\ Onwards
    BY <1>1, <1>6, AnswerKeeps
  <2> QED
    BY <1>1, <1>2, <2>1, ServeSame
<1> QED
  BY <1>3, <1>4, <1>5, <1>6 DEF ReadStart

LEMMA TakeStartKeeps ==
    ASSUME CommandSide, NEW r \in requests, TakeStart(r)
    PROVE  CommandSide'
<1>1. r.kind = "start" /\ UNCHANGED diagnostic /\ Untouched /\ done' = done
  BY DEF TakeStart, Untouched
<1>2. r.c \in Commands /\ {"taken", "again"} \subseteq RequestPhases \ {"expire", "write"}
  BY <1>1 DEF CommandSide, RequestsOK, RequestOK, RequestPhases
<1>3. CASE command' = SetStatus({r.c}, "RUNNING") /\ Proceed(r, "taken")
  <2>1. RequestsOK' /\ DeviceOK' /\ Onwards
    BY <1>1, <1>2, <1>3, ProceedKeeps
  <2> QED
    BY <1>1, <1>2, <1>3, <2>1, ServeSets
<1>4. CASE UNCHANGED command /\ Proceed(r, "again")
  <2>1. RequestsOK' /\ DeviceOK' /\ Onwards
    BY <1>1, <1>2, <1>4, ProceedKeeps
  <2>2. diagnostic' \in Nat \cup {Nothing}
    BY <1>1 DEF CommandSide, ServerOK
  <2> QED
    BY <1>1, <1>4, <2>1, <2>2, ServeSame
<1> QED
  BY <1>3, <1>4 DEF TakeStart

LEMMA ReadOutcomeKeeps ==
    ASSUME CommandSide, NEW r \in requests, ReadOutcome(r)
    PROVE  CommandSide'
<1>1. /\ r.kind \in {"complete", "fail"} /\ UNCHANGED <<command, diagnostic>> /\ Untouched
      /\ done' = done
  BY DEF ReadOutcome, Untouched
<1>2. diagnostic' \in Nat \cup {Nothing}
  BY <1>1 DEF CommandSide, ServerOK
<1>3. CASE \E answer : Answer(r, answer)
  <2>1. RequestsOK' /\ DeviceOK' /\ Onwards
    BY <1>1, <1>3, AnswerKeeps
  <2> QED
    BY <1>1, <1>2, <2>1, ServeSame
<1>4. CASE \E step \in {"expire", "write"} :
              Proceed(r, step) /\ command[r.c].status \in {"PENDING", "RUNNING"}
  <2>1. {"expire", "write"} \subseteq RequestPhases
    BY DEF RequestPhases
  <2>2. RequestsOK' /\ DeviceOK' /\ Onwards
    BY <1>1, <1>4, <2>1, ProceedKeeps
  <2> QED
    BY <1>1, <1>2, <2>2, ServeSame
<1> QED
  BY <1>3, <1>4 DEF ReadOutcome, IsExecutableExpired, Executable

LEMMA ServeKeeps ==
    ASSUME CommandSide, NEW r \in requests, ServeRequest(r)
    PROVE  CommandSide'
<1>1. r \in Request /\ RequestOK(r)
  BY DEF CommandSide, RequestsOK
<1>2. CASE ReportDiagnostic(r)
  <2>1. /\ r.kind = "report" /\ Answer(r, "ok") /\ UNCHANGED command /\ Untouched /\ done' = done
        /\ diagnostic' = r.failed
    BY <1>2 DEF ReportDiagnostic, Untouched
  <2>2. RequestsOK' /\ DeviceOK' /\ Onwards
    BY <2>1, AnswerKeeps
  <2>3. diagnostic' \in Nat \cup {Nothing}
    BY <1>1, <2>1 DEF Request
  <2> QED
    BY <2>1, <2>2, <2>3, ServeSame
<1>3. CASE AnswerStart(r)
  <2>1. /\ r.kind = "start" /\ UNCHANGED <<command, diagnostic>> /\ Untouched /\ done' = done
        /\ Answer(r, command[r.c].status)
    BY <1>3 DEF AnswerStart, Untouched
  <2>2. RequestsOK' /\ DeviceOK' /\ Onwards
    BY <2>1, AnswerKeeps DEF Begun
  <2>3. diagnostic' \in Nat \cup {Nothing}
    BY <2>1 DEF CommandSide, ServerOK
  <2> QED
    BY <2>1, <2>2, <2>3, ServeSame
<1>4. ASSUME NEW outcome \in Ended, Overwrite(r, outcome), r.kind # "report",
             UNCHANGED diagnostic, Untouched, outcome = "SUCCEEDED" => r.kind = "complete",
             NEW answer, Answer(r, answer), answer # "RUNNING"
      PROVE  CommandSide'
  <2>1. RequestsOK' /\ DeviceOK' /\ Onwards
    BY <1>4, AnswerKeeps DEF Untouched
  <2>2. r.c \in Commands /\ (outcome = "SUCCEEDED" => r.c \in done)
    BY <1>1, <1>4 DEF RequestOK
  <2>3. command' = SetStatus({r.c}, outcome)
    BY <1>4 DEF Overwrite
  <2> QED
    BY <1>4, <2>1, <2>2, <2>3, ServeSets
<1>5. CASE MarkExpired(r)
  BY <1>1, <1>4, <1>5 DEF MarkExpired, RequestOK, Ended
<1>6. CASE CompleteCommand(r) \/ FailCommand(r)
  BY <1>4, <1>6 DEF CompleteCommand, FailCommand, Ended
<1> QED
  BY <1>2, <1>3, <1>5, <1>6, ReadStartKeeps, TakeStartKeeps, ReadOutcomeKeeps
     DEF ServeRequest

(***************************************************************************)
(* The runner of the device.                                               *)
(***************************************************************************)
LEMMA SendKeeps ==
    ASSUME RequestsOK, NEW kind \in Kinds, NEW c \in Commands \cup {Nothing}, NEW failed \in Nat,
           NEW next \in DeviceState, Send(kind, c, failed, next), done \subseteq done',
           kind # "report" => c \in Commands, kind = "complete" => c \in done',
           next.at \in Waiting, kind = Expected(next.at), c = next.c,
           next.at \in Busy <=> c # Nothing, c \notin next.list,
           next.at \in {"told", "complete"} => c \in done'
    PROVE  /\ RequestsOK' /\ DeviceOK'
           /\ device'.at = next.at /\ device'.c = c /\ device'.list = next.list
<1>0. PICK new : new = [id |-> FreshId, kind |-> kind, c |-> c, phase |-> "read",
                        seen |-> "none", failed |-> failed]
  OBVIOUS
<1>1. FreshId \in Nat \ {0} /\ \A r \in requests : r.id # FreshId
  BY FreshIsNew
<1>2. /\ new.id = FreshId /\ new.kind = kind /\ new.c = c /\ new.phase = "read"
      /\ new \in Request
  <2>1. "read" \in RequestPhases /\ "none" \in Statuses
    BY DEF RequestPhases, Statuses
  <2> HIDE DEF FreshId
  <2> QED
    BY <1>0, <1>1, <2>1 DEF Request
<1>3. requests' = requests \cup {new}
  BY <1>0 DEF Send
<1>4. /\ requests \subseteq Request /\ IsFiniteSet(requests)
      /\ \A r, s \in requests : r.id = s.id => r = s
      /\ \A r \in requests : RequestOK(r)
  BY DEF RequestsOK
<1>5. RequestsOK'
  <2>1. IsFiniteSet(requests')
    BY <1>3, <1>4, FS_AddElement
  <2>2. \A r, s \in requests' : r.id = s.id => r = s
    BY <1>1, <1>2, <1>3, <1>4
  <2>3. \A r \in requests : RequestOK(r)'
    BY <1>4 DEF RequestOK
  <2>4. RequestOK(new)'
    BY <1>2 DEF RequestOK
  <2> QED
    BY <1>2, <1>3, <1>4, <2>1, <2>2, <2>3, <2>4 DEF RequestsOK
<1>6. /\ device' \in DeviceState /\ device'.waits = FreshId
      /\ device'.at = next.at /\ device'.c = c /\ device'.list = next.list
  <2>1. ASSUME NEW n \in Nat, NEW x, x = [next EXCEPT !.waits = n]
        PROVE  /\ x \in DeviceState /\ x.waits = n
               /\ x.at = next.at /\ x.c = next.c /\ x.list = next.list
    BY <2>1 DEF DeviceState
  <2>2. device' = [next EXCEPT !.waits = FreshId]
    BY DEF Send
  <2> QED
    BY <1>1, <2>1, <2>2
<1>7. Awaited'
  BY <1>2, <1>3, <1>6 DEF Awaited
<1>8. DeviceOK'
  BY <1>1, <1>6, <1>7 DEF DeviceOK
<1> QED
  BY <1>5, <1>6, <1>8

(* Steps of the device that execute nothing.                               *)
LEMMA DeviceKeeps ==
    ASSUME CommandSide, RequestsOK', DeviceOK', UNCHANGED <<server, item, executed, done>>,
           cached' \subseteq StoredEvents, device'.list \subseteq device.list,
           device'.at # "execute", device'.at = "start" => executed[device'.c] = 0
    PROVE  CommandSide'
<1>1. ServerOK' /\ LocalOK'
  BY DEF CommandSide, ServerOK, LocalOK, server
<1>2. command' = command
  BY DEF server
<1>3. ASSUME NEW c \in Commands
      PROVE  /\ executed'[c] <= 1
             /\ executed'[c] > 0 => /\ Begun(c)' /\ c \notin device'.list
                                    /\ device'.at \in {"start", "execute"} => device'.c # c
             /\ command'[c].status = "SUCCEEDED" => c \in done'
  BY <1>2 DEF CommandSide, ExecutedOnce, Begun
<1> QED
  BY <1>1, <1>3 DEF CommandSide, ExecutedOnce

LEMMA AtRest ==
    ASSUME CommandSide, device' = Idle, UNCHANGED <<server, requests, local, history>>
    PROVE  CommandSide'
<1>1. /\ Idle \in DeviceState /\ Idle.at = "idle" /\ Idle.list = {} /\ Idle.c = Nothing
      /\ Idle.waits = 0
  BY DEF Idle, DeviceState
<1>2. DeviceOK'
  BY <1>1 DEF DeviceOK, Busy
<1>3. RequestsOK' /\ UNCHANGED <<item, executed, done>> /\ cached' \subseteq StoredEvents
  BY DEF CommandSide, RequestsOK, RequestOK, local, history, LocalOK
<1> QED
  BY <1>1, <1>2, <1>3, DeviceKeeps

LEMMA LoadConflictsKeeps == ASSUME CommandSide, LoadConflicts PROVE CommandSide'
<1>1. PICK seen \in SUBSET StoredEvents : device' = [Idle EXCEPT !.at = "conflicts", !.seen = seen]
  BY DEF LoadConflicts
<1>2. /\ device' \in DeviceState /\ device'.at = "conflicts" /\ device'.list = {}
      /\ device'.c = Nothing /\ device'.waits = 0
  BY <1>1 DEF Idle, DeviceState
<1>3. DeviceOK'
  BY <1>2 DEF DeviceOK, Busy
<1>4. /\ RequestsOK' /\ UNCHANGED <<server, item, executed, done>> /\ cached' \subseteq StoredEvents
  BY DEF LoadConflicts, CommandSide, RequestsOK, RequestOK, local, history, LocalOK
<1> QED
  BY <1>2, <1>3, <1>4, DeviceKeeps

LEMMA ReportSafelyKeeps == ASSUME CommandSide, ReportSafely PROVE CommandSide'
<1>1. PICK next : next = [device EXCEPT !.at = "report", !.seen = {}]
  OBVIOUS
<1>2. device \in DeviceState /\ device.c = Nothing
  BY DEF ReportSafely, CommandSide, DeviceOK, Busy
<1>3. /\ next \in DeviceState /\ next.at = "report" /\ next.c = Nothing
      /\ next.list = device.list
  BY <1>1, <1>2 DEF DeviceState, Waiting
<1>4. FailedCount(item) \in Nat
  BY FailedIsCounted DEF CommandSide, LocalOK
<1>5. Send("report", Nothing, FailedCount(item), next)
  BY <1>1 DEF ReportSafely
<1>6. Nothing \notin next.list
  BY <1>3, CommandsNotNothing DEF DeviceState
<1>7. RequestsOK /\ "report" \in Kinds /\ done' = done
  BY DEF CommandSide, Kinds, ReportSafely, history
<1>8. /\ RequestsOK' /\ DeviceOK' /\ device'.at = "report" /\ device'.list = device.list
  BY <1>3, <1>4, <1>5, <1>6, <1>7, SendKeeps DEF Expected, Waiting, Busy
<1>9. UNCHANGED <<server, item, executed, done>> /\ cached' \subseteq StoredEvents
  BY DEF ReportSafely, CommandSide, LocalOK, history
<1> QED
  BY <1>8, <1>9, DeviceKeeps

LEMMA StartNextKeeps == ASSUME CommandSide, NEW c \in Commands, StartNext(c) PROVE CommandSide'
<1>1. PICK next : next = [device EXCEPT !.at = "start", !.c = c, !.list = @ \ {c}]
  OBVIOUS
<1>2. /\ next \in DeviceState /\ next.at = "start" /\ next.c = c
      /\ next.list = device.list \ {c}
  BY <1>1 DEF CommandSide, DeviceOK, DeviceState, Busy
<1>3. Send("start", c, 0, next)
  BY <1>1 DEF StartNext
<1>4. RequestsOK /\ "start" \in Kinds /\ done' = done
  BY DEF CommandSide, Kinds, StartNext, history
<1>5. /\ RequestsOK' /\ DeviceOK' /\ device'.at = "start" /\ device'.c = c
      /\ device'.list = device.list \ {c}
  BY <1>2, <1>3, <1>4, SendKeeps, CommandsNotNothing DEF Expected, Waiting, Busy
<1>6. executed[c] = 0
  BY DEF StartNext, CommandSide, ExecutedOnce, LocalOK
<1>7. UNCHANGED <<server, item, executed, done>> /\ cached' \subseteq StoredEvents
  BY DEF StartNext, CommandSide, LocalOK, local, history
<1> QED
  BY <1>5, <1>6, <1>7, DeviceKeeps

LEMMA TellOutcomeKeeps == ASSUME CommandSide, TellOutcome PROVE CommandSide'
<1>1. /\ device \in DeviceState /\ device.at \in {"complete", "fail"} /\ device.c # Nothing
      /\ device.c \notin device.list /\ (device.at = "complete" => device.c \in done)
  BY DEF TellOutcome, CommandSide, DeviceOK, Busy
<1>2. device.c \in Commands
  BY <1>1 DEF DeviceState
<1>3. RequestsOK /\ done' = done /\ Send(device.at, device.c, 0, device)
  BY DEF CommandSide, TellOutcome, history
<1>4. device.at \in Kinds
  BY <1>1 DEF Kinds
<1>5. /\ RequestsOK' /\ DeviceOK' /\ device'.at = device.at /\ device'.list = device.list
  BY <1>1, <1>2, <1>3, <1>4, SendKeeps DEF Expected, Waiting, Busy
<1>6. UNCHANGED <<server, item, executed, done>> /\ cached' \subseteq StoredEvents
  BY DEF TellOutcome, CommandSide, LocalOK, local, history
<1> QED
  BY <1>1, <1>5, <1>6, DeviceKeeps

LEMMA TimeoutKeeps == ASSUME CommandSide, GiveUp PROVE CommandSide'
<1>1. DeviceOK /\ device.waits # 0
  BY DEF CommandSide, GiveUp
<1>2. PICK r \in requests : /\ r.id = device.waits
                            /\ r.kind = Expected(device.at) /\ r.c = device.c
  BY <1>1 DEF DeviceOK, Awaited
<1>3. device' = Received(r.kind, "error")
  <2>1. \A s \in requests : s.id = device.waits => s = r
    BY <1>2 DEF CommandSide, RequestsOK
  <2>2. (CHOOSE s \in requests : s.id = device.waits) = r
    BY <1>2, <2>1
  <2> QED
    BY <2>2 DEF GiveUp
<1>4. /\ device' \in DeviceState /\ device'.waits = 0 /\ device'.list = device.list
      /\ device'.at \in {"pull", "next", "complete", "fail"}
      /\ device'.at \in Busy <=> device'.c # Nothing
      /\ device'.c \in {device.c, Nothing}
      /\ device'.at = "complete" => device.at = "told"
  BY <1>1, <1>2, <1>3, ReceivedKeeps
<1>5. device.c \notin device.list /\ Nothing \notin device.list
  BY <1>1, CommandsNotNothing DEF DeviceOK, DeviceState
<1>6. /\ RequestsOK' /\ UNCHANGED <<server, item, executed, done>> /\ cached' \subseteq StoredEvents
  BY DEF GiveUp, CommandSide, RequestsOK, RequestOK, local, history, LocalOK
<1>7. device'.at = "complete" => device'.c \in done'
  <2>1. device'.at = "complete" => device'.c = device.c
    BY <1>4 DEF Busy
  <2> QED
    BY <1>1, <1>4, <1>6, <2>1 DEF DeviceOK
<1>8. DeviceOK'
  BY <1>4, <1>5, <1>7 DEF DeviceOK
<1> QED
  BY <1>4, <1>6, <1>8, DeviceKeeps

LEMMA ExecuteKeeps == ASSUME CommandSide, Execute PROVE CommandSide'
<1> DEFINE c == device.c
<1>1. /\ device \in DeviceState /\ device.at = "execute" /\ c \in Commands
      /\ c \notin device.list
  BY DEF Execute, CommandSide, DeviceOK, DeviceState, Busy
<1>2. PICK next : next = [device EXCEPT !.at = "told"]
  OBVIOUS
<1>3. /\ next \in DeviceState /\ next.at = "told" /\ next.c = c /\ next.list = device.list
  BY <1>1, <1>2 DEF DeviceState, Busy
<1>4. item' \in [Items -> Item]
  <2>1. RepairOrderItemTotals \in [Items -> Item]
    BY DEF RepairOrderItemTotals, CommandSide, LocalOK, Item, Totals
  <2>2. ReenqueueRecoverable \in [Items -> Item]
    BY DEF ReenqueueRecoverable, CommandSide, LocalOK, Item, Totals
  <2> QED
    BY <2>1, <2>2 DEF Execute, CommandSide, LocalOK
<1>5. cached' \subseteq StoredEvents
  BY DEF Execute, ClearResolved, CommandSide, LocalOK
<1>6. FailedCount(item') \in Nat
  BY <1>4, FailedIsCounted
<1>7. Send("report", c, FailedCount(item'), next)
  BY <1>2 DEF Execute
<1>8. /\ RequestsOK /\ "report" \in Kinds /\ done' = done \cup {c}
      /\ UNCHANGED <<command, due, diagnostic>>
  BY DEF CommandSide, Kinds, Execute, server
<1> HIDE DEF c
<1>9. /\ RequestsOK' /\ DeviceOK' /\ device'.at = "told" /\ device'.list = device.list
  BY <1>1, <1>3, <1>6, <1>7, <1>8, SendKeeps, CommandsNotNothing
     DEF Expected, Waiting, Busy
<1>10. ServerOK'
  BY <1>8 DEF CommandSide, ServerOK
<1>11. executed \in [Commands -> Nat] /\ executed[c] = 0 /\ Begun(c)
  BY <1>1 DEF CommandSide, LocalOK, ExecutedOnce, c
<1>12. executed' = [executed EXCEPT ![c] = @ + 1]
  BY DEF Execute, c
<1>13. executed' \in [Commands -> Nat] /\ \A d \in Commands : executed'[d] = IF d = c THEN 1 ELSE executed[d]
  <2>1. executed' \in [Commands -> Nat]
    <3>1. executed' = [executed EXCEPT ![c] = 1]
      BY <1>11, <1>12
    <3> QED
      BY <1>11, <3>1
  <2> QED
    BY <1>11, <1>12, <2>1
<1>14. LocalOK'
  BY <1>1, <1>4, <1>5, <1>8, <1>13 DEF CommandSide, LocalOK
<1>15. ASSUME NEW d \in Commands
       PROVE  /\ executed'[d] <= 1
              /\ executed'[d] > 0 => Begun(d)' /\ d \notin device'.list
              /\ command'[d].status = "SUCCEEDED" => d \in done'
  <2>1. Begun(d)' = Begun(d)
    BY <1>8 DEF Begun
  <2>2. CASE d = c
    BY <1>1, <1>8, <1>9, <1>11, <1>13, <2>1, <2>2
  <2>3. CASE d # c
    BY <1>8, <1>9, <1>13, <2>1, <2>3 DEF CommandSide, ExecutedOnce
  <2> QED
    BY <2>2, <2>3
<1>16. ExecutedOnce'
  BY <1>9, <1>15 DEF ExecutedOnce
<1> QED
  BY <1>9, <1>10, <1>14, <1>16 DEF CommandSide

LEMMA ExecuteFailsKeeps == ASSUME CommandSide, ExecuteFails PROVE CommandSide'
<1> DEFINE c == device.c
<1>1. /\ device \in DeviceState /\ device.at = "execute" /\ c \in Commands
      /\ c \notin device.list /\ device.waits = 0 /\ c # Nothing
  BY DEF ExecuteFails, CommandSide, DeviceOK, DeviceState, Busy, Waiting
<1>2. /\ device' \in DeviceState /\ device'.at = "fail" /\ device'.c = c
      /\ device'.list = device.list /\ device'.waits = 0
  <2>1. ASSUME NEW x, x = [device EXCEPT !.at = "fail"]
        PROVE  /\ x \in DeviceState /\ x.at = "fail" /\ x.c = c
               /\ x.list = device.list /\ x.waits = 0
    BY <1>1, <2>1 DEF DeviceState, Busy
  <2>2. device' = [device EXCEPT !.at = "fail"]
    BY DEF ExecuteFails
  <2> QED
    BY <2>1, <2>2
<1> HIDE DEF c
<1>3. UNCHANGED <<command, due, diagnostic, requests, item, cached, done>>
  BY DEF ExecuteFails, server, local
<1>4. DeviceOK'
  BY <1>1, <1>2 DEF DeviceOK, Busy
<1>5. ServerOK' /\ RequestsOK'
  BY <1>3 DEF CommandSide, ServerOK, RequestsOK, RequestOK
<1>6. executed \in [Commands -> Nat] /\ executed[c] = 0 /\ Begun(c)
  BY <1>1 DEF CommandSide, LocalOK, ExecutedOnce, c
<1>7. executed' = [executed EXCEPT ![c] = @ + 1]
  BY DEF ExecuteFails, c
<1>8. executed' \in [Commands -> Nat] /\ \A d \in Commands : executed'[d] = IF d = c THEN 1 ELSE executed[d]
  <2>1. executed' \in [Commands -> Nat]
    <3>1. executed' = [executed EXCEPT ![c] = 1]
      BY <1>6, <1>7
    <3> QED
      BY <1>6, <3>1
  <2> QED
    BY <1>6, <1>7, <2>1
<1>9. LocalOK'
  BY <1>3, <1>8 DEF CommandSide, LocalOK
<1>10. ASSUME NEW d \in Commands
       PROVE  /\ executed'[d] <= 1
              /\ executed'[d] > 0 => Begun(d)' /\ d \notin device'.list
              /\ command'[d].status = "SUCCEEDED" => d \in done'
  <2>1. Begun(d)' = Begun(d)
    BY <1>3 DEF Begun
  <2>2. CASE d = c
    BY <1>1, <1>2, <1>3, <1>6, <1>8, <2>1, <2>2 DEF CommandSide, ExecutedOnce
  <2>3. CASE d # c
    BY <1>2, <1>3, <1>8, <2>1, <2>3 DEF CommandSide, ExecutedOnce
  <2> QED
    BY <2>2, <2>3
<1>11. ExecutedOnce'
  BY <1>2, <1>10 DEF ExecutedOnce
<1> QED
  BY <1>4, <1>5, <1>9, <1>11 DEF CommandSide

(* What expires was never taken, or was taken and not ended.               *)
LEMMA ExpireKeeps ==
    ASSUME CommandSide, command' = ExpireCommands, UNCHANGED <<due, diagnostic>>
    PROVE  /\ ServerOK' /\ \A c \in Commands : Touches(c)
           /\ \A c \in Commands : command'[c].status = "PENDING" => command[c].status = "PENDING"
<1> DEFINE late == {c \in Commands : IsExecutableExpired(c)}
<1>1. "EXPIRED" \in Statuses \ {"none"}
  BY DEF Statuses
<1>2. command' = SetStatus(late, "EXPIRED")
  BY DEF ExpireCommands
<1> HIDE DEF late
<1>3. /\ command' \in [Commands -> Command]
      /\ \A c \in Commands :
            command'[c].status = IF c \in late THEN "EXPIRED" ELSE command[c].status
      /\ due \subseteq {c \in Commands : command'[c].status # "none"}
  BY <1>1, <1>2, SetStatusIs DEF CommandSide
<1> QED
  BY <1>3 DEF Touches, ServerOK, CommandSide

LEMMA PullCommandsKeeps == ASSUME CommandSide, PullCommands PROVE CommandSide'
<1> DEFINE listed == {c \in Commands : command'[c].status = "PENDING"}
<1>1. /\ command' = ExpireCommands /\ device' = [device EXCEPT !.at = "next", !.list = listed]
      /\ UNCHANGED <<due, diagnostic, requests, item, cached, executed, done>>
  BY DEF PullCommands, local, history
<1>2. /\ ServerOK' /\ \A c \in Commands : Touches(c)
      /\ \A c \in Commands : command'[c].status = "PENDING" => command[c].status = "PENDING"
  BY <1>1, ExpireKeeps
<1>3. listed \subseteq Commands /\ \A c \in listed : command[c].status = "PENDING"
  BY <1>2
<1> HIDE DEF listed
<1>4. /\ device \in DeviceState /\ device.at = "pull" /\ device.c = Nothing /\ device.waits = 0
  BY DEF PullCommands, CommandSide, DeviceOK, Busy, Waiting
<1>5. /\ device' \in DeviceState /\ device'.at = "next" /\ device'.c = Nothing
      /\ device'.waits = 0 /\ device'.list = listed
  <2>1. ASSUME NEW x, x = [device EXCEPT !.at = "next", !.list = listed]
        PROVE  /\ x \in DeviceState /\ x.at = "next" /\ x.c = Nothing
               /\ x.waits = 0 /\ x.list = listed
    BY <1>3, <1>4, <2>1 DEF DeviceState
  <2> QED
    BY <1>1, <2>1
<1>6. DeviceOK'
  BY <1>3, <1>5, CommandsNotNothing DEF DeviceOK, Busy
<1>7. RequestsOK' /\ LocalOK'
  BY <1>1 DEF CommandSide, RequestsOK, RequestOK, LocalOK
<1>8. ASSUME NEW c \in Commands
      PROVE  /\ executed'[c] <= 1
             /\ executed'[c] > 0 => Begun(c)' /\ c \notin device'.list
             /\ command'[c].status = "SUCCEEDED" => c \in done'
  <2>1. Begun(c) => Begun(c)'
    BY <1>2 DEF Touches, Begun
  <2>2. Begun(c) => c \notin listed
    BY <1>3 DEF Begun
  <2> QED
    BY <1>1, <1>2, <1>5, <2>1, <2>2 DEF Touches, CommandSide, ExecutedOnce
<1>9. ExecutedOnce'
  BY <1>5, <1>8 DEF ExecutedOnce
<1> QED
  BY <1>2, <1>6, <1>7, <1>9 DEF CommandSide

LEMMA DeviceStepKeeps == ASSUME CommandSide, Device PROVE CommandSide'
<1>1. CASE EndRound \/ StopRunner
  BY <1>1, AtRest DEF EndRound, StopRunner
<1>2. CASE \E c \in Commands : StartNext(c)
  BY <1>2, StartNextKeeps
<1> QED
  BY <1>1, <1>2, LoadConflictsKeeps, ReportSafelyKeeps, PullCommandsKeeps, ExecuteKeeps,
     ExecuteFailsKeeps, TellOutcomeKeeps, TimeoutKeeps DEF Device

(***************************************************************************)
(* Administrators ask for commands and decide about events.                *)
(***************************************************************************)
LEMMA CommandsSame ==
    ASSUME CommandSide, UNCHANGED <<server, requests, device, local, executed, done>>
    PROVE  CommandSide'
<1>1. ServerOK' /\ RequestsOK' /\ LocalOK'
  BY DEF CommandSide, ServerOK, RequestsOK, RequestOK, LocalOK, server, local
<1>2. DeviceOK' /\ ExecutedOnce'
  BY DEF CommandSide, DeviceOK, Awaited, ExecutedOnce, Begun, server
<1> QED
  BY <1>1, <1>2 DEF CommandSide

LEMMA CenterSame ==
    ASSUME CenterSide, UNCHANGED <<event, conflict, payload, incident, job, archived>>,
           mapped' \subseteq StoredEvents, raced \subseteq raced', raced' \subseteq Commands \cup StoredEvents
    PROVE  CenterSide'
<1>1. CenterOK' /\ JobsOK'
  BY DEF CenterSide, CenterOK, JobsOK, JobOK, Holds
<1>2. EventsOK'
  BY DEF CenterSide, EventsOK, ArchivedIsNotApplied
<1> QED
  BY <1>1, <1>2 DEF CenterSide

LEMMA JobKeeps ==
    ASSUME CenterSide, UNCHANGED <<center, archived, raced>>, NEW w \in Admins, NEW j, JobOK(j),
           job' = [job EXCEPT ![w] = j]
    PROVE  CenterSide'
<1>1. CenterOK' /\ EventsOK'
  BY DEF CenterSide, CenterOK, EventsOK, ArchivedIsNotApplied, center
<1>2. job' \in [Admins -> Asking \cup Decision \cup {Nothing}]
  BY DEF CenterSide, JobsOK, JobOK
<1>3. ASSUME NEW v \in Admins PROVE JobOK(job'[v])
  <2>1. job'[v] = IF v = w THEN j ELSE job[v]
    BY DEF CenterSide, JobsOK
  <2> QED
    BY <2>1 DEF CenterSide, JobsOK
<1>4. \A v \in Admins : JobOK(job[v])'
  <2>1. UNCHANGED <<conflict, payload>>
    BY DEF center
  <2> QED
    BY <1>3, <2>1 DEF JobOK, Holds
<1> QED
  BY <1>1, <1>2, <1>4 DEF CenterSide, JobsOK

(* The classification decides what may be archived and what applied again. *)
LEMMA ArchivedOrApplied ==
    ASSUME NEW e
    PROVE  /\ CanArchive(e) /\ payload[e] \in Payloads => payload[e] \in Archivable
           /\ CanReprocess(e) => payload[e] \notin Archivable
BY
   DEF CanArchive, CanReprocess, Classify, ClassifyStockDeduction, ClassifyCashSession,
       Archivable,
       Payloads

LEMMA DecisionKeeps ==
    ASSUME IInv, NEW w \in Admins, NEW e \in StoredEvents,
           DecideArchive(w, e) \/ DecideReprocess(w, e) \/ DecideResolve(w, e)
    PROVE  IInv'
<1>1. PICK kind \in {"archive", "admin", "user"} :
        /\ Decides(w, kind, e)
        /\ kind = "archive" => conflict[e] = "OPEN" /\ CanArchive(e)
        /\ kind = "admin" => CanReprocess(e)
        /\ kind = "user" => conflict[e] = "OPEN" /\ payload[e] = "other"
  BY DEF DecideArchive, DecideReprocess, DecideResolve
<1>2. PICK j : j = [kind |-> kind, event |-> e, stale |-> FALSE]
  OBVIOUS
<1>3. j \in Decision /\ j.kind = kind /\ j.event = e
  BY <1>2 DEF Decision
<1>4. Holds(j)
  <2>1. payload[e] \in Payloads
    BY DEF IInv, CenterSide, CenterOK
  <2> QED
    BY <1>1, <1>3, <2>1, ArchivedOrApplied DEF Holds
<1>5. JobOK(j)
  BY <1>3, <1>4 DEF JobOK
<1>6. /\ job' = [job EXCEPT ![w] = j]
      /\ UNCHANGED <<server, requests, device, local, center, executed, done, archived, raced>>
  BY <1>1, <1>2 DEF Decides, history
<1> QED
  BY <1>5, <1>6, JobKeeps, CommandsSame DEF IInv

LEMMA SupportKeeps ==
    ASSUME IInv, NEW w \in Admins,
           \/ \E type \in Types : AskCommand(w, type)
           \/ FindPending(w) \/ CreateCommand(w) \/ Aborts(w)
    PROVE  IInv'
<1>1. JobOK(Nothing)
  BY DEF JobOK
<1>2. CASE Aborts(w)
  BY <1>1, <1>2, JobKeeps, CommandsSame DEF IInv, Aborts, history
<1>3. ASSUME NEW type \in Types, AskCommand(w, type) PROVE IInv'
  <2>1. PICK j : j = [kind |-> "find", type |-> type]
    OBVIOUS
  <2>2. JobOK(j)
    BY <2>1 DEF JobOK, Asking
  <2>3. /\ job' = [job EXCEPT ![w] = j] /\ command' = ExpireCommands
        /\ UNCHANGED <<due, diagnostic, requests, device, item, cached, executed, done, center,
                       archived, raced>>
    BY <1>3, <2>1 DEF AskCommand, history, local
  <2>4. CenterSide'
    BY <2>2, <2>3, JobKeeps DEF IInv
  <2>5. ServerOK' /\ \A c \in Commands : Touches(c)
    BY <2>3, ExpireKeeps DEF IInv
  <2>6. RequestsOK' /\ DeviceOK' /\ LocalOK'
    BY <2>3 DEF IInv, CommandSide, RequestsOK, RequestOK, DeviceOK, Awaited, LocalOK
  <2>7. Onwards
    BY <2>3 DEF Onwards, IInv, CommandSide, ExecutedOnce
  <2>8. ExecutedOnce'
    BY <2>3, <2>5, <2>7, ExecutedOnceKeeps DEF IInv
  <2> QED
    BY <2>4, <2>5, <2>6, <2>8 DEF IInv, CommandSide
<1>4. CASE FindPending(w)
  <2>1. job[w] \in Asking /\ job[w].kind = "find"
    BY <1>4 DEF FindPending, IInv, CenterSide, JobsOK, Decision
  <2>2. PICK next : next = [job[w] EXCEPT !.kind = "create"]
    OBVIOUS
  <2>3. JobOK(next)
    BY <2>1, <2>2 DEF JobOK, Asking
  <2>4. /\ \/ job' = [job EXCEPT ![w] = Nothing]
           \/ job' = [job EXCEPT ![w] = next]
        /\ UNCHANGED <<server, requests, device, local, center, executed, done, archived, raced>>
    BY <1>4, <2>2 DEF FindPending, history
  <2> QED
    BY <1>1, <2>3, <2>4, JobKeeps, CommandsSame DEF IInv
<1>5. CASE CreateCommand(w)
  <2>1. job[w] \in Asking /\ job[w].kind = "create"
    BY <1>5 DEF CreateCommand, IInv, CenterSide, JobsOK, Decision
  <2>2. PICK c \in Commands :
          /\ command[c].status = "none"
          /\ command' = [command EXCEPT ![c] = [type |-> job[w].type, status |-> "PENDING"]]
    BY <1>5 DEF CreateCommand
  <2>3. PICK new : new = [type |-> job[w].type, status |-> "PENDING"]
    OBVIOUS
  <2>4. new \in Command /\ new.status = "PENDING"
    BY <2>1, <2>3 DEF Asking, Command, Statuses
  <2>5. command \in [Commands -> Command] /\ command' = [command EXCEPT ![c] = new]
    BY <2>2, <2>3 DEF IInv, CommandSide, ServerOK
  <2>6. /\ command' \in [Commands -> Command]
        /\ \A d \in Commands : command'[d] = IF d = c THEN new ELSE command[d]
    BY <2>4, <2>5
  <2>7. /\ job' = [job EXCEPT ![w] = Nothing]
        /\ UNCHANGED <<due, diagnostic, requests, device, item, cached, executed, done, center,
                       archived, raced>>
    BY <1>5 DEF CreateCommand, history, local
  <2>8. CenterSide'
    BY <1>1, <2>7, JobKeeps DEF IInv
  <2>9. ServerOK' /\ \A d \in Commands : Touches(d)
    BY <2>2, <2>4, <2>6, <2>7 DEF ServerOK, Touches, IInv, CommandSide
  <2>10. RequestsOK' /\ DeviceOK' /\ LocalOK'
    BY <2>7 DEF IInv, CommandSide, RequestsOK, RequestOK, DeviceOK, Awaited, LocalOK
  <2>11. Onwards
    BY <2>7 DEF Onwards, IInv, CommandSide, ExecutedOnce
  <2>12. ExecutedOnce'
    BY <2>7, <2>9, <2>11, ExecutedOnceKeeps DEF IInv
  <2> QED
    BY <2>8, <2>9, <2>10, <2>12 DEF IInv, CommandSide
<1> QED
  BY <1>2, <1>3, <1>4, <1>5

(* The end of a decision leaves the other decisions as true as they were.  *)
LEMMA CommitsKeep ==
    ASSUME IInv, NEW w \in Admins, NEW j, j = job[w], j # Nothing, JobOK(j),
           j.kind \in {"archive", "admin", "user"}, Commits(w),
           \A e \in StoredEvents : e # j.event => conflict'[e] = conflict[e]
    PROVE  /\ CommandSide' /\ JobsOK' /\ j \in Decision /\ Holds(j)
           /\ payload' = payload /\ mapped' = mapped
           /\ raced' = IF j.stale THEN raced \cup {j.event} ELSE raced
<1>1. j \in Decision /\ Holds(j)
  BY DEF JobOK
<1>2. /\ UNCHANGED <<server, requests, device, local, payload, mapped, executed, done>>
      /\ raced' = IF j.stale THEN raced \cup {j.event} ELSE raced
  BY DEF Commits
<1>3. CommandSide'
  BY <1>2, CommandsSame DEF IInv
<1> DEFINE about(v) == /\ job[v] # Nothing /\ job[v].kind \in {"archive", "admin", "user"}
                       /\ job[v].event = j.event
           late(v) == [job[v] EXCEPT !.stale = TRUE]
<1>4. job' = [v \in Admins |-> IF v = w THEN Nothing ELSE IF about(v) THEN late(v) ELSE job[v]]
  BY DEF Commits
<1>5. \A v \in Admins : JobOK(job[v])
  BY DEF IInv, CenterSide, JobsOK
<1>6. ASSUME NEW v \in Admins, about(v)
      PROVE  \E y \in Decision : y = late(v) /\ JobOK(y)'
  <2>1. PICK x : x = job[v]
    OBVIOUS
  <2>2. /\ x \in Decision /\ Holds(x) /\ x.event = j.event
    BY <1>5, <1>6, <2>1 DEF JobOK
  <2>3. PICK y : y = [x EXCEPT !.stale = TRUE]
    OBVIOUS
  <2>4. y \in Decision /\ y.kind = x.kind /\ y.event = x.event /\ y.stale
    BY <2>2, <2>3 DEF Decision
  <2>5. Holds(y)'
    BY <1>2, <2>2, <2>4 DEF Holds
  <2> QED
    BY <2>1, <2>3, <2>4, <2>5 DEF JobOK
<1>7. ASSUME NEW v \in Admins, ~about(v)
      PROVE  \E x : x = job[v] /\ JobOK(x) /\ JobOK(x)'
  <2>1. PICK x : x = job[v]
    OBVIOUS
  <2>2. JobOK(x)
    BY <1>5, <2>1
  <2>3. JobOK(x)'
    BY <1>2, <1>7, <2>1, <2>2 DEF JobOK, Holds, Decision
  <2> QED
    BY <2>1, <2>2, <2>3
<1>8. ASSUME NEW v \in Admins, NEW x, x = job'[v]
      PROVE  x \in Asking \cup Decision \cup {Nothing} /\ JobOK(x)'
  <2> HIDE DEF about, late
  <2>1. x = IF v = w THEN Nothing ELSE IF about(v) THEN late(v) ELSE job[v]
    BY <1>4, <1>8
  <2>2. CASE v = w
    BY <2>1, <2>2 DEF JobOK
  <2>3. CASE v # w /\ about(v)
    BY <1>6, <2>1, <2>3 DEF JobOK
  <2>4. CASE v # w /\ ~about(v)
    BY <1>7, <2>1, <2>4 DEF JobOK
  <2> QED
    BY <2>2, <2>3, <2>4
<1>9. job' \in [Admins -> Asking \cup Decision \cup {Nothing}]
  <2>1. \A v \in Admins : job'[v] \in Asking \cup Decision \cup {Nothing}
    BY <1>8
  <2> HIDE DEF about, late
  <2> QED
    BY <1>4, <2>1
<1>10. \A v \in Admins : JobOK(job[v])'
  BY <1>8
<1> QED
  BY <1>1, <1>2, <1>3, <1>9, <1>10 DEF JobsOK

LEMMA CommitKeeps ==
    ASSUME IInv, NEW w \in Admins,
           ArchiveConflict(w) \/ ReprocessEvent(w) \/ ReprocessConflict(w)
    PROVE  IInv'
<1>1. PICK j : j = job[w]
  OBVIOUS
<1>2. /\ j # Nothing /\ j.kind \in {"archive", "admin", "user"} /\ JobOK(j) /\ Commits(w)
  BY <1>1
     DEF ArchiveConflict, ReprocessEvent, ReprocessConflict, Deciding, IInv, CenterSide,
              JobsOK
<1>3. j \in Decision /\ Holds(j) /\ j.event \in StoredEvents
  BY <1>2 DEF JobOK, Decision
<1>4. CenterOK /\ EventsOK
  BY DEF IInv, CenterSide
<1>5. CASE ArchiveConflict(w)
  <2>1. /\ j.kind = "archive" /\ conflict' = [conflict EXCEPT ![j.event] = "RESOLVED"]
        /\ archived' = archived \cup {j.event} /\ UNCHANGED <<event, incident>>
    BY <1>1, <1>5 DEF ArchiveConflict, Deciding
  <2>2. \A e \in StoredEvents : conflict'[e] = IF e = j.event THEN "RESOLVED" ELSE conflict[e]
    BY <1>3, <1>4, <2>1 DEF CenterOK
  <2>3. /\ CommandSide' /\ JobsOK' /\ payload' = payload /\ mapped' = mapped
        /\ raced' = IF j.stale THEN raced \cup {j.event} ELSE raced
    BY <1>1, <1>2, <2>2, CommitsKeep
  <2>4. CenterOK'
    BY <1>3, <1>4, <2>1, <2>3 DEF CenterOK
  <2>5. payload[j.event] \in Archivable /\ (~j.stale => conflict[j.event] = "OPEN")
    BY <1>3, <2>1 DEF Holds
  <2>6. ArchivedIsNotApplied'
    <3>1. ASSUME NEW e \in archived' \ raced' PROVE event'[e] \notin {"ACCEPTED", "DUPLICATE"}
      <4>1. CASE e = j.event
        <5>1. conflict[e] = "OPEN" /\ payload[e] \in Archivable
          BY <2>3, <2>5, <3>1, <4>1
        <5> QED
          BY <1>3, <1>4, <2>1, <4>1, <5>1 DEF EventsOK
      <4>2. CASE e # j.event
        <5>1. e \in archived \ raced
          BY <2>1, <2>3, <3>1, <4>2
        <5> QED
          BY <1>4, <2>1, <5>1 DEF EventsOK, ArchivedIsNotApplied
      <4> QED
        BY <4>1, <4>2
    <3> QED
      BY <3>1 DEF ArchivedIsNotApplied
  <2>7. EventsOK'
    <3>1. archived \subseteq StoredEvents
      BY <1>4 DEF CenterOK
    <3> QED
      BY <1>3, <1>4, <2>1, <2>2, <2>3, <2>5, <2>6, <3>1 DEF EventsOK
  <2> QED
    BY <2>3, <2>4, <2>7 DEF IInv, CenterSide
<1>6. CASE ReprocessEvent(w)
  <2>1. PICK outcome \in {"ACCEPTED", "DUPLICATE", "CONFLICT", "REJECTED"} :
          /\ event' = [event EXCEPT ![j.event] = outcome]
          /\ conflict' = IF outcome = "CONFLICT"
                         THEN [conflict EXCEPT ![j.event] = "OPEN"] ELSE conflict
    BY <1>1, <1>6 DEF ReprocessEvent
  <2>2. j.kind = "admin" /\ UNCHANGED <<incident, archived>>
    BY <1>1, <1>6 DEF ReprocessEvent, Deciding
  <2>3. \A e \in StoredEvents : event'[e] = IF e = j.event THEN outcome ELSE event[e]
    BY <1>3, <1>4, <2>1 DEF CenterOK
  <2>4. \A e \in StoredEvents : conflict'[e] = IF e = j.event /\ outcome = "CONFLICT" THEN "OPEN"
                                         ELSE conflict[e]
    BY <1>3, <1>4, <2>1 DEF CenterOK
  <2>5. /\ CommandSide' /\ JobsOK' /\ payload' = payload /\ mapped' = mapped
        /\ raced' = IF j.stale THEN raced \cup {j.event} ELSE raced
    BY <1>1, <1>2, <2>4, CommitsKeep
  <2>6. CenterOK'
    BY <1>3, <1>4, <2>1, <2>2, <2>5 DEF CenterOK, EventStatuses
  <2>7. payload[j.event] \notin Archivable /\ j.event \notin archived
    BY <1>3, <1>4, <2>2 DEF Holds, EventsOK
  <2>8. archived \subseteq StoredEvents /\ raced \subseteq raced'
    BY <1>4, <2>5 DEF CenterOK
  <2>9. ArchivedIsNotApplied'
    BY <1>4, <2>2, <2>3, <2>7, <2>8 DEF EventsOK, ArchivedIsNotApplied
  <2>10. EventsOK'
    BY <1>4, <2>2, <2>3, <2>4, <2>5, <2>7, <2>8, <2>9 DEF EventsOK
  <2> QED
    BY <2>5, <2>6, <2>10 DEF IInv, CenterSide
<1>7. CASE ReprocessConflict(w) /\ UNCHANGED <<event, conflict>>
  <2>1. UNCHANGED <<event, conflict, incident, archived>>
    BY <1>7 DEF ReprocessConflict
  <2>2. /\ CommandSide' /\ JobsOK' /\ payload' = payload /\ mapped' = mapped
        /\ raced' = IF j.stale THEN raced \cup {j.event} ELSE raced
    BY <1>1, <1>2, <2>1, CommitsKeep
  <2>3. CenterOK'
    BY <1>3, <1>4, <2>1, <2>2 DEF CenterOK
  <2>4. EventsOK'
    BY <1>4, <2>1, <2>2 DEF EventsOK, ArchivedIsNotApplied
  <2> QED
    BY <2>2, <2>3, <2>4 DEF IInv, CenterSide
<1>8. CASE ReprocessConflict(w) /\ ~UNCHANGED <<event, conflict>>
  <2>1. PICK outcome \in {"ACCEPTED", "DUPLICATE"} :
          /\ event' = [event EXCEPT ![j.event] = outcome]
          /\ conflict' = [conflict EXCEPT ![j.event] = "RESOLVED"]
    BY <1>1, <1>8 DEF ReprocessConflict
  <2>2. j.kind = "user" /\ UNCHANGED <<incident, archived>>
    BY <1>1, <1>8 DEF ReprocessConflict, Deciding
  <2>3. \A e \in StoredEvents : event'[e] = IF e = j.event THEN outcome ELSE event[e]
    BY <1>3, <1>4, <2>1 DEF CenterOK
  <2>4. \A e \in StoredEvents : conflict'[e] = IF e = j.event THEN "RESOLVED" ELSE conflict[e]
    BY <1>3, <1>4, <2>1 DEF CenterOK
  <2>5. /\ CommandSide' /\ JobsOK' /\ payload' = payload /\ mapped' = mapped
        /\ raced' = IF j.stale THEN raced \cup {j.event} ELSE raced
    BY <1>1, <1>2, <2>4, CommitsKeep
  <2>6. CenterOK'
    BY <1>3, <1>4, <2>1, <2>2, <2>5 DEF CenterOK, EventStatuses
  <2>7. ~j.stale => conflict[j.event] = "OPEN" /\ j.event \notin archived
    BY <1>3, <1>4, <2>2 DEF Holds, EventsOK
  <2>8. archived \subseteq StoredEvents /\ raced \subseteq raced'
    BY <1>4, <2>5 DEF CenterOK
  <2>9. ArchivedIsNotApplied'
    BY <1>4, <2>2, <2>3, <2>5, <2>7, <2>8 DEF EventsOK, ArchivedIsNotApplied
  <2>10. EventsOK'
    BY <1>4, <2>2, <2>3, <2>4, <2>5, <2>8, <2>9 DEF EventsOK
  <2> QED
    BY <2>5, <2>6, <2>10 DEF IInv, CenterSide
<1> QED
  BY <1>5, <1>6, <1>7, <1>8

(***************************************************************************)
(* The invariant.                                                          *)
(***************************************************************************)
LEMMA Initially == SupportInit => IInv
<1> SUFFICES ASSUME SupportInit PROVE IInv
  OBVIOUS
<1>1. ServerOK
  BY DEF SupportInit, ServerOK, Command, Statuses
<1>2. RequestsOK
  BY FS_EmptySet DEF SupportInit, RequestsOK
<1>3. /\ device = Idle /\ Idle \in DeviceState /\ Idle.at = "idle" /\ Idle.list = {}
      /\ Idle.c = Nothing /\ Idle.waits = 0
  BY DEF SupportInit, Idle, DeviceState
<1>4. DeviceOK
  BY <1>3 DEF DeviceOK, Busy
<1>5. LocalOK
  BY DEF SupportInit, LocalOK, Item
<1>6. ExecutedOnce
  BY <1>3 DEF SupportInit, ExecutedOnce
<1>7. CenterOK
  BY DEF SupportInit, CenterOK, EventStatuses
<1>8. JobsOK
  BY DEF SupportInit, JobsOK, JobOK
<1>9. EventsOK
  BY DEF SupportInit, EventsOK, ArchivedIsNotApplied
<1> QED
  BY <1>1, <1>2, <1>4, <1>5, <1>6, <1>7, <1>8, <1>9 DEF IInv, CommandSide, CenterSide

LEMMA Inductive == IInv /\ [SupportNext]_supportVars => IInv'
<1> SUFFICES ASSUME IInv, [SupportNext]_supportVars PROVE IInv'
  OBVIOUS
<1>1. CASE \E r \in requests : ServeRequest(r)
  <2>1. PICK r \in requests : ServeRequest(r)
    BY <1>1
  <2>2. CommandSide'
    BY <2>1, ServeKeeps DEF IInv
  <2>3. r \in Request /\ RequestOK(r)
    BY DEF IInv, CommandSide, RequestsOK
  <2>4. Untouched /\ (raced' = raced \/ \E outcome : Overwrite(r, outcome) /\ r.phase # "read")
    BY <2>1
       DEF ServeRequest, ReportDiagnostic, ReadStart, TakeStart, AnswerStart, MarkExpired,
                ReadOutcome, CompleteCommand, FailCommand
  <2>5. raced \subseteq raced' /\ raced' \subseteq Commands \cup StoredEvents
    BY <2>3, <2>4 DEF Overwrite, RequestOK, IInv, CenterSide, CenterOK
  <2>6. CenterSide'
    BY <2>4, <2>5, CenterSame DEF IInv, CenterSide, CenterOK, Untouched, center
  <2> QED
    BY <2>2, <2>6 DEF IInv
<1>2. CASE Device
  <2>1. UNCHANGED <<center, job, archived, raced>>
    BY <1>2 DEF Device, LoadConflicts, ReportSafely, PullCommands, Execute, ExecuteFails,
                TellOutcome, GiveUp, EndRound, StopRunner, StartNext, history
  <2>2. CenterSide'
    BY <2>1, CenterSame DEF IInv, CenterSide, CenterOK, center
  <2> QED
    BY <1>2, <2>2, DeviceStepKeeps DEF IInv
<1>3. CASE Support
  BY <1>3, SupportKeeps, DecisionKeeps, CommitKeeps DEF Support
<1>4. ASSUME NEW c \in Commands, Deadline(c) PROVE IInv'
  <2>1. /\ due' = due \cup {c} /\ Executable(c)
        /\ UNCHANGED <<command, diagnostic, requests, device, item, cached, executed, done,
                       center, job, archived, raced>>
    BY <1>4 DEF Deadline, local, history
  <2>2. CenterSide'
    BY <2>1, CenterSame DEF IInv, CenterSide, CenterOK, center
  <2>3. ServerOK' /\ RequestsOK' /\ LocalOK'
    BY <2>1 DEF IInv, CommandSide, ServerOK, RequestsOK, RequestOK, LocalOK, Executable
  <2>4. DeviceOK' /\ ExecutedOnce'
    BY <2>1 DEF IInv, CommandSide, DeviceOK, Awaited, ExecutedOnce, Begun
  <2> QED
    BY <2>2, <2>3, <2>4 DEF IInv, CommandSide
<1>5. ASSUME NEW e \in StoredEvents, MapProduct(e) PROVE IInv'
  <2>1. /\ mapped' \in {mapped \ {e}, mapped \cup {e}}
        /\ UNCHANGED <<server, requests, device, local, event, conflict, payload, incident, job,
                       executed, done, archived, raced>>
    BY <1>5 DEF MapProduct, history
  <2>2. CenterSide'
    BY <2>1, CenterSame DEF IInv, CenterSide, CenterOK
  <2> QED
    BY <2>1, <2>2, CommandsSame DEF IInv
<1>6. CASE UNCHANGED supportVars
  <2>1. UNCHANGED <<server, requests, device, local, center, job, executed, done, archived, raced>>
    BY <1>6 DEF supportVars, history
  <2> QED
    BY <2>1, CommandsSame, CenterSame DEF IInv, CenterSide, CenterOK, center
<1> QED
  BY <1>1, <1>2, <1>3, <1>4, <1>5, <1>6 DEF SupportNext

LEMMA Invariantly == SupportSpec => []IInv
BY Initially, Inductive, PTL DEF SupportSpec

(* No command is executed twice, one that waits was never executed, and     *)
(* one that succeeded was, whatever is answered late or asked again:        *)
(* startCommand, completeCommand and the runner of the device.              *)
THEOREM StatusesAreTrue == SupportSpec => []StatusIsTrue
<1>1. IInv => StatusIsTrue
  <2> SUFFICES ASSUME IInv PROVE StatusIsTrue
    OBVIOUS
  <2>1. ASSUME NEW c \in Commands
        PROVE  /\ executed[c] <= 1
               /\ command[c].status = "PENDING" => executed[c] = 0
               /\ command[c].status = "SUCCEEDED" => c \in done
    <3>1. executed[c] \in Nat /\ (executed[c] > 0 => Begun(c))
      BY DEF IInv, CommandSide, LocalOK, ExecutedOnce
    <3> QED
      BY <3>1 DEF IInv, CommandSide, ExecutedOnce, Begun
  <2> QED
    BY <2>1, TypedIsTypeOK DEF StatusIsTrue
<1> QED
  BY <1>1, Invariantly, PTL

(* A change that an administrator put away is not applied after that, but   *)
(* by a request that had started before: the classification of the sync     *)
(* center lets no event be archived that it lets be reprocessed.            *)
THEOREM ArchivedStaysOut == SupportSpec => []ArchivedIsNotApplied
<1>1. IInv => ArchivedIsNotApplied
  BY DEF IInv, CenterSide, EventsOK
<1> QED
  BY <1>1, Invariantly, PTL

LEMMA NoneIsZero ==
    ASSUME NEW S, S \subseteq StoredEvents
    PROVE  Cardinality(S) \in Nat /\ (Cardinality(S) = 0 <=> S = {})
<1>1. IsFiniteSet(S)
  BY SupportAssumption, FS_Subset
<1> QED
  BY <1>1, FS_CardinalityType, FS_EmptySet

(* A company that the health page shows as synced, or whose owner is shown  *)
(* no attention, has no change left behind that nobody looked at; when the  *)
(* sync center shows it as in conflict all the same, something was          *)
(* archived: the three classifications of the status.                       *)
THEOREM SyncedIsReviewed == SupportSpec => []SyncedMeansReviewed
<1>1. IInv => SyncedMeansReviewed
  <2> SUFFICES ASSUME IInv PROVE SyncedMeansReviewed
    OBVIOUS
  <2> DEFINE failed == {e \in StoredEvents : event[e] = "FAILED"}
             rejected == {e \in StoredEvents : event[e] = "REJECTED"}
             conflicting == {e \in StoredEvents : event[e] = "CONFLICT"}
             open == {e \in StoredEvents : conflict[e] = "OPEN"}
  <2>1. /\ Count("FAILED") = Cardinality(failed) /\ Count("CONFLICT") = Cardinality(conflicting)
        /\ Count("REJECTED") = Cardinality(rejected) /\ OpenConflicts = Cardinality(open)
    BY DEF Count, OpenConflicts
  <2>2. /\ failed \subseteq StoredEvents /\ conflicting \subseteq StoredEvents /\ open \subseteq StoredEvents
        /\ rejected \subseteq StoredEvents
    OBVIOUS
  <2> HIDE DEF failed, rejected, conflicting, open
  <2>3. /\ Count("FAILED") \in Nat /\ (Count("FAILED") = 0 <=> failed = {})
        /\ Count("CONFLICT") \in Nat /\ (Count("CONFLICT") = 0 <=> conflicting = {})
        /\ Count("REJECTED") \in Nat /\ (Count("REJECTED") = 0 <=> rejected = {})
        /\ OpenConflicts \in Nat /\ (OpenConflicts = 0 <=> open = {})
    BY <2>1, <2>2, NoneIsZero
  <2>4. ASSUME failed = {}, open = {}
        PROVE  \A e \in StoredEvents : event[e] \in {"FAILED", "CONFLICT"} => e \in archived
    BY <2>4 DEF IInv, CenterSide, EventsOK, failed, open
  <2>5. ASSUME Health = "synced"
        PROVE  /\ \A e \in StoredEvents : event[e] \in {"FAILED", "CONFLICT"} => e \in archived
               /\ CompanySyncStatus = "conflict" => archived # {}
    <3>1. ~(Count("FAILED") > 0) /\ ~(OpenConflicts > 0)
      BY <2>3, <2>5 DEF Health, ClassifyHealth
    <3>2. Count("FAILED") = 0 /\ OpenConflicts = 0
      BY <2>3, <3>1
    <3>3. \A e \in StoredEvents : event[e] \in {"FAILED", "CONFLICT"} => e \in archived
      BY <2>3, <2>4, <3>2
    <3>4. ASSUME CompanySyncStatus = "conflict" PROVE archived # {}
      <4>1. OpenConflicts + Count("CONFLICT") > 0
        BY <2>3, <3>2, <3>4 DEF CompanySyncStatus, ClassifyCompanySyncStatus
      <4>2. Count("CONFLICT") # 0
        BY <2>3, <3>2, <4>1
      <4>3. conflicting # {}
        BY <2>3, <4>2
      <4> QED
        BY <3>3, <4>3 DEF conflicting
    <3> QED
      BY <3>3, <3>4
  <2>6. ASSUME OwnerSyncStatus # "attention"
        PROVE  /\ \A e \in StoredEvents : event[e] \in {"FAILED", "REJECTED", "CONFLICT"} => e \in archived
               /\ Health = IF incident = "error" THEN "error" ELSE "synced"
    <3>1. ~(Count("FAILED") + Count("REJECTED") + OpenConflicts > 0)
      BY <2>6 DEF OwnerSyncStatus, ClassifyOwnerStatus
    <3>2. Count("FAILED") = 0 /\ Count("REJECTED") = 0 /\ OpenConflicts = 0
      BY <2>3, <3>1
    <3>3. \A e \in StoredEvents : event[e] # "REJECTED"
      BY <2>3, <3>2 DEF rejected
    <3>4. Health = IF incident = "error" THEN "error" ELSE "synced"
      BY <3>2 DEF Health, ClassifyHealth
    <3> QED
      BY <2>3, <2>4, <3>2, <3>3, <3>4
  <2> QED
    BY <2>5, <2>6 DEF SyncedMeansReviewed
<1> QED
  BY <1>1, Invariantly, PTL

(* What writes the status of a command that has ended saw it before then.  *)
LEMMA StatusStays ==
    ASSUME IInv, [SupportNext]_supportVars, NEW c \in Commands, command[c].status \in Ended,
           command'[c].status # command[c].status
    PROVE  c \in raced'
<1>1. command' # command
  OBVIOUS
<1>2. \A outcome \in Statuses \ {"none"} : \A cs :
         command' = SetStatus(cs, outcome) => c \in cs
  BY SetStatusIs DEF IInv, CommandSide
<1>3. command' # ExpireCommands
  <2>1. ASSUME command' = ExpireCommands PROVE FALSE
    <3>1. "EXPIRED" \in Statuses \ {"none"}
      BY DEF Statuses
    <3>2. c \in {d \in Commands : IsExecutableExpired(d)}
      BY <1>2, <2>1, <3>1 DEF ExpireCommands
    <3> QED
      BY <3>2 DEF IsExecutableExpired, Executable, Ended
  <2> QED
    BY <2>1
<1>4. ASSUME NEW r \in requests, ServeRequest(r) PROVE c \in raced'
  <2>1. r \in Request /\ RequestOK(r)
    BY DEF IInv, CommandSide, RequestsOK
  <2>2. CASE TakeStart(r)
    <3>1. command' = SetStatus({r.c}, "RUNNING") /\ command[r.c].status = "PENDING"
      BY <1>1, <2>2 DEF TakeStart
    <3>2. "RUNNING" \in Statuses \ {"none"}
      BY DEF Statuses
    <3>3. c = r.c
      BY <1>2, <3>1, <3>2
    <3> QED
      BY <3>1, <3>3 DEF Ended
  <2>3. CASE \E outcome \in Ended : Overwrite(r, outcome) /\ r.phase \in {"expire", "write"}
    <3>1. PICK outcome \in Ended : Overwrite(r, outcome) /\ r.phase \in {"expire", "write"}
      BY <2>3
    <3>2. outcome \in Statuses \ {"none"} /\ command' = SetStatus({r.c}, outcome)
      BY <3>1 DEF Ended, Statuses, Overwrite
    <3>3. c = r.c
      BY <1>2, <3>2
    <3>4. r.seen \in {"PENDING", "RUNNING"}
      BY <2>1, <3>1 DEF RequestOK
    <3> QED
      BY <3>1, <3>3, <3>4 DEF Overwrite, Ended
  <2> QED
    BY <1>1, <1>4, <2>2, <2>3
       DEF ServeRequest, ReportDiagnostic, ReadStart, AnswerStart, MarkExpired,
                ReadOutcome, CompleteCommand, FailCommand, Ended
<1>5. ASSUME Device PROVE FALSE
  BY <1>1, <1>3, <1>5 DEF Device, LoadConflicts, ReportSafely, PullCommands, Execute,
     ExecuteFails, TellOutcome, GiveUp, EndRound, StopRunner, StartNext, server
<1>6. ASSUME NEW w \in Admins, CreateCommand(w) PROVE FALSE
  <2>1. PICK d \in Commands : /\ command[d].status = "none"
                               /\ \E new : command' = [command EXCEPT ![d] = new]
    BY <1>6 DEF CreateCommand
  <2>2. c # d
    BY <2>1 DEF Ended
  <2>3. command'[c] = command[c]
    BY <2>1, <2>2 DEF IInv, CommandSide, ServerOK
  <2> QED
    BY <2>3
<1>7. ASSUME Support PROVE FALSE
  BY <1>1, <1>3, <1>6, <1>7 DEF Support, AskCommand, FindPending, Aborts, DecideArchive,
     DecideReprocess, DecideResolve, Decides, ArchiveConflict, ReprocessEvent,
     ReprocessConflict,
     Commits, server
<1>8. ASSUME \/ UNCHANGED supportVars
             \/ \E d \in Commands : Deadline(d)
             \/ \E e \in StoredEvents : MapProduct(e)
      PROVE  FALSE
  BY <1>1, <1>8 DEF Deadline, MapProduct, supportVars, server
<1> QED
  BY <1>4, <1>5, <1>7, <1>8 DEF SupportNext

(* The outcome of a command stays, but for one that a request had read as   *)
(* pending or running before: the updates of completeCommand, failCommand   *)
(* and markExpired, which do not look at the status again.                  *)
THEOREM OutcomesStay == SupportSpec => EndedStays
<1> DEFINE Stays == \A c \in Commands :
                       command[c].status \in Ended /\ command'[c].status # command[c].status
                           => c \in raced'
<1>1. IInv /\ [SupportNext]_supportVars => Stays
  BY StatusStays
<1> HIDE DEF Stays
<1>2. IInv /\ [SupportNext]_supportVars => [Stays]_supportVars
  BY <1>1
<1>3. SupportSpec => [][Stays]_supportVars
  BY <1>2, Invariantly, PTL DEF SupportSpec
<1> USE DEF Stays
<1> QED
  BY <1>3 DEF EndedStays
==============================================================================

------------------------------ MODULE AccessProofs ------------------------------
(***************************************************************************)
(* The limits of the plan, the end of an old password and the token a       *)
(* client keeps, for any employees, clients, requests and sessions.         *)
(*                                                                          *)
(* No row is locked between the count and the write, so the limits are kept *)
(* by counting who is in together with who was let in and is yet to come.   *)
(* The sessions of a client are bounded by counting, for every set of its   *)
(* logins that have listed what they will revoke, what none of them listed. *)
(***************************************************************************)
EXTENDS Access, FiniteSetTheorems, TLAPS

(***************************************************************************)
(* What a row, a token and a request name.                                 *)
(***************************************************************************)
LoggingIn(v) == job[v] # Nothing /\ job[v].kind = "login"
Refreshing(v) == job[v] # Nothing /\ job[v].kind = "refresh"
Resetting(v, phases) == job[v] # Nothing /\ job[v].kind = "reset" /\ job[v].phase \in phases
Answered(v) == job[v] # Nothing /\ job[v].phase = "answer" /\ job[v].kind \in {"login", "refresh"}

Names(t, c) == session[t.session].status # "none" /\ session[t.session].client = c

RequestOK(j) ==
    /\ j.kind \in {"login", "refresh"} <=> j.client # Nothing
    /\ j.kind = "refresh" => j.token \in Token /\ Names(j.token, j.client)
    /\ j.kind = "login" /\ j.phase = "answer" => j.token \in Token /\ Names(j.token, j.client)
    /\ j.kind \in {"admit", "password", "block", "reactivate"} => j.user \in Employees
    /\ \A s \in j.list : session[s].status # "none"

References ==
    /\ \A s \in Sessions : session[s].status # "none" =>
          session[s].client # Nothing /\ session[s].user # Nothing
    /\ \A c \in Clients : app[c] # Nothing => Names(app[c], c)
    /\ \A v \in Workers : job[v] # Nothing => RequestOK(job[v])
    /\ \A u \in Users : account[u].mustChange => account[u].status # "NONE"

(***************************************************************************)
(* The limits.                                                             *)
(***************************************************************************)
Admitting == {v \in Workers : job[v] # Nothing /\ job[v].phase = "create" /\ job[v].admitted}
Admitted == ActiveDevices \cup {job[v].client : v \in Admitting}

Inviting == {v \in Workers : job[v] # Nothing /\ job[v].kind \in {"admit", "password"}}
Welcome == Counted \cup {job[v].user : v \in Inviting}

\* The sessions of a client that are live, or that a refresh under way brings back to life.
Renewed(s) == \E v \in Workers : /\ Refreshing(v) /\ job[v].phase \in {"device", "rotate"}
                                 /\ job[v].token.session = s
Usable(c) == {s \in Sessions : /\ session[s].client = c
                               /\ \/ session[s].status = "live"
                                  \/ session[s].status = "expired" /\ Renewed(s)}
Replacing(c) == {v \in Workers : LoggingIn(v) /\ job[v].phase = "revoke" /\ job[v].client = c}
Listed(E) == UNION {job[v].list : v \in E}

DevicesFit == Cardinality(Admitted) + 1 <= MaxDevices + Cardinality(Workers)
EmployeesFit == Cardinality(Welcome) + 1 <= MaxEmployees + Cardinality(Workers) + reactivated
SessionsFit(c) ==
    \A E \in SUBSET Replacing(c) :
        Cardinality(Usable(c) \ Listed(E)) + Cardinality(E) <= Cardinality(Workers)

Limits == DevicesFit /\ EmployeesFit /\ \A c \in Clients : SessionsFit(c)

(***************************************************************************)
(* Passwords: the sessions that an older one than p opened, but for those  *)
(* of a login that a reset found under way.                                *)
(***************************************************************************)
Old(u, p) == {s \in NotRevoked(u) : session[s].proof < p /\ ~session[s].raced}

LoginProves(j) ==
    /\ j.proof <= account[j.user].password
    /\ j.proof < closed[j.user] => j.raced

ResetProves(j) ==
    /\ j.proof <= account[j.user].password
    /\ j.phase = "revoke" =>
          /\ Old(j.user, j.proof) \subseteq j.list
          /\ \A v \in Workers : LoggingIn(v) /\ job[v].user = j.user /\ job[v].proof < j.proof =>
                job[v].raced

Passwords ==
    /\ \A u \in Users : closed[u] <= account[u].password /\ Old(u, closed[u]) = {}
    /\ \A v \in Workers : LoggingIn(v) => LoginProves(job[v])
    /\ \A v \in Workers : Resetting(v, {"list", "revoke"}) => ResetProves(job[v])

(***************************************************************************)
(* Tokens.                                                                 *)
(***************************************************************************)
Current(t) == \/ session[t.session].number = t.number
              \/ session[t.session].status = "revoked"

\* The token of a login that is about to be answered is known to nobody else.
Unshared(v) ==
    LET s == job[v].token.session IN
    /\ session[s].number = job[v].token.number
    /\ \A c \in Clients : app[c] # Nothing => app[c].session # s
    /\ \A x \in Workers \ {v} :
          Refreshing(x) \/ (LoggingIn(x) /\ Answered(x)) => job[x].token.session # s

Alone(c) ==
    /\ \A v, x \in OfClient(c) : v = x
    /\ \A v \in OfClient(c) : Refreshing(v) /\ Answered(v) => Current(job[v].token)
    /\ (\A v \in OfClient(c) : ~Refreshing(v)) /\ app[c] # Nothing => Current(app[c])

Tokens ==
    /\ \A v \in Workers : LoggingIn(v) /\ Answered(v) => Unshared(v)
    /\ \A c \in Clients : ~overlapped[c] => Alone(c)

IInv == TypeOK /\ References /\ Limits /\ Passwords /\ Tokens

(***************************************************************************)
(* How the request of one worker changes.                                  *)
(***************************************************************************)
Turn(w, j) ==
    /\ job' \in [Workers -> Job \cup {Nothing}]
    /\ job'[w] = j /\ \A v \in Workers \ {w} : job'[v] = job[v]

LEMMA GoesTurns ==
    ASSUME TypeOK, NEW w \in Workers, NEW j \in Job \cup {Nothing}, Goes(w, j)
    PROVE  Turn(w, j)
BY DEF TypeOK, Goes, Turn

LEMMA EndsTurns == ASSUME TypeOK, NEW w \in Workers, Ends(w) PROVE Turn(w, Nothing)
BY GoesTurns DEF Ends

\* All but the phase of a request.
Rest(x, j) ==
    /\ x.kind = j.kind /\ x.user = j.user /\ x.client = j.client /\ x.token = j.token
    /\ x.list = j.list /\ x.proof = j.proof /\ x.admitted = j.admitted /\ x.raced = j.raced

LEMMA PhaseOnly ==
    ASSUME TypeOK, NEW w \in Workers, job[w] # Nothing, NEW phase \in Phases,
           Goes(w, [job[w] EXCEPT !.phase = phase])
    PROVE  \E x \in Job : Turn(w, x) /\ x.phase = phase /\ Rest(x, job[w])
<1>1. job[w] \in Job
  BY DEF TypeOK
<1>2. PICK x : x = [job[w] EXCEPT !.phase = phase]
  OBVIOUS
<1>3. x \in Job /\ x.phase = phase /\ Rest(x, job[w])
  BY <1>1, <1>2 DEF Job, Rest
<1>4. Goes(w, x)
  BY <1>2
<1> QED
  BY <1>3, <1>4, GoesTurns

LEMMA NewJobIs ==
    ASSUME NEW kind \in RequestKinds, NEW phase \in Phases, NEW u \in Users, NEW x,
           x = NewJob(kind, phase, u)
    PROVE  /\ x \in Job /\ x.kind = kind /\ x.phase = phase /\ x.user = u
           /\ x.client = Nothing /\ x.token = Nothing /\ x.list = {} /\ x.proof = 0
           /\ ~x.admitted /\ ~x.raced
BY DEF NewJob, Job

(***************************************************************************)
(* Counting.                                                               *)
(***************************************************************************)
LEMMA Counts ==
    /\ IsFiniteSet(Workers) /\ Cardinality(Workers) \in Nat \ {0}
    /\ IsFiniteSet(Clients) /\ IsFiniteSet(Employees) /\ IsFiniteSet(Sessions)
<1>1. IsFiniteSet(Workers) /\ Cardinality(Workers) \in Nat
  BY AccessAssumption, FS_CardinalityType
<1>2. Cardinality(Workers) # 0
  BY AccessAssumption, FS_EmptySet
<1>3. IsFiniteSet(Sessions)
  <2>1. 1 \in Int /\ MaxSessions \in Int
    BY AccessAssumption
  <2> QED
    BY <2>1, FS_Interval DEF Sessions
<1> QED
  BY <1>1, <1>2, <1>3, AccessAssumption

LEMMA Fewer ==
    ASSUME NEW S, NEW T, IsFiniteSet(T), S \subseteq T
    PROVE  /\ IsFiniteSet(S) /\ Cardinality(S) \in Nat /\ Cardinality(T) \in Nat
           /\ Cardinality(S) <= Cardinality(T)
BY FS_Subset, FS_CardinalityType

LEMMA AtMostSum ==
    ASSUME NEW S, NEW T, IsFiniteSet(S), IsFiniteSet(T)
    PROVE  /\ IsFiniteSet(S \cup T) /\ Cardinality(S \cup T) \in Nat
           /\ Cardinality(S) \in Nat /\ Cardinality(T) \in Nat
           /\ Cardinality(S \cup T) <= Cardinality(S) + Cardinality(T)
<1>1. /\ IsFiniteSet(S \cup T) /\ IsFiniteSet(S \cap T)
      /\ Cardinality(S \cup T) = Cardinality(S) + Cardinality(T) - Cardinality(S \cap T)
  BY FS_Union, FS_Intersection
<1>2. /\ Cardinality(S \cup T) \in Nat /\ Cardinality(S \cap T) \in Nat
      /\ Cardinality(S) \in Nat /\ Cardinality(T) \in Nat
  BY <1>1, FS_CardinalityType
<1> QED
  BY <1>1, <1>2

\* What some workers bring along is at most one thing for each worker.
LEMMA BroughtAlong ==
    ASSUME NEW A, IsFiniteSet(A), NEW V \in SUBSET Workers, NEW f, f = [v \in V |-> f[v]]
    PROVE  /\ IsFiniteSet({f[v] : v \in V})
           /\ Cardinality(A \cup {f[v] : v \in V}) <= Cardinality(A) + Cardinality(Workers)
<1> DEFINE T == {f[v] : v \in V}
<1>1. IsFiniteSet(V) /\ Cardinality(V) <= Cardinality(Workers) /\ Cardinality(V) \in Nat
  BY Fewer, Counts
<1>2. f \in Surjection(V, T)
  BY DEF Surjection
<1> HIDE DEF T
<1>3. IsFiniteSet(T) /\ Cardinality(T) <= Cardinality(V)
  BY <1>1, <1>2, FS_Surjection
<1>4. /\ Cardinality(A \cup T) \in Nat /\ Cardinality(A) \in Nat /\ Cardinality(T) \in Nat
      /\ Cardinality(A \cup T) <= Cardinality(A) + Cardinality(T)
  BY <1>3, AtMostSum
<1>5. Cardinality(Workers) \in Nat
  BY Counts
<1>6. Cardinality(A \cup T) <= Cardinality(A) + Cardinality(Workers)
  BY <1>1, <1>3, <1>4, <1>5
<1> QED
  BY <1>3, <1>6 DEF T

LEMMA WhatIsCounted ==
    ASSUME TypeOK
    PROVE  /\ IsFiniteSet(Admitted) /\ IsFiniteSet(Welcome)
           /\ \A c \in Clients : IsFiniteSet(Usable(c)) /\ Replacing(c) \subseteq Workers
<1>1. Admitted \subseteq Clients \cup {Nothing}
  BY DEF Admitted, ActiveDevices, Admitting, TypeOK, Job
<1>2. Welcome \subseteq Employees \cup {Owner}
  BY DEF Welcome, Counted, Inviting, TypeOK, Job, Users
<1>3. IsFiniteSet(Clients \cup {Nothing}) /\ IsFiniteSet(Employees \cup {Owner})
  BY Counts, FS_AddElement
<1>4. \A c \in Clients : Usable(c) \subseteq Sessions /\ Replacing(c) \subseteq Workers
  BY DEF Usable, Replacing
<1> QED
  BY <1>1, <1>2, <1>3, <1>4, Counts, Fewer

(***************************************************************************)
(* The limits go on to hold when nobody new is let in.                     *)
(***************************************************************************)
LEMMA DevicesKeep ==
    ASSUME TypeOK, DevicesFit, Admitted' \subseteq Admitted
    PROVE  DevicesFit'
<1>1. /\ Cardinality(Admitted') \in Nat /\ Cardinality(Admitted) \in Nat
      /\ Cardinality(Admitted') <= Cardinality(Admitted)
  BY WhatIsCounted, Fewer
<1>2. MaxDevices \in Nat /\ Cardinality(Workers) \in Nat
  BY Counts, AccessAssumption
<1> QED
  BY <1>1, <1>2 DEF DevicesFit

LEMMA EmployeesKeep ==
    ASSUME TypeOK, EmployeesFit, Welcome' \subseteq Welcome, reactivated' = reactivated
    PROVE  EmployeesFit'
<1>1. /\ Cardinality(Welcome') \in Nat /\ Cardinality(Welcome) \in Nat
      /\ Cardinality(Welcome') <= Cardinality(Welcome)
  BY WhatIsCounted, Fewer
<1>2. MaxEmployees \in Nat /\ Cardinality(Workers) \in Nat /\ reactivated \in Nat
  BY Counts, AccessAssumption DEF TypeOK
<1> QED
  BY <1>1, <1>2 DEF EmployeesFit

LEMMA SessionsKeep ==
    ASSUME TypeOK, NEW c \in Clients, SessionsFit(c),
           Usable(c)' \subseteq Usable(c), Replacing(c)' \subseteq Replacing(c),
           \A v \in Replacing(c)' : job[v].list \cap Usable(c)' \subseteq job'[v].list
    PROVE  SessionsFit(c)'
<1> SUFFICES ASSUME NEW E \in SUBSET Replacing(c)'
             PROVE  Cardinality(Usable(c)' \ Listed(E)') + Cardinality(E)
                        <= Cardinality(Workers)
  BY DEF SessionsFit
<1>1. IsFiniteSet(Usable(c)) /\ E \subseteq Workers
  BY WhatIsCounted
<1>2. Usable(c)' \ Listed(E)' \subseteq Usable(c) \ Listed(E)
  BY DEF Listed
<1>3. IsFiniteSet(Usable(c) \ Listed(E))
  BY <1>1, FS_Subset
<1>4. /\ Cardinality(Usable(c)' \ Listed(E)') \in Nat /\ Cardinality(Usable(c) \ Listed(E)) \in Nat
      /\ Cardinality(Usable(c)' \ Listed(E)') <= Cardinality(Usable(c) \ Listed(E))
  BY <1>2, <1>3, Fewer
<1>5. Cardinality(Usable(c) \ Listed(E)) + Cardinality(E) <= Cardinality(Workers)
  BY DEF SessionsFit
<1>6. Cardinality(E) \in Nat /\ Cardinality(Workers) \in Nat
  BY <1>1, Counts, Fewer
<1> QED
  BY <1>4, <1>5, <1>6

(* A request that lets nobody in and brings no session back.               *)
Alike(v) ==
    /\ job[v] # Nothing /\ job'[v] # Nothing
    /\ job'[v].kind = job[v].kind /\ job'[v].phase = job[v].phase /\ job'[v].user = job[v].user
    /\ job'[v].client = job[v].client /\ job'[v].token = job[v].token
    /\ job'[v].list = job[v].list /\ job'[v].proof = job[v].proof
    /\ job'[v].admitted = job[v].admitted

LetsNoDevice(j) == j.phase # "create" \/ ~j.admitted
InvitesNobody(j) == j.kind \notin {"admit", "password"}
RenewsNothing(j) ==
    /\ ~(j.kind = "login" /\ j.phase = "revoke")
    /\ ~(j.kind = "refresh" /\ j.phase \in {"device", "rotate"})

Quiet(v, harmless) == job'[v] = job[v] \/ job'[v] = Nothing \/ Alike(v) \/ harmless

\* No session comes to life.
Calm == \A s \in Sessions :
           /\ session'[s].client = session[s].client
           /\ \/ session'[s].status = session[s].status
              \/ session'[s].status = "revoked"
              \/ session[s].status = "live"

LEMMA AdmittedShrinks ==
    ASSUME TypeOK, device' = device, \A v \in Workers : Quiet(v, LetsNoDevice(job'[v]))
    PROVE  Admitted' \subseteq Admitted
<1>1. \A v \in Workers : v \in Admitting' => v \in Admitting /\ job'[v].client = job[v].client
  BY DEF Admitting, Quiet, Alike, LetsNoDevice
<1>2. Admitting' \subseteq Workers
  BY DEF Admitting
<1> QED
  BY <1>1, <1>2 DEF Admitted, ActiveDevices

LEMMA WelcomeShrinks ==
    ASSUME TypeOK, Counted' \subseteq Counted,
           \A v \in Workers : Quiet(v, InvitesNobody(job'[v]))
    PROVE  Welcome' \subseteq Welcome
<1>1. \A v \in Workers : v \in Inviting' => v \in Inviting /\ job'[v].user = job[v].user
  BY DEF Inviting, Quiet, Alike, InvitesNobody
<1>2. Inviting' \subseteq Workers
  BY DEF Inviting
<1> QED
  BY <1>1, <1>2 DEF Welcome

LEMMA UsableShrinks ==
    ASSUME TypeOK, Calm, NEW c,
           \A s \in Sessions : Renewed(s)' => Renewed(s) \/ session[s].status = "live"
    PROVE  Usable(c)' \subseteq Usable(c)
<1>1. ASSUME NEW s \in Usable(c)' PROVE s \in Usable(c)
  <2>1. /\ s \in Sessions /\ session'[s].client = c
        /\ session'[s].status = "live" \/ (session'[s].status = "expired" /\ Renewed(s)')
    BY DEF Usable
  <2>2. /\ session'[s].client = session[s].client
        /\ \/ session'[s].status = session[s].status
           \/ session'[s].status = "revoked"
           \/ session[s].status = "live"
    BY <2>1 DEF Calm
  <2> QED
    BY <2>1, <2>2 DEF Usable
<1> QED
  BY <1>1

LEMMA QuietRenews ==
    ASSUME TypeOK, \A v \in Workers : Quiet(v, RenewsNothing(job'[v])), NEW s
    PROVE  Renewed(s)' => Renewed(s)
<1> SUFFICES ASSUME Renewed(s)' PROVE Renewed(s)
  OBVIOUS
<1>1. PICK v \in Workers : /\ Refreshing(v)' /\ job'[v].phase \in {"device", "rotate"}
                           /\ job'[v].token.session = s
  BY DEF Renewed
<1>2. /\ Refreshing(v) /\ job[v].phase \in {"device", "rotate"} /\ job[v].token.session = s
  BY <1>1 DEF Refreshing, Quiet, Alike, RenewsNothing
<1> QED
  BY <1>2 DEF Renewed

LEMMA ReplacingShrinks ==
    ASSUME TypeOK, \A v \in Workers : Quiet(v, RenewsNothing(job'[v])), NEW c
    PROVE  /\ Replacing(c)' \subseteq Replacing(c)
           /\ \A v \in Replacing(c)' : job'[v].list = job[v].list
BY DEF Replacing, LoggingIn, Quiet, Alike, RenewsNothing

LEMMA SessionsCalm ==
    ASSUME TypeOK, NEW c \in Clients, SessionsFit(c), Calm,
           \A v \in Workers : Quiet(v, RenewsNothing(job'[v]))
    PROVE  SessionsFit(c)'
<1>1. Usable(c)' \subseteq Usable(c)
  BY QuietRenews, UsableShrinks
<1>2. /\ Replacing(c)' \subseteq Replacing(c)
      /\ \A v \in Replacing(c)' : job'[v].list = job[v].list
  BY ReplacingShrinks
<1> QED
  BY <1>1, <1>2, SessionsKeep

LEMMA DevicesSame ==
    ASSUME TypeOK, Limits, device' = device, \A v \in Workers : Quiet(v, LetsNoDevice(job'[v]))
    PROVE  DevicesFit'
BY AdmittedShrinks, DevicesKeep DEF Limits

LEMMA EmployeesSame ==
    ASSUME TypeOK, Limits, Counted' \subseteq Counted, reactivated' = reactivated,
           \A v \in Workers : Quiet(v, InvitesNobody(job'[v]))
    PROVE  EmployeesFit'
BY WelcomeShrinks, EmployeesKeep DEF Limits

LEMMA SessionsSame ==
    ASSUME TypeOK, Limits, Calm, \A v \in Workers : Quiet(v, RenewsNothing(job'[v]))
    PROVE  \A c \in Clients : SessionsFit(c)'
BY SessionsCalm DEF Limits

(***************************************************************************)
(* What is named stays; an old password opens nothing new.                 *)
(***************************************************************************)
Kept ==
    \A s \in Sessions : session[s].status # "none" =>
        /\ session'[s].status # "none"
        /\ session'[s].client = session[s].client /\ session'[s].user = session[s].user

LEMMA NamedStays ==
    ASSUME Kept, NEW t \in Token, NEW c, Names(t, c)
    PROVE  Names(t, c)'
BY DEF Kept, Names, Token

LEMMA RequestStays ==
    ASSUME Kept, NEW j \in Job, RequestOK(j)
    PROVE  RequestOK(j)'
BY NamedStays DEF RequestOK, Kept, Job

LEMMA ReferencesKeep ==
    ASSUME TypeOK, References, Kept,
           \A s \in Sessions : session[s].status = "none" /\ session'[s].status # "none" =>
               session'[s].client # Nothing /\ session'[s].user # Nothing,
           \A c \in Clients : app'[c] = app[c] \/ app'[c] = Nothing \/ Names(app[c], c)',
           \A v \in Workers : job'[v] = job[v] \/ job'[v] = Nothing \/ RequestOK(job[v])',
           \A u \in Users : account'[u].mustChange =>
               account[u].mustChange \/ account'[u].status # "NONE",
           \A u \in Users : account[u].status # "NONE" => account'[u].status # "NONE"
    PROVE  References'
<1>1. \A s \in Sessions : session'[s].status # "none" =>
          session'[s].client # Nothing /\ session'[s].user # Nothing
  BY DEF References, Kept
<1>2. ASSUME NEW c \in Clients, app'[c] # Nothing PROVE Names(app[c], c)'
  <2>1. CASE app'[c] = app[c]
    <3>1. PICK t : t = app[c]
      OBVIOUS
    <3>2. t \in Token /\ Names(t, c)
      BY <1>2, <2>1, <3>1 DEF TypeOK, References
    <3>3. Names(t, c)'
      BY <3>2, NamedStays
    <3> QED
      BY <2>1, <3>1, <3>3 DEF Names
  <2> QED
    BY <1>2, <2>1
<1>3. ASSUME NEW v \in Workers, job'[v] # Nothing PROVE RequestOK(job[v])'
  <2>1. CASE job'[v] = job[v]
    <3>1. PICK j : j = job[v]
      OBVIOUS
    <3>2. j \in Job /\ RequestOK(j)
      BY <1>3, <2>1, <3>1 DEF TypeOK, References
    <3>3. RequestOK(j)'
      BY <3>2, RequestStays
    <3> QED
      BY <2>1, <3>1, <3>3 DEF RequestOK, Names
  <2> QED
    BY <1>3, <2>1
<1>4. \A u \in Users : account'[u].mustChange => account'[u].status # "NONE"
  BY DEF References
<1> QED
  BY <1>1, <1>2, <1>3, <1>4 DEF References

NoneOpened ==
    \A s \in Sessions : session'[s].status \in {"live", "expired"} =>
        /\ session[s].status \in {"live", "expired"} /\ session'[s].user = session[s].user
        /\ session'[s].proof = session[s].proof /\ session'[s].raced = session[s].raced

LEMMA OldShrinks ==
    ASSUME NoneOpened, NEW u, NEW p
    PROVE  Old(u, p)' \subseteq Old(u, p)
BY DEF NoneOpened, Old, NotRevoked

Proven(v) ==
    \/ job'[v] = job[v] \/ job'[v] = Nothing
    \/ /\ LoggingIn(v) /\ job'[v].kind = "login" /\ job'[v].user = job[v].user
       /\ job'[v].proof = job[v].proof /\ job'[v].raced = job[v].raced
    \/ /\ job'[v].kind = "login" /\ job'[v].user \in Users
       /\ job'[v].proof = account[job'[v].user].password
    \/ job'[v].kind = "reset" /\ job'[v].phase = "consume"
    \/ /\ job'[v].kind = "reset" /\ job'[v].phase = "list" /\ job'[v].user \in Users
       /\ job'[v].proof = account'[job'[v].user].password
    \/ /\ Resetting(v, {"revoke"}) /\ job'[v].kind = "reset" /\ job'[v].phase = "revoke"
       /\ job'[v].user = job[v].user /\ job'[v].proof = job[v].proof
       /\ \A s \in job[v].list : s \in job'[v].list \/ session'[s].status = "revoked"
    \/ job'[v].kind \notin {"login", "reset"}

\* Nothing that an older password opened is added where a reset closed, or is closing, sessions.
NoneOlder(u, p) ==
    p = closed[u] \/ (\E v \in Workers : /\ Resetting(v, {"revoke"})
                                         /\ job[v].user = u /\ job[v].proof = p) =>
        Old(u, p)' \subseteq Old(u, p)

LEMMA PasswordsHold ==
    ASSUME TypeOK, Passwords, closed' = closed, \A u, p : NoneOlder(u, p),
           \A u \in Users : /\ account'[u].password \in Nat
                            /\ account'[u].password >= account[u].password,
           \A v \in Workers : Proven(v)
    PROVE  Passwords'
<1>1. \A u \in Users : /\ account[u].password \in Nat /\ account'[u].password \in Nat
                       /\ closed[u] \in Nat /\ account[u].password <= account'[u].password
                       /\ closed[u] <= account[u].password
  BY DEF TypeOK, Passwords
<1>2. \A v \in Workers : job[v] # Nothing => job[v].user \in Users /\ job[v].proof \in Nat
  BY DEF TypeOK, Job
<1>3. \A u \in Users : closed'[u] <= account'[u].password /\ Old(u, closed[u])' = {}
  <2>1. ASSUME NEW u \in Users PROVE closed'[u] <= account'[u].password
    BY <1>1
  <2>2. ASSUME NEW u \in Users PROVE Old(u, closed[u])' = {}
    <3>1. PICK p : p = closed[u]
      OBVIOUS
    <3>2. Old(u, p)' \subseteq Old(u, p) /\ Old(u, p) = {}
      BY <3>1 DEF Passwords, NoneOlder
    <3> QED
      BY <3>1, <3>2 DEF Old, NotRevoked
  <2> QED
    BY <2>1, <2>2
<1>4. ASSUME NEW v \in Workers, LoggingIn(v)'
      PROVE  \/ /\ LoggingIn(v) /\ job'[v].user = job[v].user /\ job'[v].proof = job[v].proof
                /\ job'[v].raced = job[v].raced
             \/ job'[v].user \in Users /\ job'[v].proof = account[job'[v].user].password
  BY <1>4 DEF Proven, LoggingIn
<1>5. ASSUME NEW v \in Workers, LoggingIn(v)' PROVE LoginProves(job[v])'
  <2>1. CASE /\ LoggingIn(v) /\ job'[v].user = job[v].user /\ job'[v].proof = job[v].proof
             /\ job'[v].raced = job[v].raced
    <3>1. LoginProves(job[v]) /\ job[v].user \in Users /\ job[v].proof \in Nat
      BY <1>2, <2>1 DEF Passwords, LoggingIn
    <3> QED
      BY <1>1, <2>1, <3>1 DEF LoginProves
  <2>2. CASE job'[v].user \in Users /\ job'[v].proof = account[job'[v].user].password
    BY <1>1, <2>2 DEF LoginProves
  <2> QED
    BY <1>4, <1>5, <2>1, <2>2
<1>6. ASSUME NEW v \in Workers, Resetting(v, {"list", "revoke"})' PROVE ResetProves(job[v])'
  <2>1. PICK j : j = job'[v]
    OBVIOUS
  <2>2. PICK i : i = job[v]
    OBVIOUS
  <2>3. \/ /\ j.phase = "list" /\ j.user \in Users /\ j.proof = account'[j.user].password
        \/ /\ i # Nothing /\ i.kind = "reset" /\ i.phase \in {"list", "revoke"}
           /\ j.phase = i.phase /\ j.user = i.user /\ j.proof = i.proof
           /\ \A s \in i.list : s \in j.list \/ session'[s].status = "revoked"
    BY <1>6, <2>1, <2>2 DEF Proven, Resetting
  <2>4. CASE j.phase = "list" /\ j.user \in Users /\ j.proof = account'[j.user].password
    <3>1. ResetProves(j)'
      BY <1>1, <2>4 DEF ResetProves
    <3> QED
      BY <2>1, <3>1 DEF ResetProves, Old, NotRevoked
  <2>5. CASE /\ i # Nothing /\ i.kind = "reset" /\ i.phase \in {"list", "revoke"}
             /\ j.phase = i.phase /\ j.user = i.user /\ j.proof = i.proof
             /\ \A s \in i.list : s \in j.list \/ session'[s].status = "revoked"
    <3>1. ResetProves(i) /\ j.user \in Users /\ j.proof \in Nat
      BY <1>2, <2>2, <2>5 DEF Passwords, Resetting
    <3>2. j.phase = "revoke" => Old(j.user, j.proof)' \subseteq Old(j.user, j.proof)
      BY <2>2, <2>5 DEF NoneOlder, Resetting
    <3>3. j.proof <= account'[j.user].password
      BY <1>1, <2>5, <3>1 DEF ResetProves
    <3>4. ASSUME j.phase = "revoke"
          PROVE  /\ Old(j.user, j.proof)' \subseteq j.list
                 /\ \A x \in Workers : LoggingIn(x)' /\ job'[x].user = j.user
                                       /\ job'[x].proof < j.proof => job'[x].raced
      <4>1. Old(j.user, j.proof) \subseteq i.list
        BY <2>5, <3>1, <3>4 DEF ResetProves
      <4>2. \A s \in Old(j.user, j.proof)' : session'[s].status # "revoked"
        BY DEF Old, NotRevoked
      <4>3. \A x \in Workers : LoggingIn(x)' /\ job'[x].user = j.user
                               /\ job'[x].proof < j.proof => job'[x].raced
        BY <2>5, <3>1, <3>4, <1>1, <1>4 DEF ResetProves, LoggingIn
      <4> QED
        BY <2>5, <3>2, <3>4, <4>1, <4>2, <4>3
    <3>5. ResetProves(j)'
      BY <3>3, <3>4 DEF ResetProves
    <3> QED
      BY <2>1, <3>5 DEF ResetProves, Old, NotRevoked
  <2> QED
    BY <2>3, <2>4, <2>5
<1> QED
  BY <1>3, <1>5, <1>6 DEF Passwords

LEMMA PasswordsKeep ==
    ASSUME TypeOK, Passwords, closed' = closed, NoneOpened,
           \A u \in Users : /\ account'[u].password \in Nat
                            /\ account'[u].password >= account[u].password,
           \A v \in Workers : Proven(v)
    PROVE  Passwords'
<1>1. \A u, p : NoneOlder(u, p)
  BY OldShrinks DEF NoneOlder
<1> QED
  BY <1>1, PasswordsHold

(***************************************************************************)
(* Tokens stay what they are while nobody gets one.                        *)
(***************************************************************************)
Numbered ==
    \A s \in Sessions : session[s].status # "none" =>
        /\ session'[s].number = session[s].number
        /\ session[s].status = "revoked" => session'[s].status = "revoked"

Steady(v) ==
    \/ job'[v] = job[v]
    \/ /\ job'[v] = Nothing
       /\ Refreshing(v) => \/ overlapped'[job[v].client]
                           \/ app'[job[v].client] = Nothing
    \/ /\ job[v] # Nothing /\ job'[v] # Nothing
       /\ job'[v].kind = job[v].kind /\ job'[v].client = job[v].client
       /\ job'[v].token = job[v].token /\ (job'[v].phase = "answer" <=> job[v].phase = "answer")
    \/ job[v] = Nothing /\ job'[v].client = Nothing /\ job'[v].kind \notin {"login", "refresh"}

LEMMA CurrentStays ==
    ASSUME Numbered, NEW t \in Token, NEW c, Names(t, c), Current(t)
    PROVE  Current(t)'
BY DEF Numbered, Names, Current, Token

LEMMA SteadyIs ==
    ASSUME NEW v \in Workers, Steady(v)
    PROVE  /\ Refreshing(v)' => Refreshing(v) /\ job'[v].token = job[v].token
           /\ LoggingIn(v)' => LoggingIn(v) /\ job'[v].token = job[v].token
           /\ Answered(v)' => Answered(v)
           /\ \A c \in Clients : v \in OfClient(c)' => v \in OfClient(c)
           /\ \A c \in Clients : v \in OfClient(c) /\ v \notin OfClient(c)' /\ Refreshing(v) =>
                 overlapped'[c] \/ app'[c] = Nothing
BY AccessAssumption DEF Steady, Refreshing, LoggingIn, Answered, OfClient

LEMMA TokensKeep ==
    ASSUME TypeOK, References, Tokens, Numbered,
           \A c \in Clients : app'[c] = app[c] \/ app'[c] = Nothing,
           \A c \in Clients : overlapped[c] => overlapped'[c],
           \A v \in Workers : Steady(v)
    PROVE  Tokens'
<1>1. ASSUME NEW v \in Workers, LoggingIn(v)', Answered(v)' PROVE Unshared(v)'
  <2>1. LoggingIn(v) /\ Answered(v) /\ job'[v].token = job[v].token
    BY <1>1, SteadyIs
  <2>2. Unshared(v) /\ job[v].token \in Token /\ Names(job[v].token, job[v].client)
    BY <2>1 DEF Tokens, References, RequestOK, LoggingIn, Answered
  <2>3. PICK s \in Sessions : s = job[v].token.session
    BY <2>2 DEF Token
  <2>4. session'[s].number = job[v].token.number
    BY <2>2, <2>3 DEF Unshared, Names, Numbered
  <2>5. \A c \in Clients : app'[c] # Nothing => app'[c].session # s
    BY <2>2, <2>3 DEF Unshared
  <2>6. \A x \in Workers \ {v} :
           (Refreshing(x) \/ (LoggingIn(x) /\ Answered(x)))' => job'[x].token.session # s
    BY <2>2, <2>3, SteadyIs DEF Unshared
  <2> QED
    BY <2>1, <2>3, <2>4, <2>5, <2>6 DEF Unshared
<1>2. ASSUME NEW c \in Clients, ~overlapped'[c] PROVE Alone(c)'
  <2>1. Alone(c)
    BY <1>2 DEF Tokens
  <2>2. OfClient(c)' \subseteq OfClient(c) /\ OfClient(c)' \subseteq Workers
    BY SteadyIs DEF OfClient
  <2>3. \A v, x \in OfClient(c)' : v = x
    BY <2>1, <2>2 DEF Alone
  <2>4. ASSUME NEW v \in OfClient(c)', Refreshing(v)', Answered(v)' PROVE Current(job[v].token)'
    <3>1. Refreshing(v) /\ Answered(v) /\ job'[v].token = job[v].token /\ v \in Workers
      BY <2>2, <2>4, SteadyIs
    <3>2. Current(job[v].token)
      BY <2>1, <2>2, <3>1 DEF Alone
    <3>3. PICK t : t = job[v].token
      OBVIOUS
    <3>4. t \in Token /\ Names(t, job[v].client)
      BY <3>1, <3>3 DEF References, RequestOK, Refreshing
    <3>5. Current(t)'
      BY <3>2, <3>3, <3>4, CurrentStays
    <3> QED
      BY <3>1, <3>3, <3>5 DEF Current
  <2>5. ASSUME \A v \in OfClient(c)' : ~Refreshing(v)', app'[c] # Nothing PROVE Current(app[c])'
    <3>1. \A v \in OfClient(c) : ~Refreshing(v)
      <4>1. SUFFICES ASSUME NEW v \in OfClient(c), Refreshing(v) PROVE FALSE
        OBVIOUS
      <4>2. v \in Workers /\ Steady(v) /\ job[v] # Nothing /\ job[v].client = c
        BY <4>1 DEF OfClient
      <4>3. v \notin OfClient(c)'
        <5>1. v \in OfClient(c)' => Refreshing(v)'
          BY <4>1, <4>2, AccessAssumption DEF Steady, Refreshing, OfClient
        <5> QED
          BY <2>5, <5>1
      <4> QED
        BY <1>2, <2>5, <4>1, <4>2, <4>3, SteadyIs
    <3>2. app'[c] = app[c]
      BY <2>5
    <3>3. PICK t : t = app[c]
      OBVIOUS
    <3>4. t \in Token /\ Names(t, c) /\ Current(t)
      BY <2>1, <2>5, <3>1, <3>2, <3>3 DEF Alone, References, TypeOK
    <3>5. Current(t)'
      BY <3>4, CurrentStays
    <3> QED
      BY <3>2, <3>3, <3>5 DEF Current
  <2> QED
    BY <2>3, <2>4, <2>5 DEF Alone
<1> QED
  BY <1>1, <1>2 DEF Tokens

(***************************************************************************)
(* Steps that let nobody in, open nothing and hand out no token.           *)
(***************************************************************************)
Ending(s) ==
    \/ session'[s] = session[s]
    \/ /\ session[s].status # "none"
       /\ session'[s].client = session[s].client /\ session'[s].user = session[s].user
       /\ session'[s].number = session[s].number /\ session'[s].proof = session[s].proof
       /\ session'[s].raced = session[s].raced
       /\ \/ session'[s].status = "revoked"
          \/ session'[s].status = "expired" /\ session[s].status = "live"

LEMMA EndingIs ==
    ASSUME \A s \in Sessions : Ending(s)
    PROVE  /\ Calm /\ Kept /\ NoneOpened /\ Numbered
           /\ \A s \in Sessions : ~(session[s].status = "none" /\ session'[s].status # "none")
<1>1. Calm
  BY DEF Ending, Calm
<1>2. Kept
  BY DEF Ending, Kept
<1>3. NoneOpened
  BY DEF Ending, NoneOpened
<1>4. Numbered
  BY DEF Ending, Numbered
<1>5. \A s \in Sessions : ~(session[s].status = "none" /\ session'[s].status # "none")
  BY DEF Ending
<1> QED
  BY <1>1, <1>2, <1>3, <1>4, <1>5

Employed ==
    \A u \in Users :
        /\ account'[u].password >= account[u].password
        /\ account[u].status # "NONE" => account'[u].status # "NONE"
        /\ account'[u].mustChange => account[u].mustChange \/ account'[u].status # "NONE"

Harmless(j) == LetsNoDevice(j) /\ InvitesNobody(j) /\ RenewsNothing(j)

Minor(v) ==
    /\ Quiet(v, Harmless(job'[v])) /\ Proven(v) /\ Steady(v)
    /\ job'[v] = job[v] \/ job'[v] = Nothing \/ RequestOK(job[v])'

LEMMA SameAccounts ==
    ASSUME TypeOK, account' = account
    PROVE  Employed /\ Counted' \subseteq Counted
<1>1. \A u \in Users : account[u].password \in Nat
  BY DEF TypeOK
<1> QED
  BY <1>1 DEF Employed, Counted

LEMMA Uneventful ==
    ASSUME IInv, TypeOK', UNCHANGED <<device, closed, reactivated>>,
           \A s \in Sessions : Ending(s),
           \A c \in Clients : app'[c] = app[c] \/ app'[c] = Nothing,
           \A c \in Clients : overlapped[c] => overlapped'[c],
           Employed, Counted' \subseteq Counted, \A v \in Workers : Minor(v)
    PROVE  IInv'
<1>1. /\ Calm /\ Kept /\ NoneOpened /\ Numbered
      /\ \A s \in Sessions : ~(session[s].status = "none" /\ session'[s].status # "none")
  BY EndingIs
<1>2. \A v \in Workers : /\ Quiet(v, LetsNoDevice(job'[v])) /\ Quiet(v, InvitesNobody(job'[v]))
                         /\ Quiet(v, RenewsNothing(job'[v]))
  BY DEF Minor, Quiet, Harmless
<1>3. \A v \in Workers : /\ Proven(v) /\ Steady(v)
                         /\ job'[v] = job[v] \/ job'[v] = Nothing \/ RequestOK(job[v])'
  BY DEF Minor
<1>4. \A u \in Users : account'[u].password \in Nat /\ account'[u].password >= account[u].password
  BY DEF TypeOK, Employed
<1>5. References'
  BY <1>1, <1>3, ReferencesKeep DEF IInv, Employed
<1>6. Limits'
  BY <1>1, <1>2, DevicesSame, EmployeesSame, SessionsSame DEF IInv, Limits
<1>7. Passwords'
  BY <1>1, <1>3, <1>4, PasswordsKeep DEF IInv
<1>8. Tokens'
  BY <1>1, <1>3, TokensKeep DEF IInv
<1> QED
  BY <1>5, <1>6, <1>7, <1>8 DEF IInv

LEMMA SameIsMinor ==
    ASSUME NEW v, job'[v] = job[v]
    PROVE  Minor(v)
BY DEF Minor, Quiet, Proven, Steady

LEMMA TurnIsMinor ==
    ASSUME NEW w \in Workers, NEW j, Turn(w, j), Minor(w)
    PROVE  \A v \in Workers : Minor(v)
BY SameIsMinor DEF Turn

\* A request that ends without an answer.
LEMMA EndIsMinor ==
    ASSUME NEW w \in Workers, Turn(w, Nothing),
           Refreshing(w) => overlapped'[job[w].client] \/ app'[job[w].client] = Nothing
    PROVE  \A v \in Workers : Minor(v)
<1>1. job'[w] = Nothing
  BY DEF Turn
<1>2. Minor(w)
  BY <1>1 DEF Minor, Quiet, Proven, Steady
<1> QED
  BY <1>2, TurnIsMinor

LEMMA SpendKeeps ==
    ASSUME TypeOK, NEW kind \in RequestKinds, Spend(kind)
    PROVE  budget' \in [RequestKinds -> Nat]
<1>1. budget \in [RequestKinds -> Nat] /\ budget[kind] > 0
  BY DEF TypeOK, Spend
<1>2. budget[kind] - 1 \in Nat
  BY <1>1
<1> QED
  BY <1>1, <1>2 DEF Spend

LEMMA Unstarted ==
    /\ \A s : UNCHANGED session => Ending(s)
    /\ \A c : UNCHANGED app => app'[c] = app[c] \/ app'[c] = Nothing
    /\ \A c : UNCHANGED overlapped => (overlapped[c] => overlapped'[c])
BY DEF Ending

\* The status of one session changes.
LEMMA OneEnds ==
    ASSUME TypeOK, NEW s \in Sessions, session[s].status # "none", NEW status \in {"revoked", "expired"},
           session' = [session EXCEPT ![s].status = status],
           status = "expired" => session[s].status = "live"
    PROVE  session' \in [Sessions -> SessionRow] /\ \A t \in Sessions : Ending(t)
<1>1. PICK row : row = [session[s] EXCEPT !.status = status]
  OBVIOUS
<1>2. session \in [Sessions -> SessionRow] /\ session[s] \in SessionRow
  BY DEF TypeOK
<1>3. /\ row \in SessionRow /\ row.status = status
      /\ row.client = session[s].client /\ row.user = session[s].user
      /\ row.number = session[s].number /\ row.proof = session[s].proof
      /\ row.raced = session[s].raced
  BY <1>1, <1>2 DEF SessionRow
<1>4. session' = [session EXCEPT ![s] = row]
  BY <1>1
<1>5. session' \in [Sessions -> SessionRow] /\ \A t \in Sessions : session'[t] = IF t = s THEN row ELSE session[t]
  BY <1>2, <1>3, <1>4
<1> QED
  BY <1>3, <1>5 DEF Ending

LEMMA EndingsKeep ==
    ASSUME IInv,
           \/ \E c \in Clients : Logout(c)
           \/ \E s \in Sessions : RevokeSession(s) \/ Expire(s)
    PROVE  IInv'
<1>1. PICK s \in Sessions, status \in {"revoked", "expired"} :
        /\ session[s].status # "none" /\ session' = [session EXCEPT ![s].status = status]
        /\ status = "expired" => session[s].status = "live"
  <2>1. \A c \in Clients : app[c] # Nothing => app[c].session \in Sessions
    BY DEF IInv, TypeOK, Token
  <2> QED
    BY <2>1 DEF Logout, RevokeSession, Expire, Revoked
<1>2. session' \in [Sessions -> SessionRow] /\ \A t \in Sessions : Ending(t)
  BY <1>1, OneEnds DEF IInv
<1>3. budget' \in [RequestKinds -> Nat]
  BY SpendKeeps DEF IInv, RequestKinds, Logout, RevokeSession, Expire
<1>4. /\ app' \in [Clients -> Token \cup {Nothing}]
      /\ \A c \in Clients : app'[c] = app[c] \/ app'[c] = Nothing
  BY DEF Logout, RevokeSession, Expire, IInv, TypeOK
<1>5. UNCHANGED <<account, device, reset, job, overlapped, closed, reactivated>>
  BY DEF Logout, RevokeSession, Expire
<1>6. TypeOK'
  BY <1>2, <1>3, <1>4, <1>5 DEF IInv, TypeOK
<1>7. Employed /\ Counted' \subseteq Counted
  BY <1>5, SameAccounts DEF IInv
<1>8. \A v \in Workers : Minor(v)
  BY <1>5, SameIsMinor
<1> QED
  BY <1>2, <1>4, <1>5, <1>6, <1>7, <1>8, Uneventful

LEMMA ForgotPasswordKeeps == ASSUME IInv, NEW u \in Users, ForgotPassword(u) PROVE IInv'
<1>1. UNCHANGED <<account, device, session, app, job, overlapped, closed, reactivated>>
  BY DEF ForgotPassword
<1>2. budget' \in [RequestKinds -> Nat]
  BY SpendKeeps DEF IInv, RequestKinds, ForgotPassword
<1>3. reset' \in [Users -> [number: Nat, usable: BOOLEAN]]
  <2>1. reset \in [Users -> [number: Nat, usable: BOOLEAN]] /\ reset[u].number + 1 \in Nat
    BY DEF IInv, TypeOK
  <2> QED
    BY <2>1 DEF ForgotPassword
<1>4. TypeOK'
  BY <1>1, <1>2, <1>3 DEF IInv, TypeOK
<1>5. Employed /\ Counted' \subseteq Counted
  BY <1>1, SameAccounts DEF IInv
<1> QED
  BY <1>1, <1>4, <1>5, Unstarted, SameIsMinor, Uneventful

LEMMA RequestDiesKeeps == ASSUME IInv, NEW w \in Workers, RequestDies(w) PROVE IInv'
<1>1. /\ UNCHANGED <<account, device, session, reset, app, budget, closed, reactivated>>
      /\ Turn(w, Nothing) /\ job[w] # Nothing /\ job[w] \in Job
  BY EndsTurns DEF RequestDies, IInv, Idle, TypeOK
<1>2. /\ overlapped' \in [Clients -> BOOLEAN]
      /\ \A c \in Clients : overlapped[c] \/ job[w].client = c => overlapped'[c]
  BY Zenon DEF RequestDies, IInv, TypeOK
<1>3. TypeOK'
  BY <1>1, <1>2 DEF IInv, TypeOK, Turn
<1>4. Refreshing(w) => overlapped'[job[w].client]
  BY <1>1, <1>2 DEF Refreshing, IInv, References, RequestOK, Job
<1>5. \A v \in Workers : Minor(v)
  BY <1>1, <1>4, EndIsMinor
<1>6. Employed /\ Counted' \subseteq Counted
  BY <1>1, SameAccounts DEF IInv
<1> QED
  BY <1>1, <1>2, <1>3, <1>5, <1>6, Unstarted, Uneventful

LEMMA RefuseKeeps == ASSUME IInv, NEW w \in Workers, Refuse(w) PROVE IInv'
<1>1. /\ UNCHANGED <<account, device, session, reset, budget, overlapped, closed, reactivated>>
      /\ Turn(w, Nothing) /\ job[w] # Nothing /\ job[w] \in Job
  BY EndsTurns DEF Refuse, In, IInv, TypeOK
<1>2. /\ app' \in [Clients -> Token \cup {Nothing}]
      /\ \A c \in Clients : app'[c] = app[c] \/ app'[c] = Nothing
      /\ Refreshing(w) => app'[job[w].client] = Nothing
  <2>1. Refreshing(w) => job[w].client \in Clients
    BY <1>1 DEF Refreshing, IInv, References, RequestOK, Job
  <2> QED
    BY <2>1 DEF Refuse, IInv, TypeOK, Refreshing
<1>3. TypeOK'
  BY <1>1, <1>2 DEF IInv, TypeOK, Turn
<1>4. \A v \in Workers : Minor(v)
  BY <1>1, <1>2, EndIsMinor
<1>5. Employed /\ Counted' \subseteq Counted
  BY <1>1, SameAccounts DEF IInv
<1> QED
  BY <1>1, <1>2, <1>3, <1>4, <1>5, Unstarted, Uneventful

\* A request without a client begins.
LEMMA BeginKeeps ==
    ASSUME IInv, NEW w \in Workers, NEW j \in Job, Turn(w, j), job[w] = Nothing,
           j.kind \in {"reset", "block", "reactivate"}, j.phase \in {"consume", "write"},
           j.kind = "reset" => j.phase = "consume", j.kind # "reset" => j.user \in Employees,
           j.client = Nothing, j.list = {}, budget' \in [RequestKinds -> Nat],
           UNCHANGED <<account, device, session, reset, app, overlapped, closed, reactivated>>
    PROVE  IInv'
<1>1. job'[w] = j
  BY DEF Turn
<1>2. RequestOK(j)'
  BY DEF RequestOK
<1>3. Minor(w)
  <2>1. Quiet(w, Harmless(job'[w]))
    BY <1>1 DEF Quiet, Harmless, LetsNoDevice, InvitesNobody, RenewsNothing
  <2>2. Proven(w)
    BY <1>1 DEF Proven
  <2>3. Steady(w)
    BY <1>1 DEF Steady
  <2>4. RequestOK(job[w])'
    BY <1>1, <1>2 DEF RequestOK, Names
  <2> QED
    BY <2>1, <2>2, <2>3, <2>4 DEF Minor
<1>4. \A v \in Workers : Minor(v)
  BY <1>3, TurnIsMinor
<1>5. TypeOK'
  BY DEF IInv, TypeOK, Turn
<1>6. Employed /\ Counted' \subseteq Counted
  BY SameAccounts DEF IInv
<1> QED
  BY <1>4, <1>5, <1>6, Unstarted, Uneventful

LEMMA StartResetKeeps == ASSUME IInv, NEW w \in Workers, NEW u \in Users, StartReset(w, u) PROVE IInv'
<1>1. PICK n : n = NewJob("reset", "consume", u)
  OBVIOUS
<1>2. /\ n \in Job /\ n.kind = "reset" /\ n.phase = "consume" /\ n.user = u
      /\ n.client = Nothing /\ n.list = {}
  <2>1. "reset" \in RequestKinds /\ "consume" \in Phases
    BY DEF RequestKinds, Phases
  <2> QED
    BY <1>1, <2>1, NewJobIs
<1>3. PICK j : j = [n EXCEPT !.proof = reset[u].number]
  OBVIOUS
<1>4. /\ j \in Job /\ j.kind = "reset" /\ j.phase = "consume" /\ j.client = Nothing /\ j.list = {}
  <2>1. reset[u].number \in Nat
    BY DEF IInv, TypeOK
  <2> QED
    BY <1>2, <1>3, <2>1 DEF Job
<1>5. Turn(w, j)
  BY <1>1, <1>3, <1>4, GoesTurns DEF StartReset, IInv
<1>6. budget' \in [RequestKinds -> Nat] /\ job[w] = Nothing
  BY DEF StartReset, IInv, TypeOK, Idle
<1> QED
  BY <1>4, <1>5, <1>6, BeginKeeps DEF StartReset

LEMMA StartBlockKeeps ==
    ASSUME IInv, NEW w \in Workers, NEW e \in Employees,
           StartAccessBlock(w, e) \/ StartAccessReactivate(w, e)
    PROVE  IInv'
<1>1. PICK kind \in {"block", "reactivate"} : Goes(w, NewJob(kind, "write", e)) /\ Spend(kind)
  BY DEF StartAccessBlock, StartAccessReactivate
<1>2. PICK j : j = NewJob(kind, "write", e)
  OBVIOUS
<1>3. /\ j \in Job /\ j.kind = kind /\ j.phase = "write" /\ j.user = e
      /\ j.client = Nothing /\ j.list = {}
  <2>1. kind \in RequestKinds /\ "write" \in Phases /\ e \in Users
    BY DEF RequestKinds, Phases, Users
  <2> QED
    BY <1>2, <2>1, NewJobIs
<1>4. Turn(w, j)
  BY <1>1, <1>2, <1>3, GoesTurns DEF IInv
<1>5. budget' \in [RequestKinds -> Nat] /\ job[w] = Nothing
  <2>1. kind \in RequestKinds
    BY DEF RequestKinds
  <2> QED
    BY <1>1, <2>1, SpendKeeps DEF StartAccessBlock, StartAccessReactivate, IInv, Idle
<1>6. UNCHANGED <<account, device, session, reset, app, overlapped, closed, reactivated>>
  BY DEF StartAccessBlock, StartAccessReactivate
<1> QED
  BY <1>3, <1>4, <1>5, <1>6, BeginKeeps

(***************************************************************************)
(* Accounts that nobody is let in by.                                      *)
(***************************************************************************)
AccountRow == [status: {"NONE", "INVITED", "ACTIVE", "DISABLED"},
               password: Nat, mustChange: BOOLEAN]

LEMMA OneAccount ==
    ASSUME TypeOK, NEW u \in Users, NEW a \in AccountRow, account' = [account EXCEPT ![u] = a]
    PROVE  /\ account' \in [Users -> AccountRow] /\ account'[u] = a
           /\ \A x \in Users \ {u} : account'[x] = account[x]
BY DEF TypeOK, AccountRow

LEMMA NobodyMore ==
    ASSUME TypeOK, NEW u \in Users, NEW a \in AccountRow, account' = [account EXCEPT ![u] = a],
           a.password >= account[u].password,
           account[u].status # "NONE" => a.status # "NONE",
           a.mustChange => account[u].mustChange \/ a.status # "NONE",
           a.status \in {"ACTIVE", "INVITED"} => account[u].status \in {"ACTIVE", "INVITED"}
    PROVE  Employed /\ Counted' \subseteq Counted
<1>1. /\ account'[u] = a /\ \A x \in Users \ {u} : account'[x] = account[x]
  BY OneAccount
<1>2. \A x \in Users : account[x].password \in Nat
  BY DEF TypeOK
<1>3. Employed
  BY <1>1, <1>2 DEF Employed
<1>4. Counted' \subseteq Counted
  BY <1>1 DEF Counted, Users
<1> QED
  BY <1>3, <1>4

LEMMA DisabledIs ==
    ASSUME TypeOK, NEW u \in Users,
           account' = [account EXCEPT ![u].status = "DISABLED"]
    PROVE  account' \in [Users -> AccountRow] /\ Employed /\ Counted' \subseteq Counted
<1>1. PICK a : a = [account[u] EXCEPT !.status = "DISABLED"]
  OBVIOUS
<1>2. account[u] \in AccountRow
  BY DEF TypeOK, AccountRow
<1>3. /\ a \in AccountRow /\ a.status = "DISABLED" /\ a.password = account[u].password
      /\ a.mustChange = account[u].mustChange /\ a.password \in Nat
  BY <1>1, <1>2 DEF AccountRow
<1>4. account' = [account EXCEPT ![u] = a]
  BY <1>1
<1>5. a.password >= account[u].password
  BY <1>3
<1> QED
  BY <1>3, <1>4, <1>5, OneAccount, NobodyMore

LEMMA BlockAccessKeeps == ASSUME IInv, NEW w \in Workers, BlockAccess(w) PROVE IInv'
<1>1. /\ UNCHANGED <<device, session, reset, app, budget, overlapped, closed, reactivated>>
      /\ Turn(w, Nothing) /\ job[w] # Nothing /\ job[w] \in Job /\ job[w].kind = "block"
  BY EndsTurns DEF BlockAccess, In, IInv, TypeOK
<1>2. job[w].user \in Users
  BY <1>1 DEF Job
<1>3. account' \in [Users -> AccountRow] /\ Employed /\ Counted' \subseteq Counted
  BY <1>2, DisabledIs DEF BlockAccess, IInv
<1>4. TypeOK'
  BY <1>1, <1>3 DEF IInv, TypeOK, Turn, AccountRow
<1>5. \A v \in Workers : Minor(v)
  BY <1>1, EndIsMinor DEF Refreshing
<1> QED
  BY <1>1, <1>3, <1>4, <1>5, Unstarted, Uneventful

LEMMA DisableKeeps == ASSUME IInv, NEW e \in Employees, Disable(e) PROVE IInv'
<1>1. UNCHANGED <<device, session, reset, app, job, overlapped, closed, reactivated>>
  BY DEF Disable
<1>2. budget' \in [RequestKinds -> Nat]
  BY SpendKeeps DEF IInv, RequestKinds, Disable
<1>3. account' \in [Users -> AccountRow] /\ Employed /\ Counted' \subseteq Counted
  BY DisabledIs DEF Disable, IInv, Users
<1>4. TypeOK'
  BY <1>1, <1>2, <1>3 DEF IInv, TypeOK, AccountRow
<1> QED
  BY <1>1, <1>3, <1>4, Unstarted, SameIsMinor, Uneventful

LEMMA ChangeInitialPasswordKeeps ==
    ASSUME IInv, NEW u \in Users, ChangeInitialPassword(u) PROVE IInv'
<1>1. /\ UNCHANGED <<device, session, reset, app, job, budget, overlapped, closed, reactivated>>
      /\ account[u].mustChange /\ account[u].status # "NONE"
  BY DEF ChangeInitialPassword, IInv, References
<1>2. PICK a : a = [status |-> IF account[u].status = "DISABLED" THEN account[u].status
                               ELSE "ACTIVE",
                    password |-> account[u].password + 1, mustChange |-> FALSE]
  OBVIOUS
<1>3. account[u] \in AccountRow /\ account[u].password \in Nat
  BY DEF IInv, TypeOK, AccountRow
<1>4. /\ a \in AccountRow /\ ~a.mustChange /\ a.password >= account[u].password
      /\ a.status = IF account[u].status = "DISABLED" THEN "DISABLED" ELSE "ACTIVE"
  <2>1. account[u].password + 1 \in Nat /\ account[u].password + 1 >= account[u].password
    BY <1>3
  <2> QED
    BY <1>2, <2>1 DEF AccountRow
<1>5. account' = [account EXCEPT ![u] = a]
  BY <1>2 DEF ChangeInitialPassword
<1>6. account[u].status \in {"NONE", "INVITED", "ACTIVE", "DISABLED"}
  BY <1>3 DEF AccountRow
<1>7. account' \in [Users -> AccountRow] /\ Employed /\ Counted' \subseteq Counted
  <2>1. a.status \in {"ACTIVE", "INVITED"} => account[u].status \in {"ACTIVE", "INVITED"}
    BY <1>1, <1>4, <1>6
  <2>2. a.status # "NONE"
    BY <1>4
  <2> QED
    BY <1>4, <1>5, <2>1, <2>2, OneAccount, NobodyMore DEF IInv
<1>8. TypeOK'
  BY <1>1, <1>7 DEF IInv, TypeOK, AccountRow
<1> QED
  BY <1>1, <1>7, <1>8, Unstarted, SameIsMinor, Uneventful

(***************************************************************************)
(* Password reset.                                                         *)
(***************************************************************************)
LEMMA LimitsQuiet ==
    ASSUME TypeOK, Limits, UNCHANGED <<device, reactivated>>, Counted' \subseteq Counted,
           \A s \in Sessions : Ending(s), \A v \in Workers : Quiet(v, Harmless(job'[v]))
    PROVE  Limits'
<1>1. \A v \in Workers : /\ Quiet(v, LetsNoDevice(job'[v])) /\ Quiet(v, InvitesNobody(job'[v]))
                         /\ Quiet(v, RenewsNothing(job'[v]))
  BY DEF Quiet, Harmless
<1>2. Calm
  BY EndingIs
<1> QED
  BY <1>1, <1>2, DevicesSame, EmployeesSame, SessionsSame DEF Limits

Handled(v) ==
    /\ Steady(v)
    /\ job'[v] = job[v] \/ job'[v] = Nothing \/ RequestOK(job[v])'

\* Steps after which the limits and the passwords have to be looked at.
LEMMA MostKeeps ==
    ASSUME IInv, TypeOK', \A s \in Sessions : Ending(s),
           \A c \in Clients : app'[c] = app[c] \/ app'[c] = Nothing,
           \A c \in Clients : overlapped[c] => overlapped'[c],
           Employed, \A v \in Workers : Handled(v), Limits', Passwords'
    PROVE  IInv'
<1>1. /\ Kept /\ Numbered
      /\ \A s \in Sessions : ~(session[s].status = "none" /\ session'[s].status # "none")
  BY EndingIs
<1>2. \A v \in Workers : /\ Steady(v)
                         /\ job'[v] = job[v] \/ job'[v] = Nothing \/ RequestOK(job[v])'
  BY DEF Handled
<1>3. References'
  BY <1>1, <1>2, ReferencesKeep DEF IInv, Employed
<1>4. Tokens'
  BY <1>1, <1>2, TokensKeep DEF IInv
<1> QED
  BY <1>3, <1>4 DEF IInv

\* A request that goes on keeps what it names.
LEMMA GoesOn ==
    ASSUME IInv, Kept, NEW w \in Workers, NEW x \in Job, Turn(w, x), job[w] # Nothing,
           x.kind = job[w].kind, x.user = job[w].user, x.client = job[w].client,
           x.token = job[w].token, x.phase # "answer", job[w].phase # "answer",
           \A s \in x.list : session[s].status # "none"
    PROVE  \A v \in Workers : Handled(v)
<1>1. PICK j \in Job : j = job[w]
  BY DEF IInv, TypeOK
<1>2. RequestOK(j)
  BY <1>1 DEF IInv, References
<1>3. job'[w] = x /\ x # Nothing /\ \A v \in Workers \ {w} : job'[v] = job[v]
  BY NothingAssumption DEF Turn
<1>4. RequestOK(x)'
  <2>1. x.kind = "refresh" => x.token \in Token /\ Names(x.token, x.client)'
    BY <1>1, <1>2, NamedStays DEF RequestOK
  <2>2. \A s \in x.list : session'[s].status # "none"
    BY DEF Kept, Job
  <2> QED
    BY <1>1, <1>2, <2>1, <2>2 DEF RequestOK
<1>5. RequestOK(job[w])'
  BY <1>3, <1>4 DEF RequestOK, Names
<1>6. Steady(w)
  BY <1>3 DEF Steady
<1> QED
  BY <1>3, <1>5, <1>6 DEF Handled, Steady

LEMMA RevokeListedKeeps == ASSUME IInv, NEW w \in Workers, RevokeListed(w) PROVE IInv'
<1>1. /\ UNCHANGED <<account, device, reset, app, budget, overlapped, closed, reactivated>>
      /\ job[w] # Nothing /\ job[w] \in Job /\ job[w].kind \in {"login", "reset"}
      /\ job[w].phase = "revoke"
  BY DEF RevokeListed, In, IInv, TypeOK
<1>2. PICK s \in job[w].list : session' = Revoked(s) /\ Goes(w, [job[w] EXCEPT !.list = @ \ {s}])
  BY DEF RevokeListed
<1>3. s \in Sessions /\ session[s].status # "none"
  BY <1>1, <1>2 DEF IInv, References, RequestOK, Job
<1>4. session' \in [Sessions -> SessionRow] /\ \A t \in Sessions : Ending(t)
  BY <1>2, <1>3, OneEnds DEF IInv, Revoked
<1>5. session'[s].status = "revoked"
  BY <1>2, <1>3 DEF Revoked, IInv, TypeOK, SessionRow
<1>6. PICK x : x = [job[w] EXCEPT !.list = job[w].list \ {s}]
  OBVIOUS
<1>7. /\ x \in Job /\ x.kind = job[w].kind /\ x.phase = "revoke" /\ x.user = job[w].user
      /\ x.client = job[w].client /\ x.token = job[w].token /\ x.proof = job[w].proof
      /\ x.raced = job[w].raced /\ x.list = job[w].list \ {s}
  BY <1>1, <1>6 DEF Job
<1>8. Turn(w, x)
  BY <1>2, <1>6, <1>7, GoesTurns DEF IInv
<1>9. job'[w] = x /\ x # Nothing /\ \A v \in Workers \ {w} : job'[v] = job[v]
  BY <1>7, <1>8, NothingAssumption DEF Turn
<1>10. Calm /\ Kept /\ NoneOpened
  BY <1>4, EndingIs
<1>11. TypeOK'
  BY <1>1, <1>4, <1>8 DEF IInv, TypeOK, Turn
<1>12. Employed /\ Counted' \subseteq Counted
  BY <1>1, SameAccounts DEF IInv
<1>13. \A v \in Workers : Handled(v)
  <2>1. \A t \in x.list : session[t].status # "none"
    BY <1>1, <1>7 DEF IInv, References, RequestOK
  <2> QED
    BY <1>1, <1>7, <1>8, <1>10, <2>1, GoesOn
<1>14. Limits'
  <2>1. DevicesFit'
    <3>1. \A v \in Workers : Quiet(v, LetsNoDevice(job'[v]))
      BY <1>7, <1>9 DEF Quiet, LetsNoDevice
    <3> QED
      BY <1>1, <3>1, DevicesSame DEF IInv
  <2>2. EmployeesFit'
    <3>1. \A v \in Workers : Quiet(v, InvitesNobody(job'[v]))
      BY <1>1, <1>7, <1>9 DEF Quiet, InvitesNobody
    <3> QED
      BY <1>1, <1>12, <3>1, EmployeesSame DEF IInv
  <2>3. ASSUME NEW c \in Clients PROVE SessionsFit(c)'
    <3>1. \A t \in Sessions : Renewed(t)' => Renewed(t)
      BY <1>1, <1>7, <1>9 DEF Renewed, Refreshing
    <3>2. Usable(c)' \subseteq Usable(c)
      BY <1>10, <3>1, UsableShrinks DEF IInv
    <3>3. Replacing(c)' \subseteq Replacing(c)
      BY <1>1, <1>7, <1>9 DEF Replacing, LoggingIn
    <3>4. \A v \in Replacing(c)' : job[v].list \cap Usable(c)' \subseteq job'[v].list
      <4>1. s \notin Usable(c)'
        BY <1>5 DEF Usable
      <4>2. Replacing(c)' \subseteq Workers
        BY DEF Replacing
      <4> QED
        BY <1>7, <1>9, <4>1, <4>2
    <3> QED
      BY <3>2, <3>3, <3>4, SessionsKeep DEF IInv, Limits
  <2> QED
    BY <2>1, <2>2, <2>3 DEF Limits
<1>15. Passwords'
  <2>1. Proven(w)
    <3>1. \A t \in job[w].list : t \in job'[w].list \/ session'[t].status = "revoked"
      BY <1>5, <1>7, <1>9
    <3> QED
      BY <1>1, <1>7, <1>9, <3>1 DEF Proven, LoggingIn, Resetting
  <2>2. \A v \in Workers : Proven(v)
    BY <1>9, <2>1 DEF Proven
  <2>3. \A u \in Users : /\ account'[u].password \in Nat
                         /\ account'[u].password >= account[u].password
    BY <1>11, <1>12 DEF TypeOK, Employed
  <2> QED
    BY <1>1, <1>10, <2>2, <2>3, PasswordsKeep DEF IInv
<1> QED
  BY <1>1, <1>4, <1>11, <1>12, <1>13, <1>14, <1>15, MostKeeps

LEMMA ConsumeTokenKeeps == ASSUME IInv, NEW w \in Workers, ConsumeToken(w) PROVE IInv'
<1>1. /\ UNCHANGED <<device, session, app, budget, overlapped, closed, reactivated>>
      /\ job[w] # Nothing /\ job[w] \in Job /\ job[w].kind = "reset" /\ job[w].phase = "consume"
  BY DEF ConsumeToken, In, IInv, TypeOK
<1>2. PICK u \in Users : u = job[w].user
  BY <1>1 DEF Job
<1>3. CASE Ends(w) /\ UNCHANGED <<reset, account>>
  <2>1. Turn(w, Nothing)
    BY <1>3, EndsTurns DEF IInv
  <2>2. TypeOK'
    BY <1>1, <1>3, <2>1 DEF IInv, TypeOK, Turn
  <2>3. \A v \in Workers : Minor(v)
    BY <1>1, <2>1, EndIsMinor DEF Refreshing
  <2>4. Employed /\ Counted' \subseteq Counted
    BY <1>3, SameAccounts DEF IInv
  <2> QED
    BY <1>1, <2>2, <2>3, <2>4, Unstarted, Uneventful
<1>4. CASE /\ reset' = [reset EXCEPT ![u].usable = FALSE]
           /\ account' = [account EXCEPT ![u].password = @ + 1]
           /\ Goes(w, [job[w] EXCEPT !.phase = "list", !.proof = account[u].password + 1])
  <2>1. account[u] \in AccountRow /\ account[u].password \in Nat
    BY DEF IInv, TypeOK, AccountRow
  <2>2. PICK a : a = [account[u] EXCEPT !.password = account[u].password + 1]
    OBVIOUS
  <2>3. PICK p \in Nat : p = account[u].password + 1 /\ p >= account[u].password
    BY <2>1
  <2>4. /\ a \in AccountRow /\ a.password = p /\ a.status = account[u].status
        /\ a.mustChange = account[u].mustChange
    BY <2>1, <2>2, <2>3 DEF AccountRow
  <2>5. account' = [account EXCEPT ![u] = a]
    BY <1>4, <2>2
  <2>6. account' \in [Users -> AccountRow] /\ account'[u] = a
    BY <2>4, <2>5, OneAccount DEF IInv
  <2>7. Employed /\ Counted' \subseteq Counted
    BY <2>3, <2>4, <2>5, NobodyMore DEF IInv
  <2>8. PICK x : x = [job[w] EXCEPT !.phase = "list", !.proof = p]
    OBVIOUS
  <2>9. /\ x \in Job /\ x.kind = "reset" /\ x.phase = "list" /\ x.user = u
        /\ x.client = job[w].client /\ x.token = job[w].token /\ x.proof = p
        /\ x.list = job[w].list
    BY <1>1, <1>2, <2>8 DEF Job, Phases
  <2>10. Turn(w, x)
    BY <1>4, <2>3, <2>8, <2>9, GoesTurns DEF IInv
  <2>11. job'[w] = x
    BY <2>10 DEF Turn
  <2>12. reset' \in [Users -> [number: Nat, usable: BOOLEAN]]
    BY <1>4 DEF IInv, TypeOK
  <2>13. TypeOK'
    BY <1>1, <2>6, <2>10, <2>12 DEF IInv, TypeOK, Turn, AccountRow
  <2>14. Kept
    BY <1>1 DEF Kept
  <2>15. \A v \in Workers : Handled(v)
    <3>1. \A s \in x.list : session[s].status # "none"
      BY <1>1, <2>9 DEF IInv, References, RequestOK
    <3> QED
      BY <1>1, <1>2, <2>9, <2>10, <2>14, <3>1, GoesOn
  <2>16. Minor(w)
    <3>1. Quiet(w, Harmless(job'[w]))
      BY <2>9, <2>11 DEF Quiet, Harmless, LetsNoDevice, InvitesNobody, RenewsNothing
    <3>2. Proven(w)
      BY <2>4, <2>6, <2>9, <2>11 DEF Proven
    <3> QED
      BY <2>15, <3>1, <3>2 DEF Minor, Handled
  <2>17. \A v \in Workers : Minor(v)
    BY <2>10, <2>16, TurnIsMinor
  <2> QED
    BY <1>1, <2>7, <2>13, <2>17, Unstarted, Uneventful
<1> QED
  BY <1>2, <1>3, <1>4 DEF ConsumeToken

LEMMA FinishResetKeeps == ASSUME IInv, NEW w \in Workers, FinishReset(w) PROVE IInv'
<1>1. PICK j \in Job : j = job[w]
  BY DEF FinishReset, In, IInv, TypeOK
<1>2. /\ UNCHANGED <<account, device, session, reset, app, budget, overlapped, reactivated>>
      /\ j # Nothing /\ j.kind = "reset" /\ j.phase = "revoke" /\ j.list = {}
      /\ closed' = [closed EXCEPT ![j.user] = IF @ > j.proof THEN @ ELSE j.proof]
      /\ Turn(w, Nothing)
  BY <1>1, EndsTurns DEF FinishReset, In, IInv
<1>3. j.user \in Users /\ j.proof \in Nat
  BY DEF Job
<1>4. PICK p : p = IF closed[j.user] > j.proof THEN closed[j.user] ELSE j.proof
  OBVIOUS
<1>5. \A u \in Users : closed[u] \in Nat
  BY DEF IInv, TypeOK
<1>6. p \in Nat /\ (p = closed[j.user] \/ p = j.proof)
  BY <1>3, <1>4, <1>5
<1>7. /\ closed' \in [Users -> Nat] /\ closed'[j.user] = p
      /\ \A u \in Users \ {j.user} : closed'[u] = closed[u]
  BY <1>2, <1>3, <1>4, <1>6 DEF IInv, TypeOK
<1>8. TypeOK'
  BY <1>2, <1>7 DEF IInv, TypeOK, Turn
<1>9. \A v \in Workers : Minor(v)
  BY <1>1, <1>2, EndIsMinor DEF Refreshing
<1>10. \A v \in Workers : Handled(v) /\ Quiet(v, Harmless(job'[v]))
  BY <1>9 DEF Minor, Handled
<1>11. Employed /\ Counted' \subseteq Counted
  BY <1>2, SameAccounts DEF IInv
<1>12. \A s \in Sessions : Ending(s)
  BY <1>2, Unstarted
<1>13. Limits'
  BY <1>2, <1>10, <1>11, <1>12, LimitsQuiet DEF IInv
<1>14. ResetProves(j)
  BY <1>1, <1>2 DEF IInv, Passwords, Resetting
<1>15. \A v \in Workers : job'[v] # Nothing => v # w /\ job'[v] = job[v]
  BY <1>2 DEF Turn
<1>16. Passwords'
  <2>1. ASSUME NEW u \in Users PROVE closed'[u] <= account'[u].password
    <3>1. closed[u] <= account[u].password
      BY DEF IInv, Passwords
    <3> QED
      BY <1>2, <1>6, <1>7, <1>14, <3>1 DEF ResetProves
  <2>2. ASSUME NEW u \in Users PROVE Old(u, closed[u])' = {}
    <3>1. Old(u, closed[u]) = {} /\ Old(j.user, j.proof) = {}
      BY <1>2, <1>14 DEF IInv, Passwords, ResetProves
    <3>2. PICK q : q = closed'[u]
      OBVIOUS
    <3>3. Old(u, q) = {}
      BY <1>6, <1>7, <3>1, <3>2
    <3> QED
      BY <1>2, <3>2, <3>3 DEF Old, NotRevoked
  <2>3. ASSUME NEW v \in Workers, LoggingIn(v)' PROVE LoginProves(job[v])'
    <3>1. LoggingIn(v) /\ job'[v] = job[v]
      BY <2>3, <1>15 DEF LoggingIn
    <3>2. LoginProves(job[v]) /\ job[v].user \in Users /\ job[v].proof \in Nat
      BY <3>1 DEF IInv, Passwords, LoggingIn, TypeOK, Job
    <3>3. ASSUME job[v].proof < closed'[job[v].user] PROVE job[v].raced
      <4>1. CASE job[v].user = j.user
        BY <1>2, <1>6, <1>7, <1>14, <3>1, <3>2, <3>3, <4>1 DEF LoginProves, ResetProves
      <4>2. CASE job[v].user # j.user
        BY <1>7, <3>2, <3>3, <4>2 DEF LoginProves
      <4> QED
        BY <4>1, <4>2
    <3> QED
      BY <1>2, <3>1, <3>2, <3>3 DEF LoginProves
  <2>4. ASSUME NEW v \in Workers, Resetting(v, {"list", "revoke"})' PROVE ResetProves(job[v])'
    <3>1. PICK i : i = job[v]
      OBVIOUS
    <3>2. job'[v] = i /\ Resetting(v, {"list", "revoke"})
      BY <2>4, <1>15, <3>1 DEF Resetting
    <3>3. ResetProves(i)
      BY <3>1, <3>2 DEF IInv, Passwords
    <3>4. \A x \in Workers : LoggingIn(x)' => LoggingIn(x) /\ job'[x] = job[x]
      BY <1>15 DEF LoggingIn
    <3>5. ResetProves(i)'
      BY <1>2, <3>3, <3>4 DEF ResetProves, Old, NotRevoked
    <3> QED
      BY <3>2, <3>5 DEF ResetProves, Old, NotRevoked
  <2> QED
    BY <2>1, <2>2, <2>3, <2>4 DEF Passwords
<1> QED
  BY <1>2, <1>8, <1>10, <1>11, <1>13, <1>16, Unstarted, MostKeeps

LEMMA ListUserKeeps == ASSUME IInv, NEW w \in Workers, ListUser(w) PROVE IInv'
<1>1. PICK j \in Job : j = job[w]
  BY DEF ListUser, In, IInv, TypeOK
<1>2. /\ UNCHANGED <<account, device, session, reset, app, budget, overlapped, closed, reactivated>>
      /\ j # Nothing /\ j.kind = "reset" /\ j.phase = "list"
  BY <1>1 DEF ListUser, In
<1>3. j.user \in Users /\ j.proof \in Nat
  BY DEF Job
<1>4. PICK x : x = [j EXCEPT !.phase = "revoke", !.list = NotRevoked(j.user)]
  OBVIOUS
<1>5. /\ x \in Job /\ x.kind = "reset" /\ x.phase = "revoke" /\ x.user = j.user
      /\ x.client = j.client /\ x.token = j.token /\ x.proof = j.proof
      /\ x.list = NotRevoked(j.user)
  BY <1>2, <1>4 DEF Job, Phases, NotRevoked
<1> DEFINE Overtaken(v) == /\ job[v] # Nothing /\ job[v].kind = "login" /\ job[v].user = j.user
                           /\ job[v].proof < j.proof
<1>6. ASSUME NEW v \in Workers, Overtaken(v)
      PROVE  LET y == [job[v] EXCEPT !.raced = TRUE] IN
             /\ y \in Job /\ y.kind = "login" /\ y.phase = job[v].phase /\ y.user = job[v].user
             /\ y.client = job[v].client /\ y.token = job[v].token /\ y.list = job[v].list
             /\ y.proof = job[v].proof /\ y.admitted = job[v].admitted /\ y.raced
  BY <1>6 DEF IInv, TypeOK, Job
<1>7. \A v \in Workers : job'[v] = IF v = w THEN x
                                   ELSE IF Overtaken(v) THEN [job[v] EXCEPT !.raced = TRUE]
                                   ELSE job[v]
  BY <1>1, <1>4 DEF ListUser
<1> HIDE DEF Overtaken
<1>8. job'[w] = x /\ x # Nothing
  BY <1>5, <1>7, NothingAssumption
<1>9. ASSUME NEW v \in Workers \ {w}
      PROVE  \/ job'[v] = job[v] /\ ~Overtaken(v)
             \/ /\ job'[v] \in Job /\ Overtaken(v) /\ Alike(v) /\ job'[v].kind = "login"
                /\ job'[v].raced
  <2>1. CASE ~Overtaken(v)
    BY <1>7, <2>1
  <2>2. CASE Overtaken(v)
    <3>1. PICK y : y = [job[v] EXCEPT !.raced = TRUE]
      OBVIOUS
    <3>2. job'[v] = y
      BY <1>7, <2>2, <3>1
    <3>3. /\ y \in Job /\ y.kind = "login" /\ y.phase = job[v].phase /\ y.user = job[v].user
          /\ y.client = job[v].client /\ y.token = job[v].token /\ y.list = job[v].list
          /\ y.proof = job[v].proof /\ y.admitted = job[v].admitted /\ y.raced
      BY <1>6, <2>2, <3>1
    <3>4. job[v] # Nothing /\ job[v].kind = "login" /\ y # Nothing
      BY <2>2, <3>3, NothingAssumption DEF Overtaken
    <3> QED
      BY <2>2, <3>2, <3>3, <3>4 DEF Alike
  <2> QED
    BY <2>1, <2>2
<1>10. job' \in [Workers -> Job \cup {Nothing}]
  <2>1. \A v \in Workers : job'[v] \in Job \cup {Nothing}
    BY <1>5, <1>8, <1>9 DEF IInv, TypeOK
  <2>2. \E f : job' = [v \in Workers |-> f[v]]
    <3>1. job' = [v \in Workers |-> job'[v]]
      BY DEF ListUser
    <3> QED
      BY <3>1
  <2> QED
    BY <2>1, <2>2
<1>11. TypeOK'
  BY <1>2, <1>10 DEF IInv, TypeOK
<1>12. Employed /\ Counted' \subseteq Counted
  BY <1>2, SameAccounts DEF IInv
<1>13. \A s \in Sessions : Ending(s)
  BY <1>2, Unstarted
<1>14. Kept /\ NoneOpened
  BY <1>13, EndingIs
<1>15. \A v \in Workers : Quiet(v, Harmless(job'[v]))
  <2>1. Quiet(w, Harmless(job'[w]))
    BY <1>5, <1>8 DEF Quiet, Harmless, LetsNoDevice, InvitesNobody, RenewsNothing
  <2> QED
    BY <1>9, <2>1 DEF Quiet
<1>16. Limits'
  BY <1>2, <1>12, <1>13, <1>15, LimitsQuiet DEF IInv
<1>17. \A s \in Sessions : session[s].status # "none" <=> session'[s].status # "none"
  BY <1>2
<1>18. ASSUME NEW v \in Workers PROVE Handled(v)
  <2>1. CASE job'[v] = job[v]
    BY <2>1 DEF Handled, Steady
  <2>2. CASE job'[v] # job[v]
    <3>1. PICK i : i = job[v]
      OBVIOUS
    <3>2. PICK y : y = job'[v]
      OBVIOUS
    <3>3. /\ i # Nothing /\ y # Nothing /\ i.kind = y.kind /\ i.user = y.user
          /\ i.client = y.client /\ i.token = y.token /\ (y.phase = "answer" <=> i.phase = "answer")
      BY <1>1, <1>2, <1>5, <1>8, <1>9, <2>2, <3>1, <3>2 DEF Alike
    <3>4. \A s \in y.list : session[s].status # "none"
      <4>1. CASE v = w
        BY <1>5, <1>8, <3>2, <4>1 DEF NotRevoked
      <4>2. CASE v # w
        BY <1>9, <2>2, <3>1, <3>2, <3>3, <4>2 DEF Alike, IInv, References, RequestOK
      <4> QED
        BY <4>1, <4>2
    <3>5. RequestOK(i)
      BY <3>1, <3>3 DEF IInv, References
    <3>6. RequestOK(y)'
      BY <1>2, <3>3, <3>4, <3>5 DEF RequestOK, Names
    <3>7. RequestOK(job[v])'
      BY <3>2, <3>6 DEF RequestOK, Names
    <3>8. Steady(v)
      BY <3>1, <3>2, <3>3 DEF Steady
    <3> QED
      BY <3>7, <3>8 DEF Handled
  <2> QED
    BY <2>1, <2>2
<1>19. ResetProves(j)
  BY <1>1, <1>2 DEF IInv, Passwords, Resetting
<1>20. ASSUME NEW v \in Workers, LoggingIn(v)'
       PROVE  /\ v # w /\ LoggingIn(v) /\ job'[v].user = job[v].user /\ job'[v].proof = job[v].proof
              /\ job[v].raced => job'[v].raced
              /\ job'[v].user = j.user /\ job'[v].proof < j.proof => job'[v].raced
  <2>1. v # w
    BY <1>5, <1>8, <1>20 DEF LoggingIn
  <2> QED
    BY <1>9, <1>20, <2>1 DEF LoggingIn, Alike, Overtaken
<1>21. Passwords'
  <2>1. \A u \in Users : closed'[u] <= account'[u].password /\ Old(u, closed[u])' = {}
    BY <1>2 DEF IInv, Passwords, Old, NotRevoked
  <2>2. ASSUME NEW v \in Workers, LoggingIn(v)' PROVE LoginProves(job[v])'
    <3>1. LoginProves(job[v])
      BY <1>20, <2>2 DEF IInv, Passwords
    <3> QED
      BY <1>2, <1>20, <2>2, <3>1 DEF LoginProves
  <2>3. ASSUME NEW v \in Workers, Resetting(v, {"list", "revoke"})' PROVE ResetProves(job[v])'
    <3>1. PICK i : i = job'[v]
      OBVIOUS
    <3>2. CASE v = w
      <4>1. i = x
        BY <1>8, <3>1, <3>2
      <4>2. Old(x.user, x.proof)' \subseteq x.list
        BY <1>2, <1>5 DEF Old, NotRevoked
      <4>3. x.proof <= account'[x.user].password
        BY <1>2, <1>5, <1>19 DEF ResetProves
      <4>4. ResetProves(x)'
        BY <1>5, <1>20, <4>2, <4>3 DEF ResetProves
      <4> QED
        BY <3>1, <4>1, <4>4 DEF ResetProves, Old, NotRevoked
    <3>3. CASE v # w
      <4>1. i = job[v] /\ Resetting(v, {"list", "revoke"})
        BY <1>9, <2>3, <3>1, <3>3 DEF Resetting
      <4>2. ResetProves(i)
        BY <4>1 DEF IInv, Passwords
      <4>3. ResetProves(i)'
        BY <1>2, <1>20, <4>2 DEF ResetProves, Old, NotRevoked
      <4> QED
        BY <3>1, <4>3 DEF ResetProves, Old, NotRevoked
    <3> QED
      BY <3>2, <3>3
  <2> QED
    BY <2>1, <2>2, <2>3 DEF Passwords
<1> QED
  BY <1>2, <1>11, <1>12, <1>13, <1>16, <1>18, <1>21, Unstarted, MostKeeps

(***************************************************************************)
(* Employees who are let in.                                               *)
(***************************************************************************)
LEMMA OneMore ==
    ASSUME TypeOK, NEW u \in Users, NEW a \in AccountRow, account' = [account EXCEPT ![u] = a],
           a.password >= account[u].password, a.status # "NONE"
    PROVE  /\ account' \in [Users -> AccountRow] /\ Employed /\ Counted' \subseteq Counted \cup {u}
<1>1. /\ account' \in [Users -> AccountRow] /\ account'[u] = a
      /\ \A x \in Users \ {u} : account'[x] = account[x]
  BY OneAccount
<1>2. \A x \in Users : account[x].password \in Nat
  BY DEF TypeOK
<1>3. Employed
  BY <1>1, <1>2 DEF Employed
<1>4. Counted' \subseteq Counted \cup {u}
  BY <1>1 DEF Counted, Users
<1> QED
  BY <1>1, <1>3, <1>4

LEMMA EmployeesStep ==
    ASSUME IInv, TypeOK', UNCHANGED <<device, session, app, overlapped, closed>>,
           Employed, EmployeesFit',
           \A v \in Workers : /\ Handled(v) /\ Proven(v)
                              /\ Quiet(v, LetsNoDevice(job'[v])) /\ Quiet(v, RenewsNothing(job'[v]))
    PROVE  IInv'
<1>1. \A s \in Sessions : Ending(s)
  BY Unstarted
<1>2. Calm /\ NoneOpened
  BY <1>1, EndingIs
<1>3. Limits'
  BY <1>2, DevicesSame, SessionsSame DEF IInv, Limits
<1>4. \A u \in Users : account'[u].password \in Nat /\ account'[u].password >= account[u].password
  BY DEF TypeOK, Employed
<1>5. Passwords'
  BY <1>2, <1>4, PasswordsKeep DEF IInv
<1> QED
  BY <1>1, <1>3, <1>5, Unstarted, MostKeeps

LEMMA InviteKeeps ==
    ASSUME IInv, NEW w \in Workers, NEW e \in Employees,
           StartAdmit(w, e) \/ StartTemporaryPassword(w, e)
    PROVE  IInv'
<1>1. PICK kind \in {"admit", "password"} : Goes(w, NewJob(kind, "write", e)) /\ Spend(kind)
  BY DEF StartAdmit, StartTemporaryPassword
<1>2. /\ UNCHANGED <<account, device, session, reset, app, overlapped, closed, reactivated>>
      /\ job[w] = Nothing /\ (e \in Counted \/ Cardinality(Counted) < MaxEmployees)
  BY DEF StartAdmit, StartTemporaryPassword, Idle
<1>3. PICK j : j = NewJob(kind, "write", e)
  OBVIOUS
<1>4. /\ j \in Job /\ j.kind = kind /\ j.phase = "write" /\ j.user = e
      /\ j.client = Nothing /\ j.list = {}
  <2>1. kind \in RequestKinds /\ "write" \in Phases /\ e \in Users
    BY DEF RequestKinds, Phases, Users
  <2> QED
    BY <1>3, <2>1, NewJobIs
<1>5. Turn(w, j)
  BY <1>1, <1>3, <1>4, GoesTurns DEF IInv
<1>6. job'[w] = j /\ \A v \in Workers \ {w} : job'[v] = job[v]
  BY <1>5 DEF Turn
<1>7. TypeOK'
  <2>1. kind \in RequestKinds
    BY DEF RequestKinds
  <2>2. budget' \in [RequestKinds -> Nat]
    BY <1>1, <2>1, SpendKeeps DEF IInv
  <2> QED
    BY <1>2, <1>5, <2>2 DEF IInv, TypeOK, Turn
<1>8. Employed
  BY <1>2, SameAccounts DEF IInv
<1>9. EmployeesFit'
  <2>1. Counted' = Counted
    BY <1>2 DEF Counted
  <2>2. CASE e \in Counted
    <3>1. ASSUME NEW v \in Inviting' PROVE job'[v].user \in Welcome
      BY <1>4, <1>6, <2>2 DEF Inviting, Welcome
    <3>2. Welcome' \subseteq Welcome
      BY <2>1, <3>1 DEF Welcome
    <3> QED
      BY <1>2, <3>2, EmployeesKeep DEF IInv, Limits
  <2>3. CASE Cardinality(Counted) < MaxEmployees
    <3> DEFINE f == [v \in Inviting' |-> job'[v].user]
    <3>1. IsFiniteSet(Counted) /\ Cardinality(Counted) \in Nat
      <4>1. Counted \subseteq Employees
        BY DEF Counted
      <4> QED
        BY <4>1, Counts, Fewer
    <3>2. Inviting' \in SUBSET Workers
      BY DEF Inviting
    <3>3. /\ IsFiniteSet({f[v] : v \in Inviting'})
          /\ Cardinality(Counted \cup {f[v] : v \in Inviting'})
                 <= Cardinality(Counted) + Cardinality(Workers)
      BY <3>1, <3>2, BroughtAlong
    <3>4. Welcome' = Counted \cup {f[v] : v \in Inviting'}
      BY <2>1 DEF Welcome
    <3> HIDE DEF f
    <3>5. Cardinality(Welcome') \in Nat
      BY <3>1, <3>3, <3>4, AtMostSum
    <3>6. Cardinality(Workers) \in Nat /\ MaxEmployees \in Nat /\ reactivated' \in Nat
      BY <1>7, Counts, AccessAssumption DEF TypeOK
    <3>7. Cardinality(Welcome') <= Cardinality(Counted) + Cardinality(Workers)
      BY <3>3, <3>4
    <3> QED
      BY <2>3, <3>1, <3>5, <3>6, <3>7 DEF EmployeesFit
  <2> QED
    BY <1>2, <2>2, <2>3
<1>10. ASSUME NEW v \in Workers
       PROVE  /\ Handled(v) /\ Proven(v)
              /\ Quiet(v, LetsNoDevice(job'[v])) /\ Quiet(v, RenewsNothing(job'[v]))
  <2>1. CASE v = w
    <3>1. RequestOK(j)'
      BY <1>4 DEF RequestOK
    <3>2. RequestOK(job[w])'
      BY <1>6, <3>1 DEF RequestOK, Names
    <3>3. Steady(w)
      BY <1>2, <1>4, <1>6 DEF Steady
    <3>4. Proven(w) /\ Quiet(w, LetsNoDevice(job'[w])) /\ Quiet(w, RenewsNothing(job'[w]))
      BY <1>4, <1>6 DEF Proven, Quiet, LetsNoDevice, RenewsNothing
    <3> QED
      BY <2>1, <3>2, <3>3, <3>4 DEF Handled
  <2>2. CASE v # w
    BY <1>6, <2>2 DEF Handled, Steady, Proven, Quiet
  <2> QED
    BY <2>1, <2>2
<1> QED
  BY <1>2, <1>7, <1>8, <1>9, <1>10, EmployeesStep

LEMMA WrittenIs ==
    ASSUME IInv, NEW w \in Workers, Admit(w) \/ WriteTemporaryPassword(w) \/ ReactivateAccess(w)
    PROVE  /\ job[w] # Nothing /\ job[w].user \in Employees
           /\ account' \in [Users -> AccountRow] /\ Employed
           /\ Counted' \subseteq Counted \cup {job[w].user}
<1>1. /\ job[w] # Nothing /\ job[w] \in Job
      /\ job[w].kind \in {"admit", "password", "reactivate"}
  BY DEF Admit, WriteTemporaryPassword, ReactivateAccess, In, IInv, TypeOK
<1>2. job[w].user \in Employees
  BY <1>1 DEF IInv, References, RequestOK
<1>3. PICK u \in Users : u = job[w].user
  BY <1>2 DEF Users
<1>4. account[u] \in AccountRow /\ account[u].password \in Nat
  BY DEF IInv, TypeOK, AccountRow
<1>5. \E a \in AccountRow : /\ account' = [account EXCEPT ![u] = a]
                            /\ a.password >= account[u].password /\ a.status # "NONE"
  <2>1. ASSUME NEW status \in {"ACTIVE", "INVITED"},
               account' = [account EXCEPT ![u].status = status]
        PROVE  \E a \in AccountRow : /\ account' = [account EXCEPT ![u] = a]
                                     /\ a.password >= account[u].password /\ a.status # "NONE"
    <3>1. PICK a : a = [account[u] EXCEPT !.status = status]
      OBVIOUS
    <3>2. a \in AccountRow /\ a.password = account[u].password /\ a.status = status
      BY <1>4, <3>1 DEF AccountRow
    <3>3. account' = [account EXCEPT ![u] = a]
      BY <2>1, <3>1
    <3>4. a.password >= account[u].password
      BY <1>4, <3>2
    <3> QED
      BY <3>2, <3>3, <3>4
  <2>2. ASSUME WriteTemporaryPassword(w)
        PROVE  \E a \in AccountRow : /\ account' = [account EXCEPT ![u] = a]
                                     /\ a.password >= account[u].password /\ a.status # "NONE"
    <3>1. PICK a : a = [status |-> "ACTIVE", password |-> account[u].password + 1,
                        mustChange |-> TRUE]
      OBVIOUS
    <3>2. account[u].password + 1 \in Nat /\ account[u].password + 1 >= account[u].password
      BY <1>4
    <3>3. a \in AccountRow /\ a.password >= account[u].password /\ a.status # "NONE"
      BY <3>1, <3>2 DEF AccountRow
    <3>4. account' = [account EXCEPT ![u] = a]
      BY <1>3, <2>2, <3>1 DEF WriteTemporaryPassword
    <3> QED
      BY <3>3, <3>4
  <2> QED
    BY <1>3, <2>1, <2>2 DEF Admit, ReactivateAccess
<1> QED
  BY <1>1, <1>2, <1>3, <1>5, OneMore DEF IInv

LEMMA WrittenKeeps ==
    ASSUME IInv, NEW w \in Workers, Admit(w) \/ WriteTemporaryPassword(w) \/ ReactivateAccess(w)
    PROVE  IInv'
<1>1. /\ job[w] # Nothing /\ job[w].user \in Employees
      /\ account' \in [Users -> AccountRow] /\ Employed
      /\ Counted' \subseteq Counted \cup {job[w].user}
  BY WrittenIs
<1>2. /\ UNCHANGED <<device, session, reset, app, budget, overlapped, closed>>
      /\ Turn(w, Nothing)
      /\ \/ job[w].kind \in {"admit", "password"} /\ reactivated' = reactivated
         \/ job[w].kind = "reactivate" /\ reactivated' = reactivated + 1
  BY EndsTurns DEF Admit, WriteTemporaryPassword, ReactivateAccess, In, IInv
<1>3. job'[w] = Nothing /\ \A v \in Workers \ {w} : job'[v] = job[v]
  BY <1>2 DEF Turn
<1>4. reactivated' \in Nat /\ reactivated \in Nat
  BY <1>2 DEF IInv, TypeOK
<1>5. TypeOK'
  BY <1>1, <1>2, <1>4 DEF IInv, TypeOK, Turn, AccountRow
<1>6. \A v \in Workers : Minor(v)
  BY <1>2, EndIsMinor DEF Refreshing
<1>7. \A v \in Workers : /\ Handled(v) /\ Proven(v)
                         /\ Quiet(v, LetsNoDevice(job'[v])) /\ Quiet(v, RenewsNothing(job'[v]))
  BY <1>6 DEF Minor, Handled, Quiet, Harmless
<1>8. Inviting' \subseteq Inviting /\ \A v \in Inviting' : job'[v].user = job[v].user
  BY <1>3 DEF Inviting
<1>9. Welcome' \subseteq Welcome \cup {job[w].user}
  BY <1>1, <1>8 DEF Welcome
<1>10. EmployeesFit'
  <2>1. CASE job[w].kind \in {"admit", "password"} /\ reactivated' = reactivated
    <3>1. job[w].user \in Welcome
      BY <1>1, <2>1 DEF Welcome, Inviting
    <3> QED
      BY <1>9, <2>1, <3>1, EmployeesKeep DEF IInv, Limits
  <2>2. CASE reactivated' = reactivated + 1
    <3>1. IsFiniteSet(Welcome) /\ IsFiniteSet({job[w].user}) /\ Cardinality({job[w].user}) = 1
      BY WhatIsCounted, FS_Singleton DEF IInv
    <3>2. /\ IsFiniteSet(Welcome \cup {job[w].user})
          /\ Cardinality(Welcome \cup {job[w].user}) \in Nat /\ Cardinality(Welcome) \in Nat
          /\ Cardinality(Welcome \cup {job[w].user}) <= Cardinality(Welcome) + 1
      BY <3>1, AtMostSum
    <3>3. /\ Cardinality(Welcome') \in Nat
          /\ Cardinality(Welcome') <= Cardinality(Welcome \cup {job[w].user})
      BY <1>9, <3>2, Fewer
    <3>4. Cardinality(Workers) \in Nat /\ MaxEmployees \in Nat
      BY Counts, AccessAssumption
    <3>5. Cardinality(Welcome) + 1 <= MaxEmployees + Cardinality(Workers) + reactivated
      BY DEF IInv, Limits, EmployeesFit
    <3> QED
      BY <1>4, <2>2, <3>2, <3>3, <3>4, <3>5 DEF EmployeesFit
  <2> QED
    BY <1>2, <2>1, <2>2
<1> QED
  BY <1>1, <1>2, <1>5, <1>7, <1>10, EmployeesStep

(***************************************************************************)
(* Requests of a client on their way to the session.                       *)
(***************************************************************************)
LEMMA PhaseKeeps ==
    ASSUME IInv, TypeOK', UNCHANGED <<account, session, app, overlapped, closed, reactivated>>,
           NEW w \in Workers, NEW x \in Job, Turn(w, x), job[w] # Nothing,
           job[w].kind \in {"login", "refresh"}, x.kind = job[w].kind, x.user = job[w].user,
           x.client = job[w].client, x.token = job[w].token, x.proof = job[w].proof,
           x.raced = job[w].raced, x.phase # "answer", job[w].phase # "answer",
           \A s \in x.list : session[s].status # "none",
           DevicesFit', \A c \in Clients : SessionsFit(c)'
    PROVE  IInv'
<1>1. \A s \in Sessions : Ending(s)
  BY Unstarted
<1>2. Kept /\ NoneOpened
  BY <1>1, EndingIs
<1>3. \A v \in Workers : Handled(v)
  BY <1>2, GoesOn
<1>4. job'[w] = x /\ x # Nothing /\ \A v \in Workers \ {w} : job'[v] = job[v]
  BY NothingAssumption DEF Turn
<1>5. Employed /\ Counted' \subseteq Counted
  BY SameAccounts DEF IInv
<1>6. Limits'
  <2>1. \A v \in Workers : Quiet(v, InvitesNobody(job'[v]))
    BY <1>4 DEF Quiet, InvitesNobody
  <2>2. EmployeesFit'
    BY <1>5, <2>1, EmployeesSame DEF IInv
  <2> QED
    BY <2>2 DEF Limits
<1>7. Passwords'
  <2>1. \A v \in Workers : Proven(v)
    BY <1>4 DEF Proven, LoggingIn
  <2>2. \A u \in Users : /\ account'[u].password \in Nat
                         /\ account'[u].password >= account[u].password
    BY <1>5 DEF TypeOK, Employed
  <2> QED
    BY <1>2, <2>1, <2>2, PasswordsKeep DEF IInv
<1> QED
  BY <1>1, <1>3, <1>5, <1>6, <1>7, Unstarted, MostKeeps

LEMMA SessionsTurn ==
    ASSUME TypeOK, Limits, UNCHANGED session, NEW w \in Workers, NEW x, Turn(w, x),
           x # Nothing /\ x.kind = "refresh" /\ x.phase \in {"device", "rotate"} =>
               Renewed(x.token.session) \/ session[x.token.session].status = "live",
           ~(x # Nothing /\ x.kind = "login" /\ x.phase = "revoke")
    PROVE  \A c \in Clients : SessionsFit(c)'
<1> SUFFICES ASSUME NEW c \in Clients PROVE SessionsFit(c)'
  OBVIOUS
<1>1. job'[w] = x /\ \A v \in Workers \ {w} : job'[v] = job[v]
  BY DEF Turn
<1>2. ASSUME NEW s \in Sessions, Renewed(s)' PROVE Renewed(s) \/ session[s].status = "live"
  <2>1. PICK v \in Workers : /\ Refreshing(v)' /\ job'[v].phase \in {"device", "rotate"}
                             /\ job'[v].token.session = s
    BY <1>2 DEF Renewed
  <2>2. CASE v = w
    BY <1>1, <2>1, <2>2 DEF Refreshing
  <2>3. CASE v # w
    BY <1>1, <2>1, <2>3 DEF Refreshing, Renewed
  <2> QED
    BY <2>2, <2>3
<1>3. Calm
  BY DEF Calm
<1>4. Usable(c)' \subseteq Usable(c)
  BY <1>2, <1>3, UsableShrinks
<1>5. /\ Replacing(c)' \subseteq Replacing(c)
      /\ \A v \in Replacing(c)' : job'[v].list = job[v].list
  BY <1>1 DEF Replacing, LoggingIn
<1> QED
  BY <1>4, <1>5, SessionsKeep DEF Limits

LEMMA FindSessionKeeps == ASSUME IInv, NEW w \in Workers, FindSession(w) PROVE IInv'
<1>1. PICK j \in Job : j = job[w]
  BY DEF FindSession, In, IInv, TypeOK
<1>2. /\ UNCHANGED <<account, device, session, reset, app, budget, overlapped, closed, reactivated>>
      /\ j # Nothing /\ j.kind = "refresh" /\ j.phase = "find"
  BY <1>1 DEF FindSession, In
<1>3. PICK phase \in {"device", "refused"} :
        /\ Goes(w, [job[w] EXCEPT !.phase = phase])
        /\ phase = "device" => session[j.token.session].status = "live"
  BY <1>1 DEF FindSession
<1>4. PICK x \in Job : Turn(w, x) /\ x.phase = phase /\ Rest(x, job[w])
  <2>1. phase \in Phases
    BY DEF Phases
  <2> QED
    BY <1>1, <1>2, <1>3, <2>1, PhaseOnly DEF IInv
<1>5. TypeOK'
  BY <1>2, <1>4 DEF IInv, TypeOK, Turn
<1>6. \A c \in Clients : SessionsFit(c)'
  BY <1>1, <1>2, <1>3, <1>4, SessionsTurn DEF IInv, Rest
<1>7. DevicesFit'
  <2>1. \A v \in Workers : Quiet(v, LetsNoDevice(job'[v]))
    BY <1>3, <1>4 DEF Quiet, LetsNoDevice, Turn
  <2> QED
    BY <1>2, <2>1, DevicesSame DEF IInv
<1>8. \A s \in x.list : session[s].status # "none"
  BY <1>1, <1>2, <1>4 DEF IInv, References, RequestOK, Rest
<1> QED
  BY <1>1, <1>2, <1>3, <1>4, <1>5, <1>6, <1>7, <1>8, PhaseKeeps DEF Rest

LEMMA FindDeviceKeeps == ASSUME IInv, NEW w \in Workers, FindDevice(w) PROVE IInv'
<1>1. PICK j \in Job : j = job[w]
  BY DEF FindDevice, In, IInv, TypeOK
<1>2. /\ UNCHANGED <<account, device, session, reset, app, budget, overlapped, closed, reactivated>>
      /\ j # Nothing /\ j.kind \in {"login", "refresh"} /\ j.phase = "device"
  BY <1>1 DEF FindDevice, In
<1>3. j.client \in Clients
  BY <1>1, <1>2 DEF IInv, References, RequestOK, Job
<1>4. device[j.client] \in {"NONE", "ACTIVE", "BLOCKED"}
  BY <1>3 DEF IInv, TypeOK
<1>5. \E x \in Job :
        /\ Turn(w, x) /\ x.phase \in {"list", "rotate", "refused", "create"}
        /\ x.kind = j.kind /\ x.user = j.user /\ x.client = j.client /\ x.token = j.token
        /\ x.list = j.list /\ x.proof = j.proof /\ x.raced = j.raced
        /\ x.phase = "create" => x.admitted = HasRoom(j.user)
  <2>1. CASE device[j.client] # "NONE"
    <3>1. PICK phase \in {"list", "rotate", "refused"} : Goes(w, [j EXCEPT !.phase = phase])
      <4>1. CASE device[j.client] = "ACTIVE"
        BY <1>1, <4>1, Zenon DEF FindDevice
      <4>2. CASE device[j.client] = "BLOCKED"
        BY <1>1, <4>2, Zenon DEF FindDevice
      <4> QED
        BY <1>4, <2>1, <4>1, <4>2
    <3>2. phase \in Phases
      BY DEF Phases
    <3>3. PICK x \in Job : Turn(w, x) /\ x.phase = phase /\ Rest(x, job[w])
      BY <1>1, <1>2, <3>1, <3>2, PhaseOnly DEF IInv
    <3> QED
      BY <1>1, <3>3 DEF Rest
  <2>2. CASE device[j.client] = "NONE"
    <3>1. Goes(w, [j EXCEPT !.phase = "create", !.admitted = HasRoom(j.user)])
      BY <1>1, <2>2, Zenon DEF FindDevice
    <3>2. PICK room \in BOOLEAN : room = HasRoom(j.user)
      <4>1. HasRoom(j.user) \in BOOLEAN
        BY DEF HasRoom
      <4> QED
        BY <4>1
    <3>3. PICK x : x = [j EXCEPT !.phase = "create", !.admitted = room]
      OBVIOUS
    <3>4. /\ x \in Job /\ x.phase = "create" /\ x.admitted = room
          /\ x.kind = j.kind /\ x.user = j.user /\ x.client = j.client /\ x.token = j.token
          /\ x.list = j.list /\ x.proof = j.proof /\ x.raced = j.raced
      BY <3>3 DEF Job, Phases
    <3>5. Goes(w, x)
      BY <3>1, <3>2, <3>3
    <3>6. Turn(w, x)
      BY <3>4, <3>5, GoesTurns DEF IInv
    <3> QED
      BY <3>2, <3>4, <3>6
  <2> QED
    BY <2>1, <2>2
<1>6. PICK x \in Job :
        /\ Turn(w, x) /\ x.phase \in {"list", "rotate", "refused", "create"}
        /\ x.kind = j.kind /\ x.user = j.user /\ x.client = j.client /\ x.token = j.token
        /\ x.list = j.list /\ x.proof = j.proof /\ x.raced = j.raced
        /\ x.phase = "create" => x.admitted = HasRoom(j.user)
  BY <1>5
<1>7. TypeOK'
  BY <1>2, <1>6 DEF IInv, TypeOK, Turn
<1>8. job'[w] = x /\ \A v \in Workers \ {w} : job'[v] = job[v]
  BY <1>6 DEF Turn
<1>9. \A c \in Clients : SessionsFit(c)'
  <2>1. j.kind = "refresh" => Renewed(j.token.session)
    BY <1>1, <1>2 DEF Renewed, Refreshing
  <2> QED
    BY <1>2, <1>6, <2>1, SessionsTurn DEF IInv
<1>10. DevicesFit'
  <2>1. CASE LetsNoDevice(x)
    <3>1. \A v \in Workers : Quiet(v, LetsNoDevice(job'[v]))
      BY <1>8, <2>1 DEF Quiet, LetsNoDevice
    <3> QED
      BY <1>2, <3>1, DevicesSame DEF IInv
  <2>2. CASE ~LetsNoDevice(x)
    <3> DEFINE f == [v \in Admitting' |-> job'[v].client]
    <3>1. HasRoom(j.user)
      BY <1>6, <2>2 DEF LetsNoDevice
    <3>2. IsFiniteSet(ActiveDevices) /\ Cardinality(ActiveDevices) \in Nat
      <4>1. ActiveDevices \subseteq Clients
        BY DEF ActiveDevices
      <4> QED
        BY <4>1, Counts, Fewer
    <3>3. MaxDevices \in Nat /\ Cardinality(Workers) \in Nat /\ MaxDevices # 0
      BY AccessAssumption, Counts
    <3>4. Cardinality(ActiveDevices) + 1 <= MaxDevices
      <4>1. CASE ActiveDevices = {}
        <5>1. Cardinality(ActiveDevices) = 0
          BY <4>1, FS_EmptySet
        <5> QED
          BY <3>3, <5>1
      <4>2. CASE Cardinality(ActiveDevices) < MaxDevices
        BY <3>2, <3>3, <4>2
      <4> QED
        BY <3>1, <4>1, <4>2 DEF HasRoom
    <3>5. Admitting' \in SUBSET Workers
      BY DEF Admitting
    <3>6. /\ IsFiniteSet({f[v] : v \in Admitting'})
          /\ Cardinality(ActiveDevices \cup {f[v] : v \in Admitting'})
                 <= Cardinality(ActiveDevices) + Cardinality(Workers)
      BY <3>2, <3>5, BroughtAlong
    <3>7. Admitted' = ActiveDevices \cup {f[v] : v \in Admitting'}
      BY <1>2 DEF Admitted, ActiveDevices
    <3> HIDE DEF f
    <3>8. Cardinality(Admitted') \in Nat
      BY <3>2, <3>6, <3>7, AtMostSum
    <3>9. Cardinality(Admitted') <= Cardinality(ActiveDevices) + Cardinality(Workers)
      BY <3>6, <3>7
    <3> QED
      BY <3>2, <3>3, <3>4, <3>8, <3>9 DEF DevicesFit
  <2> QED
    BY <2>1, <2>2
<1>11. \A s \in x.list : session[s].status # "none"
  BY <1>1, <1>2, <1>6 DEF IInv, References, RequestOK
<1> QED
  BY <1>1, <1>2, <1>6, <1>7, <1>9, <1>10, <1>11, PhaseKeeps

LEMMA CreateDeviceKeeps == ASSUME IInv, NEW w \in Workers, CreateDevice(w) PROVE IInv'
<1>1. PICK j \in Job : j = job[w]
  BY DEF CreateDevice, In, IInv, TypeOK
<1>2. /\ UNCHANGED <<account, session, reset, app, budget, overlapped, closed, reactivated>>
      /\ j # Nothing /\ j.kind = "login" /\ j.phase = "create"
  BY <1>1 DEF CreateDevice, In
<1>3. j.client \in Clients
  BY <1>1, <1>2 DEF IInv, References, RequestOK, Job
<1>4. device \in [Clients -> {"NONE", "ACTIVE", "BLOCKED"}]
  BY DEF IInv, TypeOK
<1>5. Employed /\ Counted' \subseteq Counted
  BY <1>2, SameAccounts DEF IInv
<1>6. CASE Ends(w) /\ UNCHANGED device
  <2>1. Turn(w, Nothing)
    BY <1>6, EndsTurns DEF IInv
  <2>2. TypeOK'
    BY <1>2, <1>6, <2>1 DEF IInv, TypeOK, Turn
  <2>3. \A v \in Workers : Minor(v)
    BY <1>1, <1>2, <2>1, EndIsMinor DEF Refreshing
  <2> QED
    BY <1>2, <1>5, <1>6, <2>2, <2>3, Unstarted, Uneventful
<1>7. CASE device' = [device EXCEPT ![j.client] = "BLOCKED"] /\ Ends(w)
  <2>1. Turn(w, Nothing)
    BY <1>7, EndsTurns DEF IInv
  <2>2. job'[w] = Nothing /\ \A v \in Workers \ {w} : job'[v] = job[v]
    BY <2>1 DEF Turn
  <2>3. TypeOK'
    BY <1>2, <1>4, <1>7, <2>1 DEF IInv, TypeOK, Turn
  <2>4. \A v \in Workers : Minor(v)
    BY <1>1, <1>2, <2>1, EndIsMinor DEF Refreshing
  <2>5. \A s \in Sessions : Ending(s)
    BY <1>2, Unstarted
  <2>6. Calm /\ NoneOpened
    BY <2>5, EndingIs
  <2>7. DevicesFit'
    <3>1. ActiveDevices' \subseteq ActiveDevices
      BY <1>4, <1>7 DEF ActiveDevices
    <3>2. Admitting' \subseteq Admitting /\ \A v \in Admitting' : job'[v].client = job[v].client
      BY <2>2 DEF Admitting
    <3>3. Admitted' \subseteq Admitted
      BY <3>1, <3>2 DEF Admitted
    <3> QED
      BY <3>3, DevicesKeep DEF IInv, Limits
  <2>8. \A v \in Workers : /\ Quiet(v, InvitesNobody(job'[v])) /\ Quiet(v, RenewsNothing(job'[v]))
                           /\ Handled(v) /\ Proven(v)
    BY <2>4 DEF Minor, Quiet, Harmless, Handled
  <2>9. Limits'
    BY <1>2, <1>5, <2>6, <2>7, <2>8, EmployeesSame, SessionsSame DEF IInv, Limits
  <2>10. \A u \in Users : /\ account'[u].password \in Nat
                          /\ account'[u].password >= account[u].password
    BY <1>5, <2>3 DEF TypeOK, Employed
  <2>11. Passwords'
    BY <1>2, <2>6, <2>8, <2>10, PasswordsKeep DEF IInv
  <2> QED
    BY <1>2, <1>5, <2>3, <2>5, <2>8, <2>9, <2>11, Unstarted, MostKeeps
<1>8. CASE /\ j.admitted /\ device' = [device EXCEPT ![j.client] = "ACTIVE"]
           /\ Goes(w, [j EXCEPT !.phase = "list"])
  <2>1. PICK x \in Job : Turn(w, x) /\ x.phase = "list" /\ Rest(x, job[w])
    <3>1. "list" \in Phases
      BY DEF Phases
    <3> QED
      BY <1>1, <1>2, <1>8, <3>1, PhaseOnly DEF IInv
  <2>2. job'[w] = x /\ \A v \in Workers \ {w} : job'[v] = job[v]
    BY <2>1 DEF Turn
  <2>3. TypeOK'
    BY <1>2, <1>4, <1>8, <2>1 DEF IInv, TypeOK, Turn
  <2>4. DevicesFit'
    <3>1. ActiveDevices' \subseteq ActiveDevices \cup {j.client}
      BY <1>4, <1>8 DEF ActiveDevices
    <3>2. Admitting' \subseteq Admitting /\ \A v \in Admitting' : job'[v].client = job[v].client
      BY <2>1, <2>2 DEF Admitting
    <3>3. j.client \in Admitted
      BY <1>1, <1>2, <1>8 DEF Admitted, Admitting
    <3>4. Admitted' \subseteq Admitted
      BY <3>1, <3>2, <3>3 DEF Admitted
    <3> QED
      BY <3>4, DevicesKeep DEF IInv, Limits
  <2>5. \A c \in Clients : SessionsFit(c)'
    BY <1>1, <1>2, <2>1, SessionsTurn DEF IInv, Rest
  <2>6. \A s \in x.list : session[s].status # "none"
    BY <1>1, <1>2, <2>1 DEF IInv, References, RequestOK, Rest
  <2> QED
    BY <1>1, <1>2, <2>1, <2>3, <2>4, <2>5, <2>6, PhaseKeeps DEF Rest
<1>9. \/ Ends(w) /\ UNCHANGED device
      \/ device' = [device EXCEPT ![j.client] = "BLOCKED"] /\ Ends(w)
      \/ /\ j.admitted /\ device' = [device EXCEPT ![j.client] = "ACTIVE"]
         /\ Goes(w, [j EXCEPT !.phase = "list"])
  BY <1>1, Zenon DEF CreateDevice
<1> QED
  BY <1>6, <1>7, <1>8, <1>9

LEMMA EachBringsOne ==
    ASSUME NEW V \in SUBSET Workers, NEW f, f = [v \in V |-> f[v]]
    PROVE  /\ IsFiniteSet({f[v] : v \in V}) /\ IsFiniteSet(V)
           /\ Cardinality({f[v] : v \in V}) \in Nat /\ Cardinality(V) \in Nat
           /\ Cardinality({f[v] : v \in V}) <= Cardinality(V)
<1> DEFINE T == {f[v] : v \in V}
<1>1. IsFiniteSet(V) /\ Cardinality(V) \in Nat
  BY Fewer, Counts
<1>2. f \in Surjection(V, T)
  BY DEF Surjection
<1> HIDE DEF T
<1>3. IsFiniteSet(T) /\ Cardinality(T) <= Cardinality(V)
  BY <1>1, <1>2, FS_Surjection
<1>4. Cardinality(T) \in Nat
  BY <1>3, FS_CardinalityType
<1> QED
  BY <1>1, <1>3, <1>4 DEF T

\* What a login does not list, a refresh is about to bring back.
LEMMA ListClientKeeps == ASSUME IInv, NEW w \in Workers, ListClient(w) PROVE IInv'
<1>1. PICK j \in Job : j = job[w]
  BY DEF ListClient, In, IInv, TypeOK
<1>2. /\ UNCHANGED <<account, device, session, reset, app, budget, overlapped, closed, reactivated>>
      /\ j # Nothing /\ j.kind = "login" /\ j.phase = "list"
      /\ Goes(w, [j EXCEPT !.phase = "revoke", !.list = Live(j.client)])
  BY <1>1 DEF ListClient, In
<1>3. PICK x : x = [j EXCEPT !.phase = "revoke", !.list = Live(j.client)]
  OBVIOUS
<1>4. /\ x \in Job /\ x.kind = "login" /\ x.phase = "revoke" /\ x.user = j.user
      /\ x.client = j.client /\ x.token = j.token /\ x.proof = j.proof /\ x.raced = j.raced
      /\ x.list = Live(j.client)
  BY <1>2, <1>3 DEF Job, Phases, Live
<1>5. Turn(w, x)
  BY <1>2, <1>3, <1>4, GoesTurns DEF IInv
<1>6. job'[w] = x /\ \A v \in Workers \ {w} : job'[v] = job[v]
  BY <1>5 DEF Turn
<1>7. TypeOK'
  BY <1>2, <1>5 DEF IInv, TypeOK, Turn
<1>8. DevicesFit'
  <2>1. \A v \in Workers : Quiet(v, LetsNoDevice(job'[v]))
    BY <1>4, <1>6 DEF Quiet, LetsNoDevice
  <2> QED
    BY <1>2, <2>1, DevicesSame DEF IInv
<1>9. \A s \in x.list : session[s].status # "none"
  BY <1>4 DEF Live
<1>10. ASSUME NEW v \in Workers, Refreshing(v)' PROVE v # w /\ Refreshing(v) /\ job'[v] = job[v]
  BY <1>4, <1>6, <1>10 DEF Refreshing
<1>11. \A c \in Clients : Usable(c)' \subseteq Usable(c)
  <2>1. \A s \in Sessions : Renewed(s)' => Renewed(s)
    BY <1>10 DEF Renewed
  <2>2. Calm
    BY <1>2 DEF Calm
  <2> QED
    BY <2>1, <2>2, UsableShrinks DEF IInv
<1>12. ASSUME NEW c \in Clients, NEW E \in SUBSET Replacing(c)'
       PROVE  Cardinality(Usable(c)' \ Listed(E)') + Cardinality(E) <= Cardinality(Workers)
  <2>1. E \subseteq Workers
    BY DEF Replacing
  <2>2. IsFiniteSet(E) /\ Cardinality(E) \in Nat /\ Cardinality(Workers) \in Nat
    BY <2>1, Counts, Fewer
  <2>3. CASE w \notin E
    <3>1. E \in SUBSET Replacing(c)
      BY <1>6, <2>1, <2>3 DEF Replacing, LoggingIn
    <3>2. Listed(E)' = Listed(E)
      BY <1>6, <2>1, <2>3 DEF Listed
    <3>3. Usable(c)' \ Listed(E)' \subseteq Usable(c) \ Listed(E)
      BY <1>11, <3>2
    <3>4. IsFiniteSet(Usable(c) \ Listed(E))
      BY WhatIsCounted, FS_Subset DEF IInv
    <3>5. /\ Cardinality(Usable(c)' \ Listed(E)') \in Nat
          /\ Cardinality(Usable(c) \ Listed(E)) \in Nat
          /\ Cardinality(Usable(c)' \ Listed(E)') <= Cardinality(Usable(c) \ Listed(E))
      BY <3>3, <3>4, Fewer
    <3>6. Cardinality(Usable(c) \ Listed(E)) + Cardinality(E) <= Cardinality(Workers)
      BY <3>1 DEF IInv, Limits, SessionsFit
    <3> QED
      BY <2>2, <3>5, <3>6
  <2>4. CASE w \in E
    <3> DEFINE V == {v \in Workers : Refreshing(v)}
               f == [v \in V |-> job[v].token.session]
    <3>1. V \in SUBSET Workers /\ f = [v \in V |-> f[v]]
      OBVIOUS
    <3>2. /\ IsFiniteSet({f[v] : v \in V}) /\ IsFiniteSet(V)
          /\ Cardinality({f[v] : v \in V}) \in Nat /\ Cardinality(V) \in Nat
          /\ Cardinality({f[v] : v \in V}) <= Cardinality(V)
      <4> HIDE DEF V, f
      <4> QED
        BY <3>1, EachBringsOne
    <3>3. j.client = c
      BY <1>4, <1>6, <2>4 DEF Replacing
    <3>4. ASSUME NEW s \in Usable(c)' \ Listed(E)' PROVE s \in {f[v] : v \in V}
      <4>1. s \in Sessions /\ session[s].client = c
        BY <1>2 DEF Usable
      <4>2. session[s].status # "live"
        <5>1. s \notin x.list
          BY <1>6, <2>4 DEF Listed
        <5> QED
          BY <1>4, <3>3, <4>1, <5>1 DEF Live
      <4>3. Renewed(s)'
        BY <1>2, <4>2 DEF Usable
      <4>4. PICK v \in Workers : Refreshing(v)' /\ job'[v].token.session = s
        BY <4>3 DEF Renewed
      <4>5. v \in V /\ f[v] = s
        BY <1>10, <4>4
      <4> QED
        BY <4>5
    <3>5. /\ Cardinality(Usable(c)' \ Listed(E)') \in Nat
          /\ Cardinality(Usable(c)' \ Listed(E)') <= Cardinality({f[v] : v \in V})
      <4> DEFINE A == Usable(c)' \ Listed(E)'
                 B == {f[v] : v \in V}
      <4>1. A \subseteq B /\ IsFiniteSet(B)
        BY <3>2, <3>4
      <4> HIDE DEF A, B
      <4>2. Cardinality(A) \in Nat /\ Cardinality(A) <= Cardinality(B)
        BY <4>1, Fewer
      <4> QED
        BY <4>2 DEF A, B
    <3>6. V \cap E = {}
      <4>1. \A v \in E : v \in Workers /\ v \in Replacing(c)'
        BY <2>1
      <4>2. \A v \in E : LoggingIn(v)'
        BY <4>1 DEF Replacing
      <4>3. \A v \in E : ~Refreshing(v)
        BY <1>1, <1>2, <1>6, <4>1, <4>2 DEF Refreshing, LoggingIn
      <4> QED
        BY <4>3
    <3>7. V \cup E \subseteq Workers
      BY <2>1
    <3>8. Cardinality(V) + Cardinality(E) <= Cardinality(Workers)
      <4> HIDE DEF V
      <4>1. Cardinality(V \cup E) = Cardinality(V) + Cardinality(E) - Cardinality(V \cap E)
        BY <2>2, <3>2, FS_Union
      <4>2. Cardinality(V \cap E) = 0
        BY <3>6, FS_EmptySet
      <4>3. Cardinality(V \cup E) <= Cardinality(Workers) /\ Cardinality(V \cup E) \in Nat
        BY <3>7, Counts, Fewer
      <4> QED
        BY <2>2, <3>2, <4>1, <4>2, <4>3
    <3> HIDE DEF V, f
    <3> QED
      BY <2>2, <3>2, <3>5, <3>8
  <2> QED
    BY <2>3, <2>4
<1>13. \A c \in Clients : SessionsFit(c)'
  BY <1>12 DEF SessionsFit
<1> QED
  BY <1>1, <1>2, <1>4, <1>5, <1>7, <1>8, <1>9, <1>13, PhaseKeeps

(***************************************************************************)
(* The tokens of one client.                                               *)
(***************************************************************************)
LEMMA TokensApart ==
    ASSUME TypeOK, References, Tokens,
           NEW w \in Workers, NEW c \in Clients, NEW x, Turn(w, x),
           job[w] # Nothing => job[w].client = c, x # Nothing => x.client = c,
           \A d \in Clients \ {c} : app'[d] = app[d] /\ overlapped'[d] = overlapped[d],
           \A s \in Sessions : session[s].status # "none" /\ session[s].client # c =>
               /\ session'[s].number = session[s].number
               /\ session[s].status = "revoked" => session'[s].status = "revoked",
           ~overlapped'[c] => Alone(c)',
           \A v \in Workers : LoggingIn(v)' /\ Answered(v)' => Unshared(v)'
    PROVE  Tokens'
<1>1. ASSUME NEW d \in Clients \ {c}, ~overlapped'[d] PROVE Alone(d)'
  <2>1. Alone(d)
    BY <1>1 DEF Tokens
  <2>2. \A v \in Workers : /\ v \in OfClient(d)' <=> v \in OfClient(d)
                           /\ v \in OfClient(d) => job'[v] = job[v]
    BY DEF OfClient, Turn
  <2>3. OfClient(d)' = OfClient(d) /\ OfClient(d) \subseteq Workers
    BY <2>2 DEF OfClient
  <2>4. \A v \in OfClient(d) : /\ Refreshing(v)' <=> Refreshing(v)
                               /\ Answered(v)' <=> Answered(v)
    BY <2>2, <2>3 DEF Refreshing, Answered
  <2>5. ASSUME NEW t \in Token, Names(t, d), Current(t) PROVE Current(t)'
    BY <2>5 DEF Names, Current, Token
  <2>6. ASSUME NEW v \in OfClient(d)', Refreshing(v)', Answered(v)' PROVE Current(job[v].token)'
    <3>1. PICK t : t = job[v].token
      OBVIOUS
    <3>2. t \in Token /\ Names(t, d) /\ Current(t) /\ job'[v].token = t
      BY <2>1, <2>2, <2>3, <2>4, <2>6, <3>1
      DEF Alone, References, RequestOK, Refreshing, OfClient
    <3>3. Current(t)'
      BY <2>5, <3>2
    <3> QED
      BY <3>2, <3>3 DEF Current
  <2>7. ASSUME \A v \in OfClient(d)' : ~Refreshing(v)', app'[d] # Nothing PROVE Current(app[d])'
    <3>1. PICK t : t = app[d]
      OBVIOUS
    <3>2. t \in Token /\ Names(t, d) /\ Current(t) /\ app'[d] = t
      BY <2>1, <2>3, <2>4, <2>7, <3>1 DEF Alone, References, TypeOK
    <3>3. Current(t)'
      BY <2>5, <3>2
    <3> QED
      BY <3>2, <3>3 DEF Current
  <2> QED
    BY <2>1, <2>3, <2>6, <2>7 DEF Alone
<1> QED
  BY <1>1 DEF Tokens

LEMMA ClientStep ==
    ASSUME IInv, TypeOK', UNCHANGED <<account, device, session, closed, reactivated>>,
           \A c \in Clients : app'[c] = app[c] \/ app'[c] = Nothing \/ Names(app[c], c)',
           \A v \in Workers :
               /\ Quiet(v, Harmless(job'[v])) /\ Proven(v)
               /\ job'[v] = job[v] \/ job'[v] = Nothing \/ RequestOK(job[v])',
           Tokens'
    PROVE  IInv'
<1>1. \A s \in Sessions : Ending(s)
  BY Unstarted
<1>2. Kept /\ NoneOpened
  BY <1>1, EndingIs
<1>3. Employed /\ Counted' \subseteq Counted
  BY SameAccounts DEF IInv
<1>4. References'
  <2>1. \A s \in Sessions : ~(session[s].status = "none" /\ session'[s].status # "none")
    OBVIOUS
  <2> QED
    BY <1>2, <1>3, <2>1, ReferencesKeep DEF IInv, Employed
<1>5. Limits'
  BY <1>1, <1>3, LimitsQuiet DEF IInv
<1>6. Passwords'
  <2>1. \A u \in Users : /\ account'[u].password \in Nat
                         /\ account'[u].password >= account[u].password
    BY <1>3 DEF TypeOK, Employed
  <2> QED
    BY <1>2, <2>1, PasswordsKeep DEF IInv
<1> QED
  BY <1>4, <1>5, <1>6 DEF IInv

LEMMA OverlapsIs ==
    ASSUME TypeOK, NEW c \in Clients, Overlaps(c)
    PROVE  /\ overlapped' \in [Clients -> BOOLEAN]
           /\ \A d \in Clients \ {c} : overlapped'[d] = overlapped[d]
           /\ ~overlapped'[c] => ~overlapped[c] /\ OfClient(c) = {}
BY Zenon DEF TypeOK, Overlaps

LEMMA StartLoginKeeps ==
    ASSUME IInv, NEW w \in Workers, NEW u \in Users, NEW c \in Clients, StartLogin(w, u, c)
    PROVE  IInv'
<1>1. /\ UNCHANGED <<account, device, session, reset, app, closed, reactivated>>
      /\ job[w] = Nothing /\ Overlaps(c)
  BY DEF StartLogin, Idle
<1>2. PICK n : n = NewJob("login", "device", u)
  OBVIOUS
<1>3. /\ n \in Job /\ n.kind = "login" /\ n.phase = "device" /\ n.user = u /\ n.list = {}
  <2>1. "login" \in RequestKinds /\ "device" \in Phases
    BY DEF RequestKinds, Phases
  <2> QED
    BY <1>2, <2>1, NewJobIs
<1>4. PICK x : x = [n EXCEPT !.client = c, !.proof = account[u].password]
  OBVIOUS
<1>5. /\ x \in Job /\ x.kind = "login" /\ x.phase = "device" /\ x.user = u /\ x.client = c
      /\ x.proof = account[u].password /\ x.list = {}
  <2>1. account[u].password \in Nat
    BY DEF IInv, TypeOK
  <2> QED
    BY <1>3, <1>4, <2>1 DEF Job
<1>6. Turn(w, x)
  BY <1>2, <1>4, <1>5, GoesTurns DEF StartLogin, IInv
<1>7. job'[w] = x /\ x # Nothing /\ \A v \in Workers \ {w} : job'[v] = job[v]
  BY <1>5, <1>6, NothingAssumption DEF Turn
<1>8. /\ overlapped' \in [Clients -> BOOLEAN]
      /\ \A d \in Clients \ {c} : overlapped'[d] = overlapped[d]
      /\ ~overlapped'[c] => ~overlapped[c] /\ OfClient(c) = {}
  BY <1>1, OverlapsIs DEF IInv
<1>9. TypeOK'
  <2>1. budget' \in [RequestKinds -> Nat]
    BY SpendKeeps DEF StartLogin, RequestKinds, IInv
  <2> QED
    BY <1>1, <1>6, <1>8, <2>1 DEF IInv, TypeOK, Turn
<1>10. ASSUME ~overlapped'[c] PROVE Alone(c)'
  <2>1. Alone(c)
    BY <1>8, <1>10 DEF IInv, Tokens
  <2>2. OfClient(c) = {}
    BY <1>8, <1>10
  <2>3. OfClient(c)' = {w}
    BY <1>5, <1>7, <2>2 DEF OfClient
  <2>4. ~Refreshing(w)'
    BY <1>5, <1>7 DEF Refreshing
  <2>5. app'[c] # Nothing => Current(app[c])'
    BY <1>1, <2>1, <2>2 DEF Alone, Current
  <2> QED
    BY <2>3, <2>4, <2>5 DEF Alone
<1>11. ASSUME NEW v \in Workers, LoggingIn(v)', Answered(v)' PROVE Unshared(v)'
  <2>1. v # w /\ LoggingIn(v) /\ Answered(v) /\ job'[v] = job[v]
    BY <1>5, <1>7, <1>11 DEF LoggingIn, Answered
  <2>2. Unshared(v)
    BY <2>1 DEF IInv, Tokens
  <2>3. \A y \in Workers : (Refreshing(y) \/ (LoggingIn(y) /\ Answered(y)))' =>
            (Refreshing(y) \/ (LoggingIn(y) /\ Answered(y))) /\ job'[y] = job[y]
    BY <1>5, <1>7 DEF LoggingIn, Answered, Refreshing
  <2> QED
    BY <1>1, <2>1, <2>2, <2>3 DEF Unshared
<1>12. Tokens'
  BY <1>1, <1>5, <1>6, <1>8, <1>10, <1>11, TokensApart DEF IInv
<1>13. ASSUME NEW v \in Workers
       PROVE  /\ Quiet(v, Harmless(job'[v])) /\ Proven(v)
              /\ job'[v] = job[v] \/ job'[v] = Nothing \/ RequestOK(job[v])'
  <2>1. CASE v = w
    <3>1. RequestOK(x)'
      BY <1>5, AccessAssumption DEF RequestOK
    <3>2. RequestOK(job[w])'
      BY <1>7, <3>1 DEF RequestOK, Names
    <3>3. Quiet(w, Harmless(job'[w]))
      BY <1>5, <1>7 DEF Quiet, Harmless, LetsNoDevice, InvitesNobody, RenewsNothing
    <3>4. Proven(w)
      BY <1>5, <1>7 DEF Proven
    <3> QED
      BY <2>1, <3>2, <3>3, <3>4
  <2>2. CASE v # w
    BY <1>7, <2>2 DEF Quiet, Proven
  <2> QED
    BY <2>1, <2>2
<1> QED
  BY <1>1, <1>9, <1>12, <1>13, ClientStep

LEMMA StartRefreshKeeps ==
    ASSUME IInv, NEW w \in Workers, NEW c \in Clients, StartRefresh(w, c)
    PROVE  IInv'
<1>1. /\ UNCHANGED <<account, device, session, reset, app, closed, reactivated>>
      /\ job[w] = Nothing /\ Overlaps(c) /\ app[c] # Nothing
  BY DEF StartRefresh, Idle
<1>2. PICK t \in Token : t = app[c]
  BY <1>1 DEF IInv, TypeOK
<1>3. Names(t, c) /\ t.session \in Sessions
  BY <1>1, <1>2 DEF IInv, References, Token
<1>4. PICK u \in Users : u = session[t.session].user
  <2>1. session[t.session].user # Nothing
    BY <1>3 DEF IInv, References, Names
  <2>2. session[t.session].user \in Users \cup {Nothing}
    BY <1>3 DEF IInv, TypeOK, SessionRow
  <2> QED
    BY <2>1, <2>2
<1>5. PICK n : n = NewJob("refresh", "find", u)
  OBVIOUS
<1>6. /\ n \in Job /\ n.kind = "refresh" /\ n.phase = "find" /\ n.user = u /\ n.list = {}
  <2>1. "refresh" \in RequestKinds /\ "find" \in Phases
    BY DEF RequestKinds, Phases
  <2> QED
    BY <1>5, <2>1, NewJobIs
<1>7. PICK x : x = [n EXCEPT !.client = c, !.token = t]
  OBVIOUS
<1>8. /\ x \in Job /\ x.kind = "refresh" /\ x.phase = "find" /\ x.client = c
      /\ x.token = t /\ x.list = {}
  BY <1>6, <1>7 DEF Job
<1>9. Turn(w, x)
  BY <1>2, <1>4, <1>5, <1>7, <1>8, GoesTurns DEF StartRefresh, IInv
<1>10. job'[w] = x /\ x # Nothing /\ \A v \in Workers \ {w} : job'[v] = job[v]
  BY <1>8, <1>9, NothingAssumption DEF Turn
<1>11. /\ overlapped' \in [Clients -> BOOLEAN]
       /\ \A d \in Clients \ {c} : overlapped'[d] = overlapped[d]
       /\ ~overlapped'[c] => ~overlapped[c] /\ OfClient(c) = {}
  BY <1>1, OverlapsIs DEF IInv
<1>12. TypeOK'
  <2>1. budget' \in [RequestKinds -> Nat]
    BY SpendKeeps DEF StartRefresh, RequestKinds, IInv
  <2> QED
    BY <1>1, <1>9, <1>11, <2>1 DEF IInv, TypeOK, Turn
<1>13. ASSUME ~overlapped'[c] PROVE Alone(c)'
  <2>1. OfClient(c) = {}
    BY <1>11, <1>13
  <2>2. OfClient(c)' = {w}
    BY <1>8, <1>10, <2>1 DEF OfClient
  <2>3. Refreshing(w)' /\ ~Answered(w)'
    BY <1>8, <1>10 DEF Refreshing, Answered
  <2> QED
    BY <2>2, <2>3 DEF Alone
<1>14. ASSUME NEW v \in Workers, LoggingIn(v)', Answered(v)' PROVE Unshared(v)'
  <2>1. v # w /\ LoggingIn(v) /\ Answered(v) /\ job'[v] = job[v]
    BY <1>8, <1>10, <1>14 DEF LoggingIn, Answered
  <2>2. Unshared(v)
    BY <2>1 DEF IInv, Tokens
  <2>3. \A y \in Workers \ {w} : (Refreshing(y) \/ (LoggingIn(y) /\ Answered(y)))' =>
            (Refreshing(y) \/ (LoggingIn(y) /\ Answered(y))) /\ job'[y] = job[y]
    BY <1>10 DEF LoggingIn, Answered, Refreshing
  <2>4. job'[w].token.session # job[v].token.session
    BY <1>1, <1>2, <1>8, <1>10, <2>2 DEF Unshared
  <2>5. \A y \in Workers \ {v} : (Refreshing(y) \/ (LoggingIn(y) /\ Answered(y)))' =>
            job'[y].token.session # job[v].token.session
    BY <2>2, <2>3, <2>4 DEF Unshared
  <2> QED
    BY <1>1, <2>1, <2>2, <2>5 DEF Unshared
<1>15. Tokens'
  BY <1>1, <1>8, <1>9, <1>11, <1>13, <1>14, TokensApart DEF IInv
<1>16. ASSUME NEW v \in Workers
       PROVE  /\ Quiet(v, Harmless(job'[v])) /\ Proven(v)
              /\ job'[v] = job[v] \/ job'[v] = Nothing \/ RequestOK(job[v])'
  <2>1. CASE v = w
    <3>1. Names(t, c)'
      BY <1>1, <1>3 DEF Names
    <3>2. RequestOK(x)'
      BY <1>8, <3>1, AccessAssumption DEF RequestOK
    <3>3. RequestOK(job[w])'
      BY <1>10, <3>2 DEF RequestOK, Names
    <3>4. Quiet(w, Harmless(job'[w]))
      BY <1>8, <1>10 DEF Quiet, Harmless, LetsNoDevice, InvitesNobody, RenewsNothing
    <3>5. Proven(w)
      BY <1>8, <1>10 DEF Proven
    <3> QED
      BY <2>1, <3>3, <3>4, <3>5
  <2>2. CASE v # w
    BY <1>10, <2>2 DEF Quiet, Proven
  <2> QED
    BY <2>1, <2>2
<1> QED
  BY <1>1, <1>12, <1>15, <1>16, ClientStep

LEMMA DeliverKeeps == ASSUME IInv, NEW w \in Workers, Deliver(w) PROVE IInv'
<1>1. PICK j \in Job : j = job[w]
  BY DEF Deliver, In, IInv, TypeOK
<1>2. /\ UNCHANGED <<account, device, session, reset, budget, closed, reactivated>>
      /\ j # Nothing /\ j.kind \in {"login", "refresh"} /\ j.phase = "answer" /\ Turn(w, Nothing)
  BY <1>1, EndsTurns DEF Deliver, In, IInv
<1>3. PICK c \in Clients : c = j.client
  BY <1>1, <1>2 DEF IInv, References, RequestOK, Job
<1>4. PICK t \in Token : t = j.token /\ Names(t, c)
  BY <1>1, <1>2, <1>3 DEF IInv, References, RequestOK
<1>5. /\ app' \in [Clients -> Token \cup {Nothing}] /\ overlapped' \in [Clients -> BOOLEAN]
      /\ \A d \in Clients \ {c} : app'[d] = app[d] /\ overlapped'[d] = overlapped[d]
      /\ \/ /\ app'[c] = t
            /\ overlapped'[c] = IF j.kind = "login" THEN OfClient(c) # {w} ELSE overlapped[c]
         \/ app' = app /\ overlapped'[c]
  <2>1. \/ /\ app' = [app EXCEPT ![c] = t]
           /\ overlapped' = [overlapped EXCEPT ![c] =
                                IF j.kind = "login" THEN OfClient(c) # {w} ELSE @]
        \/ app' = app /\ overlapped' = [overlapped EXCEPT ![c] = TRUE]
    BY <1>1, <1>3, <1>4, Zenon DEF Deliver
  <2>2. app \in [Clients -> Token \cup {Nothing}] /\ overlapped \in [Clients -> BOOLEAN]
    BY DEF IInv, TypeOK
  <2>3. CASE app' = app /\ overlapped' = [overlapped EXCEPT ![c] = TRUE]
    BY <2>2, <2>3
  <2>4. CASE /\ app' = [app EXCEPT ![c] = t]
             /\ overlapped' = [overlapped EXCEPT ![c] =
                                  IF j.kind = "login" THEN OfClient(c) # {w} ELSE @]
    <3>1. /\ app' \in [Clients -> Token \cup {Nothing}] /\ app'[c] = t
          /\ \A d \in Clients \ {c} : app'[d] = app[d]
      BY <2>2, <2>4
    <3>2. PICK b \in BOOLEAN : b = IF j.kind = "login" THEN OfClient(c) # {w} ELSE overlapped[c]
      <4>1. (IF j.kind = "login" THEN OfClient(c) # {w} ELSE overlapped[c]) \in BOOLEAN
        BY <2>2, Zenon
      <4> QED
        BY <4>1
    <3>3. overlapped' = [overlapped EXCEPT ![c] = b]
      BY <2>4, <3>2, Zenon
    <3>4. /\ overlapped' \in [Clients -> BOOLEAN] /\ overlapped'[c] = b
          /\ \A d \in Clients \ {c} : overlapped'[d] = overlapped[d]
      BY <2>2, <3>3, Zenon
    <3> QED
      BY <3>1, <3>2, <3>4, Zenon
  <2> QED
    BY <2>1, <2>3, <2>4
<1>6. job'[w] = Nothing /\ \A v \in Workers \ {w} : job'[v] = job[v]
  BY <1>2 DEF Turn
<1>7. TypeOK'
  BY <1>2, <1>5 DEF IInv, TypeOK, Turn
<1>8. LoggingIn(w) => Unshared(w)
  BY <1>1, <1>2 DEF IInv, Tokens, LoggingIn, Answered
<1>9. ASSUME ~overlapped'[c] PROVE Alone(c)'
  <2>1. app'[c] = t
    BY <1>5, <1>9
  <2>2. w \in OfClient(c)
    BY <1>1, <1>2, <1>3 DEF OfClient
  <2>3. OfClient(c) = {w} /\ Current(t)
    <3>1. CASE j.kind = "login"
      <4>1. OfClient(c) = {w}
        BY <1>5, <1>9, <3>1
      <4>2. LoggingIn(w)
        BY <1>1, <1>2, <3>1 DEF LoggingIn
      <4> QED
        BY <1>1, <1>4, <1>8, <4>1, <4>2 DEF Unshared, Current
    <3>2. CASE j.kind # "login"
      <4>1. Alone(c)
        BY <1>5, <1>9, <3>2 DEF IInv, Tokens
      <4>2. Refreshing(w) /\ Answered(w)
        BY <1>1, <1>2, <3>2 DEF Refreshing, Answered
      <4> QED
        BY <1>1, <1>4, <2>2, <4>1, <4>2 DEF Alone
    <3> QED
      BY <3>1, <3>2
  <2>4. OfClient(c)' = {}
    <3>1. \A v \in Workers : v # w => v \notin OfClient(c)
      BY <2>3
    <3> QED
      BY <1>6, <3>1 DEF OfClient
  <2>5. Current(app[c])'
    BY <1>2, <2>1, <2>3 DEF Current
  <2> QED
    BY <2>4, <2>5 DEF Alone
<1>10. ASSUME NEW v \in Workers, LoggingIn(v)', Answered(v)' PROVE Unshared(v)'
  <2>1. v # w /\ LoggingIn(v) /\ Answered(v) /\ job'[v] = job[v]
    BY <1>6, <1>10 DEF LoggingIn, Answered
  <2>2. Unshared(v)
    BY <2>1 DEF IInv, Tokens
  <2>3. \A y \in Workers : (Refreshing(y) \/ (LoggingIn(y) /\ Answered(y)))' =>
            (Refreshing(y) \/ (LoggingIn(y) /\ Answered(y))) /\ job'[y] = job[y]
    BY <1>6 DEF LoggingIn, Answered, Refreshing
  <2>4. t.session # job[v].token.session
    BY <1>1, <1>2, <1>4, <2>1, <2>2 DEF Unshared, Refreshing, LoggingIn, Answered
  <2>5. \A d \in Clients : app'[d] # Nothing => app'[d].session # job[v].token.session
    BY <1>5, <2>2, <2>4 DEF Unshared
  <2> QED
    BY <1>2, <2>1, <2>2, <2>3, <2>5 DEF Unshared
<1>11. Tokens'
  BY <1>1, <1>2, <1>3, <1>5, <1>9, <1>10, TokensApart DEF IInv
<1>12. \A d \in Clients : app'[d] = app[d] \/ app'[d] = Nothing \/ Names(app[d], d)'
  <2>1. Names(t, c)'
    BY <1>2, <1>4 DEF Names
  <2>2. app'[c] = t => Names(app[c], c)'
    BY <2>1 DEF Names
  <2> QED
    BY <1>5, <2>2
<1>13. \A v \in Workers : /\ Quiet(v, Harmless(job'[v])) /\ Proven(v)
                          /\ job'[v] = job[v] \/ job'[v] = Nothing \/ RequestOK(job[v])'
  BY <1>6 DEF Quiet, Proven
<1> QED
  BY <1>2, <1>7, <1>11, <1>12, <1>13, ClientStep

\* A session is opened by a login that has revoked all it listed.
LEMMA OpenSessionKeeps == ASSUME IInv, NEW w \in Workers, OpenSession(w) PROVE IInv'
<1>1. PICK j \in Job : j = job[w]
  BY DEF OpenSession, In, IInv, TypeOK
<1>2. PICK s \in Sessions :
        /\ j # Nothing /\ j.kind = "login" /\ j.phase = "revoke" /\ j.list = {}
        /\ session[s].status = "none"
        /\ session' = [session EXCEPT ![s] = [status |-> "live", client |-> j.client,
                          user |-> j.user, number |-> 1, proof |-> j.proof, raced |-> j.raced]]
        /\ Goes(w, [j EXCEPT !.phase = "answer", !.token = [session |-> s, number |-> 1]])
        /\ UNCHANGED <<account, device, reset, app, budget, overlapped, closed, reactivated>>
  BY <1>1, Zenon DEF OpenSession, In
<1>3. PICK c \in Clients : c = j.client
  BY <1>1, <1>2 DEF IInv, References, RequestOK, Job
<1>4. PICK t \in Token : t = [session |-> s, number |-> 1] /\ t.session = s /\ t.number = 1
  <2>1. [session |-> s, number |-> 1] \in Token
    BY DEF Token
  <2> QED
    BY <2>1
<1>5. PICK x : x = [j EXCEPT !.phase = "answer", !.token = t]
  OBVIOUS
<1>6. /\ x \in Job /\ x.kind = "login" /\ x.phase = "answer" /\ x.user = j.user /\ x.client = c
      /\ x.proof = j.proof /\ x.raced = j.raced /\ x.list = {} /\ x.token = t
  BY <1>2, <1>3, <1>5 DEF Job, Phases
<1>7. Turn(w, x)
  BY <1>2, <1>4, <1>5, <1>6, GoesTurns DEF IInv
<1>8. job'[w] = x /\ x # Nothing /\ \A v \in Workers \ {w} : job'[v] = job[v]
  BY <1>6, <1>7, NothingAssumption DEF Turn
<1>9. PICK row : row = [status |-> "live", client |-> c, user |-> j.user, number |-> 1,
                        proof |-> j.proof, raced |-> j.raced]
  OBVIOUS
<1>10. /\ row \in SessionRow /\ row.status = "live" /\ row.client = c /\ row.user = j.user
       /\ row.number = 1 /\ row.proof = j.proof /\ row.raced = j.raced
  BY <1>9 DEF SessionRow, Job
<1>11. /\ session' \in [Sessions -> SessionRow] /\ session'[s] = row
       /\ \A z \in Sessions \ {s} : session'[z] = session[z]
  <2>1. session' = [session EXCEPT ![s] = row]
    BY <1>2, <1>3, <1>9
  <2> QED
    BY <1>10, <2>1 DEF IInv, TypeOK
<1>12. TypeOK'
  BY <1>2, <1>7, <1>11 DEF IInv, TypeOK, Turn
<1>13. Kept
  BY <1>2, <1>11 DEF Kept
<1>14. Employed /\ Counted' \subseteq Counted
  BY <1>2, SameAccounts DEF IInv
<1>15. j.user \in Users /\ j.user # Nothing /\ c # Nothing
  BY AccessAssumption DEF Job
<1>16. References'
  <2>1. \A z \in Sessions : session[z].status = "none" /\ session'[z].status # "none" =>
            session'[z].client # Nothing /\ session'[z].user # Nothing
    BY <1>10, <1>11, <1>15
  <2>2. RequestOK(x)'
    <3>1. Names(t, c)'
      BY <1>4, <1>10, <1>11 DEF Names
    <3> QED
      BY <1>6, <1>15, <3>1 DEF RequestOK
  <2>3. RequestOK(job[w])'
    BY <1>8, <2>2 DEF RequestOK, Names
  <2>4. \A v \in Workers : job'[v] = job[v] \/ job'[v] = Nothing \/ RequestOK(job[v])'
    BY <1>8, <2>3
  <2> QED
    BY <1>2, <1>13, <1>14, <2>1, <2>4, ReferencesKeep DEF IInv, Employed
<1>17. \A z \in Sessions : Renewed(z)' => Renewed(z)
  BY <1>6, <1>8 DEF Renewed, Refreshing
<1>18. \A d \in Clients : Usable(d)' \subseteq Usable(d) \cup (IF d = c THEN {s} ELSE {})
  BY <1>10, <1>11, <1>17 DEF Usable
<1>19. \A d \in Clients : /\ Replacing(d)' \subseteq Replacing(d) \ {w}
                          /\ \A v \in Replacing(d)' : job'[v].list = job[v].list
  BY <1>6, <1>8 DEF Replacing, LoggingIn
<1>20. ASSUME NEW d \in Clients, d # c PROVE SessionsFit(d)'
  <2>1. Usable(d)' \subseteq Usable(d)
    BY <1>18, <1>20
  <2>2. /\ Replacing(d)' \subseteq Replacing(d)
        /\ \A v \in Replacing(d)' : job[v].list \cap Usable(d)' \subseteq job'[v].list
    BY <1>19
  <2> QED
    BY <2>1, <2>2, SessionsKeep DEF IInv, Limits
<1>21. ASSUME NEW E \in SUBSET Replacing(c)'
       PROVE  Cardinality(Usable(c)' \ Listed(E)') + Cardinality(E) <= Cardinality(Workers)
  <2> DEFINE F == E \cup {w}
             A == Usable(c) \ Listed(F)
             B == Usable(c)' \ Listed(E)'
  <2>1. E \subseteq Replacing(c) \ {w} /\ w \in Replacing(c) /\ Replacing(c) \subseteq Workers
    BY <1>1, <1>2, <1>3, <1>19 DEF Replacing, LoggingIn
  <2>2. IsFiniteSet(E) /\ Cardinality(E) \in Nat /\ Cardinality(Workers) \in Nat
    BY <2>1, Counts, Fewer
  <2>3. Cardinality(F) = Cardinality(E) + 1
    BY <2>1, <2>2, FS_AddElement
  <2>4. Listed(F) = Listed(E)'
    <3>1. \A v \in E : job'[v].list = job[v].list
      BY <1>19
    <3> QED
      BY <1>1, <1>2, <3>1 DEF Listed
  <2>5. B \subseteq A \cup {s}
    BY <1>18, <2>4
  <2>6. IsFiniteSet(A) /\ IsFiniteSet({s}) /\ Cardinality({s}) = 1
    BY WhatIsCounted, FS_Subset, FS_Singleton DEF IInv
  <2>7. Cardinality(A) + Cardinality(F) <= Cardinality(Workers)
    <3>1. F \in SUBSET Replacing(c)
      BY <2>1
    <3> QED
      BY <3>1 DEF IInv, Limits, SessionsFit
  <2> HIDE DEF A, B, F
  <2>8. /\ IsFiniteSet(A \cup {s}) /\ Cardinality(A \cup {s}) \in Nat /\ Cardinality(A) \in Nat
        /\ Cardinality(A \cup {s}) <= Cardinality(A) + 1
    BY <2>6, AtMostSum
  <2>9. Cardinality(B) \in Nat /\ Cardinality(B) <= Cardinality(A \cup {s})
    BY <2>5, <2>8, Fewer
  <2>10. Cardinality(B) + Cardinality(E) <= Cardinality(Workers)
    BY <2>2, <2>3, <2>7, <2>8, <2>9
  <2> QED
    BY <2>10 DEF B
<1>22. Limits'
  <2>1. \A v \in Workers : /\ Quiet(v, LetsNoDevice(job'[v])) /\ Quiet(v, InvitesNobody(job'[v]))
    BY <1>6, <1>8 DEF Quiet, LetsNoDevice, InvitesNobody
  <2>2. DevicesFit' /\ EmployeesFit'
    BY <1>2, <1>14, <2>1, DevicesSame, EmployeesSame DEF IInv
  <2>3. SessionsFit(c)'
    BY <1>21 DEF SessionsFit
  <2>4. \A d \in Clients : SessionsFit(d)'
    BY <1>20, <2>3
  <2> QED
    BY <2>2, <2>4 DEF Limits
<1>23. Passwords'
  <2>1. LoginProves(j)
    BY <1>1, <1>2 DEF IInv, Passwords, LoggingIn
  <2>2. ASSUME NEW u, NEW p PROVE NoneOlder(u, p)
    <3>1. Old(u, p)' \subseteq Old(u, p) \cup {s}
      BY <1>11 DEF Old, NotRevoked
    <3>2. s \in Old(u, p)' => j.user = u /\ j.proof < p /\ ~j.raced
      BY <1>10, <1>11 DEF Old, NotRevoked
    <3>3. CASE p = closed[u]
      BY <2>1, <3>1, <3>2, <3>3 DEF LoginProves, NoneOlder
    <3>4. ASSUME NEW v \in Workers, Resetting(v, {"revoke"}), job[v].user = u, job[v].proof = p
          PROVE  Old(u, p)' \subseteq Old(u, p)
      <4>1. ResetProves(job[v]) /\ job[v].phase = "revoke"
        BY <3>4 DEF IInv, Passwords, Resetting
      <4>2. j.user = u /\ j.proof < p => j.raced
        BY <1>1, <1>2, <3>4, <4>1 DEF ResetProves, LoggingIn
      <4> QED
        BY <3>1, <3>2, <4>2
    <3> QED
      BY <3>3, <3>4 DEF NoneOlder
  <2>3. \A v \in Workers : Proven(v)
    BY <1>1, <1>2, <1>6, <1>8 DEF Proven, LoggingIn
  <2>4. \A u \in Users : /\ account'[u].password \in Nat
                         /\ account'[u].password >= account[u].password
    BY <1>12, <1>14 DEF TypeOK, Employed
  <2> QED
    BY <1>2, <2>2, <2>3, <2>4, PasswordsHold DEF IInv
<1>24. \A d \in Clients : app[d] # Nothing => app[d] \in Token /\ app[d].session # s
  BY <1>2 DEF IInv, References, Names, TypeOK
<1>25. ASSUME NEW v \in Workers \ {w}, Refreshing(v) \/ (LoggingIn(v) /\ Answered(v))
       PROVE  job[v].token \in Token /\ job[v].token.session # s /\ job'[v] = job[v]
  <2>1. job[v].token \in Token /\ Names(job[v].token, job[v].client)
    BY <1>25 DEF IInv, References, RequestOK, Refreshing, LoggingIn, Answered
  <2> QED
    BY <1>2, <1>8, <2>1 DEF Names
<1>26. ASSUME NEW v \in Workers, LoggingIn(v)', Answered(v)' PROVE Unshared(v)'
  <2>1. \A y \in Workers \ {w} : (Refreshing(y) \/ (LoggingIn(y) /\ Answered(y)))' =>
            (Refreshing(y) \/ (LoggingIn(y) /\ Answered(y))) /\ job'[y] = job[y]
    BY <1>8 DEF LoggingIn, Answered, Refreshing
  <2>2. CASE v = w
    BY <1>2, <1>4, <1>6, <1>8, <1>10, <1>11, <1>24, <1>25, <2>1, <2>2 DEF Unshared
  <2>3. CASE v # w
    <3>1. LoggingIn(v) /\ Answered(v) /\ job'[v] = job[v]
      BY <1>8, <1>26, <2>3 DEF LoggingIn, Answered
    <3>2. Unshared(v)
      BY <3>1 DEF IInv, Tokens
    <3>3. job[v].token.session \in Sessions \ {s}
      BY <1>25, <2>3, <3>1 DEF Token
    <3>4. \A y \in Workers \ {v} : (Refreshing(y) \/ (LoggingIn(y) /\ Answered(y)))' =>
              job'[y].token.session # job[v].token.session
      BY <1>4, <1>6, <1>8, <2>1, <3>2, <3>3 DEF Unshared
    <3> QED
      BY <1>2, <1>11, <3>1, <3>2, <3>3, <3>4 DEF Unshared
  <2> QED
    BY <2>2, <2>3
<1>27. ASSUME ~overlapped'[c] PROVE Alone(c)'
  <2>1. Alone(c)
    BY <1>2, <1>27 DEF IInv, Tokens
  <2>2. OfClient(c)' = OfClient(c) /\ OfClient(c) \subseteq Workers
    BY <1>1, <1>2, <1>3, <1>6, <1>8 DEF OfClient
  <2>3. \A v \in Workers : Refreshing(v)' => Refreshing(v) /\ v # w /\ job'[v] = job[v]
    BY <1>6, <1>8 DEF Refreshing
  <2>4. ASSUME NEW v \in OfClient(c)', Refreshing(v)', Answered(v)' PROVE Current(job[v].token)'
    <3>1. Refreshing(v) /\ Answered(v) /\ v # w /\ job'[v] = job[v] /\ v \in Workers
      BY <2>2, <2>3, <2>4 DEF Answered
    <3>2. job[v].token.session \in Sessions \ {s}
      BY <1>25, <3>1 DEF Token
    <3>3. Current(job[v].token)
      BY <2>1, <2>2, <3>1 DEF Alone
    <3> QED
      BY <1>11, <3>1, <3>2, <3>3 DEF Current
  <2>5. ASSUME \A v \in OfClient(c)' : ~Refreshing(v)', app'[c] # Nothing PROVE Current(app[c])'
    <3>1. \A v \in OfClient(c) : ~Refreshing(v)
      BY <1>1, <1>2, <1>8, <2>2, <2>5 DEF Refreshing
    <3>2. app[c] # Nothing /\ Current(app[c])
      BY <1>2, <2>1, <2>5, <3>1 DEF Alone
    <3>3. app[c].session \in Sessions \ {s}
      BY <1>24, <3>2 DEF Token
    <3> QED
      BY <1>2, <1>11, <3>2, <3>3 DEF Current
  <2> QED
    BY <2>1, <2>2, <2>4, <2>5 DEF Alone
<1>28. \A z \in Sessions : session[z].status # "none" /\ session[z].client # c =>
           /\ session'[z].number = session[z].number
           /\ session[z].status = "revoked" => session'[z].status = "revoked"
  BY <1>2, <1>11
<1>29. Tokens'
  BY <1>1, <1>2, <1>3, <1>6, <1>7, <1>26, <1>27, <1>28, TokensApart DEF IInv
<1> QED
  BY <1>12, <1>16, <1>22, <1>23, <1>29 DEF IInv

\* A refresh brings back a session that expired since it was found, and none that was revoked.
LEMMA RotateKeeps == ASSUME IInv, NEW w \in Workers, Rotate(w) PROVE IInv'
<1>1. PICK j \in Job : j = job[w]
  BY DEF Rotate, In, IInv, TypeOK
<1>2. /\ UNCHANGED <<account, device, reset, app, budget, overlapped, closed, reactivated>>
      /\ j # Nothing /\ j.kind = "refresh" /\ j.phase = "rotate"
  BY <1>1 DEF Rotate, In
<1>3. PICK c \in Clients : c = j.client
  BY <1>1, <1>2 DEF IInv, References, RequestOK, Job
<1>4. j.token \in Token /\ Names(j.token, c)
  BY <1>1, <1>2, <1>3 DEF IInv, References, RequestOK
<1>5. PICK s \in Sessions : s = j.token.session
  BY <1>4 DEF Token
<1>6. session[s] \in SessionRow /\ session[s].number \in Nat
  BY DEF IInv, TypeOK, SessionRow
<1>7. PICK n \in Nat : n = session[s].number + 1
  BY <1>6
<1>8. PICK status : status = IF session[s].status = "expired" THEN "live" ELSE session[s].status
  OBVIOUS
<1>9. PICK row : row = [session[s] EXCEPT !.number = n, !.status = status]
  OBVIOUS
<1>10. /\ row \in SessionRow /\ row.number = n /\ row.status = status
       /\ row.client = session[s].client /\ row.user = session[s].user
       /\ row.proof = session[s].proof /\ row.raced = session[s].raced
  <2>1. status \in {"none", "live", "expired", "revoked"}
    BY <1>6, <1>8 DEF SessionRow
  <2> QED
    BY <1>6, <1>9, <2>1 DEF SessionRow
<1>11. /\ session' = [session EXCEPT ![s] = row]
       /\ Goes(w, [j EXCEPT !.phase = "answer", !.token = [session |-> s, number |-> n]])
  BY <1>1, <1>5, <1>7, <1>8, <1>9 DEF Rotate
<1>12. /\ session' \in [Sessions -> SessionRow] /\ session'[s] = row
       /\ \A z \in Sessions \ {s} : session'[z] = session[z]
  BY <1>10, <1>11 DEF IInv, TypeOK
<1>13. PICK t \in Token : t = [session |-> s, number |-> n] /\ t.session = s /\ t.number = n
  <2>1. [session |-> s, number |-> n] \in Token
    BY DEF Token
  <2> QED
    BY <2>1
<1>14. PICK x : x = [j EXCEPT !.phase = "answer", !.token = t]
  OBVIOUS
<1>15. /\ x \in Job /\ x.kind = "refresh" /\ x.phase = "answer" /\ x.user = j.user
       /\ x.client = c /\ x.list = j.list /\ x.token = t
  BY <1>2, <1>3, <1>14 DEF Job, Phases
<1>16. Turn(w, x)
  BY <1>11, <1>13, <1>14, <1>15, GoesTurns DEF IInv
<1>17. job'[w] = x /\ x # Nothing /\ \A v \in Workers \ {w} : job'[v] = job[v]
  BY <1>15, <1>16, NothingAssumption DEF Turn
<1>18. TypeOK'
  BY <1>2, <1>12, <1>16 DEF IInv, TypeOK, Turn
<1>19. session[s].status # "none" /\ session[s].client = c /\ status # "none"
  BY <1>4, <1>5, <1>8 DEF Names
<1>20. Kept
  BY <1>10, <1>12, <1>19 DEF Kept
<1>21. Employed /\ Counted' \subseteq Counted
  BY <1>2, SameAccounts DEF IInv
<1>22. c # Nothing
  BY AccessAssumption
<1>23. References'
  <2>1. \A z \in Sessions : ~(session[z].status = "none" /\ session'[z].status # "none")
    BY <1>12, <1>19
  <2>2. RequestOK(x)'
    <3>1. Names(t, c)'
      BY <1>10, <1>12, <1>13, <1>19 DEF Names
    <3>2. \A z \in j.list : session'[z].status # "none"
      BY <1>1, <1>2, <1>20 DEF IInv, References, RequestOK, Kept, Job
    <3> QED
      BY <1>15, <1>22, <3>1, <3>2 DEF RequestOK
  <2>3. RequestOK(job[w])'
    BY <1>17, <2>2 DEF RequestOK, Names
  <2>4. \A v \in Workers : job'[v] = job[v] \/ job'[v] = Nothing \/ RequestOK(job[v])'
    BY <1>17, <2>3
  <2> QED
    BY <1>2, <1>20, <1>21, <2>1, <2>4, ReferencesKeep DEF IInv, Employed
<1>24. Limits'
  <2>1. \A v \in Workers : /\ Quiet(v, LetsNoDevice(job'[v])) /\ Quiet(v, InvitesNobody(job'[v]))
                           /\ Quiet(v, RenewsNothing(job'[v]))
    BY <1>15, <1>17 DEF Quiet, LetsNoDevice, InvitesNobody, RenewsNothing
  <2>2. DevicesFit' /\ EmployeesFit'
    BY <1>2, <1>21, <2>1, DevicesSame, EmployeesSame DEF IInv
  <2>3. Renewed(s)
    BY <1>1, <1>2, <1>5 DEF Renewed, Refreshing
  <2>4. ASSUME NEW d \in Clients PROVE SessionsFit(d)'
    <3>1. ASSUME NEW z \in Usable(d)' PROVE z \in Usable(d)
      <4>1. /\ z \in Sessions /\ session'[z].client = d
            /\ session'[z].status = "live" \/ (session'[z].status = "expired" /\ Renewed(z)')
        BY DEF Usable
      <4>2. CASE z = s
        BY <1>8, <1>10, <1>12, <2>3, <4>1, <4>2 DEF Usable
      <4>3. CASE z # s
        <5>1. Renewed(z)' => Renewed(z)
          BY <2>1, QuietRenews DEF IInv
        <5> QED
          BY <1>12, <4>1, <4>3, <5>1 DEF Usable
      <4> QED
        BY <4>2, <4>3
    <3>2. /\ Replacing(d)' \subseteq Replacing(d)
          /\ \A v \in Replacing(d)' : job'[v].list = job[v].list
      BY <2>1, ReplacingShrinks DEF IInv
    <3>3. Usable(d)' \subseteq Usable(d)
      BY <3>1
    <3> QED
      BY <3>2, <3>3, SessionsKeep DEF IInv, Limits
  <2> QED
    BY <2>2, <2>4 DEF Limits
<1>25. Passwords'
  <2>1. NoneOpened
    BY <1>8, <1>10, <1>12 DEF NoneOpened
  <2>2. \A v \in Workers : Proven(v)
    BY <1>15, <1>17 DEF Proven
  <2>3. \A u \in Users : /\ account'[u].password \in Nat
                         /\ account'[u].password >= account[u].password
    BY <1>18, <1>21 DEF TypeOK, Employed
  <2> QED
    BY <1>2, <2>1, <2>2, <2>3, PasswordsKeep DEF IInv
<1>26. Refreshing(w)
  BY <1>1, <1>2 DEF Refreshing
<1>27. ASSUME NEW v \in Workers, LoggingIn(v)', Answered(v)' PROVE Unshared(v)'
  <2>1. \A y \in Workers \ {w} : (Refreshing(y) \/ (LoggingIn(y) /\ Answered(y)))' =>
            (Refreshing(y) \/ (LoggingIn(y) /\ Answered(y))) /\ job'[y] = job[y]
    BY <1>17 DEF LoggingIn, Answered, Refreshing
  <2>2. v # w /\ LoggingIn(v) /\ Answered(v) /\ job'[v] = job[v]
    BY <1>15, <1>17, <1>27 DEF LoggingIn, Answered
  <2>3. Unshared(v)
    BY <2>2 DEF IInv, Tokens
  <2>4. job[v].token.session \in Sessions \ {s}
    <3>1. job[v].token \in Token
      BY <2>2 DEF IInv, References, RequestOK, LoggingIn, Answered
    <3>2. job[v].token.session # s
      BY <1>1, <1>5, <1>26, <2>2, <2>3 DEF Unshared
    <3> QED
      BY <3>1, <3>2 DEF Token
  <2>5. \A y \in Workers \ {v} : (Refreshing(y) \/ (LoggingIn(y) /\ Answered(y)))' =>
            job'[y].token.session # job[v].token.session
    BY <1>13, <1>15, <1>17, <2>1, <2>3, <2>4 DEF Unshared
  <2> QED
    BY <1>2, <1>12, <2>2, <2>3, <2>4, <2>5 DEF Unshared
<1>28. ASSUME ~overlapped'[c] PROVE Alone(c)'
  <2>1. Alone(c)
    BY <1>2, <1>28 DEF IInv, Tokens
  <2>2. OfClient(c)' = OfClient(c) /\ w \in OfClient(c)
    BY <1>1, <1>2, <1>3, <1>15, <1>17 DEF OfClient
  <2>3. \A v \in OfClient(c)' : v = w
    BY <2>1, <2>2 DEF Alone
  <2>4. Refreshing(w)' /\ Current(job[w].token)'
    BY <1>10, <1>12, <1>13, <1>15, <1>17 DEF Refreshing, Current
  <2> QED
    BY <2>2, <2>3, <2>4 DEF Alone
<1>29. \A z \in Sessions : session[z].status # "none" /\ session[z].client # c =>
           /\ session'[z].number = session[z].number
           /\ session[z].status = "revoked" => session'[z].status = "revoked"
  BY <1>12, <1>19
<1>30. Tokens'
  BY <1>1, <1>2, <1>3, <1>15, <1>16, <1>27, <1>28, <1>29, TokensApart DEF IInv
<1> QED
  BY <1>18, <1>23, <1>24, <1>25, <1>30 DEF IInv

(***************************************************************************)
(* The invariant.                                                          *)
(***************************************************************************)
LEMMA Initially == ASSUME Init PROVE IInv
<1>1. TypeOK
  <2>1. /\ account \in [Users -> [status: {"NONE", "INVITED", "ACTIVE", "DISABLED"},
                                  password: Nat, mustChange: BOOLEAN]]
        /\ device \in [Clients -> {"NONE", "ACTIVE", "BLOCKED"}]
        /\ reset \in [Users -> [number: Nat, usable: BOOLEAN]]
        /\ app \in [Clients -> Token \cup {Nothing}] /\ job \in [Workers -> Job \cup {Nothing}]
        /\ overlapped \in [Clients -> BOOLEAN] /\ closed \in [Users -> Nat]
        /\ reactivated \in Nat
    BY DEF Init
  <2>2. session \in [Sessions -> SessionRow]
    BY DEF Init, SessionRow
  <2>3. budget \in [RequestKinds -> Nat]
    BY AccessAssumption DEF Init
  <2> QED
    BY <2>1, <2>2, <2>3 DEF TypeOK
<1>2. /\ \A v \in Workers : job[v] = Nothing
      /\ \A s \in Sessions : session[s].status = "none"
      /\ \A c \in Clients : app[c] = Nothing /\ device[c] = "NONE"
      /\ \A u \in Users : /\ account[u].password = 0 /\ ~account[u].mustChange
                          /\ closed[u] = 0 /\ (u # Owner => account[u].status = "NONE")
  BY DEF Init
<1>3. References
  BY <1>2 DEF References
<1>4. Cardinality({}) = 0 /\ Cardinality(Workers) \in Nat /\ Cardinality(Workers) # 0
  BY FS_EmptySet, Counts
<1>5. Limits
  <2>1. Admitted = {}
    BY <1>2 DEF Admitted, ActiveDevices, Admitting
  <2>2. Welcome = {}
    <3>1. ASSUME NEW e \in Employees PROVE e \in Users /\ e # Owner
      BY AccessAssumption DEF Users
    <3>2. Counted = {}
      BY <1>2, <3>1 DEF Counted
    <3>3. Inviting = {}
      BY <1>2 DEF Inviting
    <3> QED
      BY <3>2, <3>3 DEF Welcome
  <2>3. DevicesFit /\ EmployeesFit
    <3>1. MaxDevices \in Nat /\ MaxEmployees \in Nat /\ reactivated \in Nat
      BY <1>1, AccessAssumption DEF TypeOK
    <3> QED
      BY <1>4, <2>1, <2>2, <3>1 DEF DevicesFit, EmployeesFit
  <2>4. ASSUME NEW c \in Clients PROVE SessionsFit(c)
    <3>1. Usable(c) = {} /\ Replacing(c) = {}
      BY <1>2 DEF Usable, Replacing, LoggingIn
    <3> QED
      BY <1>4, <3>1 DEF SessionsFit
  <2> QED
    BY <2>3, <2>4 DEF Limits
<1>6. Passwords
  <2>1. ASSUME NEW u \in Users PROVE closed[u] <= account[u].password /\ Old(u, closed[u]) = {}
    <3>1. closed[u] = 0 /\ account[u].password = 0
      BY <1>2
    <3>2. \A s \in Sessions : session[s].status \notin {"live", "expired"}
      BY <1>2
    <3>3. Old(u, closed[u]) = {}
      BY <3>2 DEF Old, NotRevoked
    <3> QED
      BY <3>1, <3>3
  <2>2. \A v \in Workers : ~LoggingIn(v) /\ ~Resetting(v, {"list", "revoke"})
    BY <1>2 DEF LoggingIn, Resetting
  <2> QED
    BY <2>1, <2>2 DEF Passwords
<1>7. Tokens
  BY <1>2 DEF Tokens, LoggingIn, Alone, OfClient
<1> QED
  BY <1>1, <1>3, <1>5, <1>6, <1>7 DEF IInv

LEMMA StepKeeps == ASSUME IInv, NEW w \in Workers, Step(w) PROVE IInv'
BY FindDeviceKeeps, CreateDeviceKeeps, ListClientKeeps, RevokeListedKeeps, OpenSessionKeeps,
   FindSessionKeeps, RotateKeeps, DeliverKeeps, RefuseKeeps, ConsumeTokenKeeps, ListUserKeeps,
   FinishResetKeeps, WrittenKeeps, BlockAccessKeeps
DEF Step

LEMMA RequestKeeps == ASSUME IInv, NEW w \in Workers, Request(w) PROVE IInv'
BY StartLoginKeeps, StartRefreshKeeps, StartResetKeeps, InviteKeeps, StartBlockKeeps DEF Request

LEMMA Inductive == ASSUME IInv, [Next]_vars PROVE IInv'
<1>1. CASE Next
  <2>1. ASSUME NEW w \in Workers, Step(w) \/ Request(w) \/ RequestDies(w) PROVE IInv'
    BY <2>1, StepKeeps, RequestKeeps, RequestDiesKeeps
  <2>2. ASSUME NEW u \in Users, ForgotPassword(u) \/ ChangeInitialPassword(u) PROVE IInv'
    BY <2>2, ForgotPasswordKeeps, ChangeInitialPasswordKeeps
  <2>3. ASSUME NEW e \in Employees, Disable(e) PROVE IInv'
    BY <2>3, DisableKeeps
  <2> QED
    BY <1>1, <2>1, <2>2, <2>3, EndingsKeep DEF Next
<1>2. CASE UNCHANGED vars
  <2>1. UNCHANGED <<account, device, session, reset, app, job, budget,
                    overlapped, closed, reactivated>>
    BY <1>2 DEF vars
  <2>2. TypeOK'
    BY <2>1 DEF IInv, TypeOK
  <2>3. Employed /\ Counted' \subseteq Counted
    BY <2>1, SameAccounts DEF IInv
  <2> QED
    BY <2>1, <2>2, <2>3, Unstarted, SameIsMinor, Uneventful
<1> QED
  BY <1>1, <1>2

LEMMA Invariantly == Spec => []IInv
<1>1. Init => IInv
  BY Initially
<1>2. IInv /\ [Next]_vars => IInv'
  BY Inductive
<1> QED
  BY <1>1, <1>2, PTL DEF Spec

\* The devices and the employees of a company, and the live sessions of a client, exceed what the
\* plan allows at most by what is let in at the same time: nobody who was counted is counted away,
\* and a refresh brings back no session beyond those that a login replaces.
THEOREM LimitsAreKept == Spec => []LimitsHold
<1>1. ASSUME IInv PROVE LimitsHold
  <2>1. /\ IsFiniteSet(Admitted) /\ IsFiniteSet(Welcome)
        /\ \A c \in Clients : IsFiniteSet(Usable(c)) /\ Replacing(c) \subseteq Workers
    BY <1>1, WhatIsCounted DEF IInv
  <2>2. Cardinality(ActiveDevices) + 1 <= MaxDevices + Cardinality(Workers)
    <3>1. ActiveDevices \subseteq Admitted
      BY DEF Admitted
    <3>2. /\ Cardinality(ActiveDevices) \in Nat /\ Cardinality(Admitted) \in Nat
          /\ Cardinality(ActiveDevices) <= Cardinality(Admitted)
      BY <2>1, <3>1, Fewer
    <3>3. MaxDevices \in Nat /\ Cardinality(Workers) \in Nat
      BY AccessAssumption, Counts
    <3> QED
      BY <1>1, <3>2, <3>3 DEF IInv, Limits, DevicesFit
  <2>3. Cardinality(Counted) + 1 <= MaxEmployees + Cardinality(Workers) + reactivated
    <3>1. Counted \subseteq Welcome
      BY DEF Welcome
    <3>2. /\ Cardinality(Counted) \in Nat /\ Cardinality(Welcome) \in Nat
          /\ Cardinality(Counted) <= Cardinality(Welcome)
      BY <2>1, <3>1, Fewer
    <3>3. MaxEmployees \in Nat /\ Cardinality(Workers) \in Nat /\ reactivated \in Nat
      BY <1>1, AccessAssumption, Counts DEF IInv, TypeOK
    <3> QED
      BY <1>1, <3>2, <3>3 DEF IInv, Limits, EmployeesFit
  <2>4. ASSUME NEW c \in Clients PROVE Cardinality(Live(c)) <= Cardinality(Workers)
    <3>1. Listed({}) = {} /\ {} \in SUBSET Replacing(c)
      BY DEF Listed
    <3>2. Cardinality(Usable(c) \ Listed({})) + Cardinality({}) <= Cardinality(Workers)
      BY <1>1, <3>1 DEF IInv, Limits, SessionsFit
    <3>3. Usable(c) \ Listed({}) = Usable(c) /\ Cardinality({}) = 0
      BY <3>1, FS_EmptySet
    <3>4. Live(c) \subseteq Usable(c)
      BY DEF Live, Usable
    <3>5. /\ Cardinality(Live(c)) \in Nat /\ Cardinality(Usable(c)) \in Nat
          /\ Cardinality(Live(c)) <= Cardinality(Usable(c)) /\ Cardinality(Workers) \in Nat
      BY <2>1, <3>4, Fewer, Counts
    <3> QED
      BY <3>2, <3>3, <3>5
  <2> QED
    BY <1>1, <2>2, <2>3, <2>4 DEF LimitsHold, IInv
<1> QED
  BY <1>1, Invariantly, PTL

\* Once a password reset ended, a session that an older password opened lives only if its login
\* was under way when the reset listed the sessions of the user: what is listed is revoked, and no
\* refresh, expiry or late answer opens it again.
THEOREM OldPasswordsAreOut == Spec => []OldPasswordIsOut
<1>1. ASSUME IInv PROVE OldPasswordIsOut
  <2>1. ASSUME NEW s \in Sessions, session[s].status = "live",
               session[s].proof < closed[session[s].user]
        PROVE  session[s].raced
    <3>1. session[s].user \in Users
      <4>1. session[s].user # Nothing
        BY <1>1, <2>1 DEF IInv, References
      <4>2. session[s].user \in Users \cup {Nothing}
        BY <1>1 DEF IInv, TypeOK, SessionRow
      <4> QED
        BY <4>1, <4>2
    <3>2. Old(session[s].user, closed[session[s].user]) = {}
      BY <1>1, <3>1 DEF IInv, Passwords
    <3> QED
      BY <2>1, <3>2 DEF Old, NotRevoked
  <2> QED
    BY <2>1 DEF OldPasswordIsOut
<1> QED
  BY <1>1, Invariantly, PTL

\* A client whose requests never overlapped, and that got each answer, has a token that its session
\* still knows, or a session that was revoked: it is not signed out by its own refreshes.
THEOREM StoredTokensAreCurrent == Spec => []StoredTokenIsCurrent
<1>1. ASSUME IInv PROVE StoredTokenIsCurrent
  BY <1>1 DEF IInv, Tokens, Alone, Current, StoredTokenIsCurrent
<1> QED
  BY <1>1, Invariantly, PTL
===============================================================================

------------------------ MODULE AdministrationProofs ------------------------
(***************************************************************************)
(* Who may administer, and the executions that leave a receipt: the audit  *)
(* log explains both, for any users, permissions, sessions and keys and    *)
(* any number of requests that race.                                       *)
(*                                                                         *)
(* The types come first, then the two invariants: what a request may still *)
(* rely on (AuthorityInv) and what an execution has behind it              *)
(* (ExecutionInv).  A request relies on what it read only while nobody     *)
(* changed it: checked and alone of its job say so, and a step that        *)
(* changes a permission takes them from the others.                        *)
(***************************************************************************)
EXTENDS Administration, FiniteSetTheorems, SequenceTheorems, TLAPS

(* What a request of each kind can be at.                                  *)
Changes == {"grant", "revoke", "bootstrap"}
StepsOf(kind) ==
    CASE kind \in {"register", "initial"} -> {"create"}
      [] kind = "bootstrap" -> {"managers", "write", "audit", "deny"}
      [] kind \in {"grant", "revoke"} -> {"write", "audit", "deny"}
      [] kind = "dry" -> {"record", "deny"}
      [] kind = "execute" -> {"evidence", "deny", "request", "receipt", "effect", "succeed",
                              "finish", "failed"}
      [] kind = "legacy" -> {"effect", "told"}
JobKinds == {"register", "initial", "bootstrap", "grant", "revoke", "dry", "execute", "legacy"}
AllSteps == {"create", "managers", "write", "audit", "deny", "record", "evidence", "request",
             "receipt", "effect", "succeed", "finish", "failed", "told"}
Whats == {"attempted", "denied", "grant", "revoke", "bootstrap", "dry", "requested", "succeeded",
          "failed", "legacy requested", "legacy told"}

Request == [kind: JobKinds, step: AllSteps, actor: Users \cup {Nothing}, row: Rows \cup {Nothing},
            slug: Slugs \cup {Nothing}, session: Sessions \cup {Nothing}, key: Keys \cup {Nothing},
            dryRun: Nat, checked: BOOLEAN, alone: BOOLEAN]
LogEntry == [what: Whats, actor: Users \cup {Nothing}, row: Rows \cup {Nothing},
             session: Sessions \cup {Nothing}, key: Keys \cup {Nothing}, dryRun: Nat,
             checked: BOOLEAN]

RequestOK(j) ==
    /\ j.step \in StepsOf(j.kind)
    /\ j.kind # "bootstrap" => j.actor \in Users
    /\ j.kind \in Changes => j.row \in Rows
    /\ j.kind \in {"register", "initial"} => j.slug \in Slugs
    /\ j.kind \in {"dry", "execute", "legacy"} => j.session \in Sessions
    /\ j.kind = "execute" => j.key \in Keys
    /\ j.kind = "grant" /\ j.step # "deny" => j.row[1] # j.actor

Typed ==
    /\ TypeOK
    /\ log \in Seq(LogEntry)
    /\ job \in [Workers -> Request \cup {Nothing}]
    /\ \A w \in Workers : job[w] # Nothing => RequestOK(job[w])

(***************************************************************************)
(* Typing.                                                                 *)
(***************************************************************************)
LEMMA SpendTyped == ASSUME TypeOK, NEW kind \in RequestKinds, Spend(kind)
                    PROVE  budget' \in [RequestKinds -> Nat]
BY DEF TypeOK, Spend

LEMMA NewJobTyped ==
    ASSUME NEW kind \in JobKinds, NEW step \in AllSteps, NEW actor \in Users \cup {Nothing}
    PROVE  LET j == NewJob(kind, step, actor) IN
           /\ j \in Request
           /\ j.kind = kind /\ j.step = step /\ j.actor = actor /\ j.row = Nothing /\ j.slug = Nothing
           /\ j.session = Nothing /\ j.key = Nothing /\ j.dryRun = 0 /\ j.checked /\ j.alone
BY DEF NewJob, Request

LEMMA WithSlug ==
    ASSUME NEW b \in Request, NEW g \in Slugs
    PROVE  LET j == [b EXCEPT !.slug = g] IN
           /\ j \in Request /\ j.kind = b.kind /\ j.step = b.step /\ j.actor = b.actor
           /\ j.slug = g
           /\ j.row = b.row /\ j.session = b.session /\ j.key = b.key /\ j.dryRun = b.dryRun /\ j.checked = b.checked /\ j.alone = b.alone
BY DEF Request

LEMMA WithRow ==
    ASSUME NEW b \in Request, NEW row \in Rows
    PROVE  LET j == [b EXCEPT !.row = row] IN
           /\ j \in Request /\ j.kind = b.kind /\ j.step = b.step /\ j.actor = b.actor
           /\ j.row = row
           /\ j.slug = b.slug /\ j.session = b.session /\ j.key = b.key /\ j.dryRun = b.dryRun /\ j.checked = b.checked /\ j.alone = b.alone
BY DEF Request

LEMMA WithSession ==
    ASSUME NEW b \in Request, NEW s \in Sessions
    PROVE  LET j == [b EXCEPT !.session = s] IN
           /\ j \in Request /\ j.kind = b.kind /\ j.step = b.step /\ j.actor = b.actor
           /\ j.session = s
           /\ j.row = b.row /\ j.slug = b.slug /\ j.key = b.key /\ j.dryRun = b.dryRun /\ j.checked = b.checked /\ j.alone = b.alone
BY DEF Request

LEMMA EntryTyped == ASSUME NEW j \in Request, NEW what \in Whats
                    PROVE  Entry(what, j) \in LogEntry
BY DEF Entry, Request, LogEntry

(* What every step of the module does to the log: nothing, or one entry.   *)
LogGrows(j, whats) == log' = log \/ \E what \in whats : log' = Append(log, Entry(what, j))

LEMMA LogTyped ==
    ASSUME log \in Seq(LogEntry), NEW j \in Request, LogGrows(j, Whats)
    PROVE  /\ log' \in Seq(LogEntry) /\ Len(log') \in Nat /\ Len(log) \in Nat
           /\ Len(log) <= Len(log')
           /\ \A i \in DOMAIN log : i \in DOMAIN log' /\ log'[i] = log[i]
<1>1. CASE log' = log
  BY <1>1
<1>2. ASSUME NEW what \in Whats, log' = Append(log, Entry(what, j)) PROVE log' \in Seq(LogEntry) /\ Len(log') = Len(log) + 1
           /\ \A i \in 1..Len(log) : log'[i] = log[i]
  BY <1>2, EntryTyped, AppendProperties
<1>3. DOMAIN log = 1..Len(log) /\ Len(log) \in Nat
  OBVIOUS
<1>4. ASSUME NEW what \in Whats, log' = Append(log, Entry(what, j))
      PROVE  /\ log' \in Seq(LogEntry) /\ Len(log') \in Nat /\ Len(log) <= Len(log')
             /\ \A i \in DOMAIN log : i \in DOMAIN log' /\ log'[i] = log[i]
  <2>1. log' \in Seq(LogEntry) /\ Len(log') = Len(log) + 1 /\ \A i \in 1..Len(log) : log'[i] = log[i]
    BY <1>2, <1>4
  <2>2. DOMAIN log' = 1..Len(log')
    BY <2>1
  <2> QED
    BY <2>1, <2>2, <1>3
<1> QED
  BY <1>1, <1>3, <1>4 DEF LogGrows

LEMMA InitTyped == ASSUME Init PROVE Typed
<1>1. Len(log) = 0 /\ log \in Seq(LogEntry)
  <2>1. log = <<>>
    BY DEF Init
  <2> QED
    BY <2>1, EmptySeq
<1>2. budget \in [RequestKinds -> Nat]
  BY AdministrationAssumption DEF Init
<1>3. job \in [Workers -> Request \cup {Nothing}] /\ \A w \in Workers : job[w] = Nothing
  BY DEF Init
<1>4. TypeOK
  BY <1>1, <1>2 DEF Init, TypeOK
<1> QED
  BY <1>1, <1>3, <1>4 DEF Typed

LEMMA JobTyped ==
    ASSUME Typed, NEW w \in Workers, NEW j \in Request \cup {Nothing}, j # Nothing => RequestOK(j),
           job' = [job EXCEPT ![w] = j]
    PROVE  /\ job' \in [Workers -> Request \cup {Nothing}]
           /\ \A v \in Workers : job'[v] # Nothing => RequestOK(job'[v])
           /\ job'[w] = j /\ \A v \in Workers \ {w} : job'[v] = job[v]
BY DEF Typed

(* A step of the request.                                                  *)
LEMMA GoesTyped ==
    ASSUME Typed, NEW w \in Workers, job[w] # Nothing, NEW step \in StepsOf(job[w].kind),
           step \in AllSteps, step # "deny" => job[w].step # "deny", Goes(w, step)
    PROVE  /\ job' \in [Workers -> Request \cup {Nothing}]
           /\ \A v \in Workers : job'[v] # Nothing => RequestOK(job'[v])
           /\ job' = [job EXCEPT ![w] = [job[w] EXCEPT !.step = step]]
           /\ \A v \in Workers \ {w} : job'[v] = job[v]
<1> DEFINE j == [job[w] EXCEPT !.step = step]
<1>1. job[w] \in Request /\ RequestOK(job[w])
  BY DEF Typed
<1>2. j \in Request
  BY <1>1 DEF Request
<1>3. /\ j.kind = job[w].kind /\ j.step = step /\ j.actor = job[w].actor /\ j.row = job[w].row
      /\ j.slug = job[w].slug /\ j.session = job[w].session /\ j.key = job[w].key
  BY <1>1 DEF Request
<1>4. RequestOK(j)
  BY <1>1, <1>3 DEF RequestOK
<1>5. job' = [job EXCEPT ![w] = j]
  BY DEF Goes
<1> HIDE DEF j
<1> QED
  BY <1>2, <1>4, <1>5, JobTyped DEF j

LEMMA EndsTyped ==
    ASSUME Typed, NEW w \in Workers, Ends(w)
    PROVE  /\ job' \in [Workers -> Request \cup {Nothing}]
           /\ \A v \in Workers : job'[v] # Nothing => RequestOK(job'[v])
           /\ job'[w] = Nothing /\ \A v \in Workers \ {w} : job'[v] = job[v]
BY JobTyped DEF Ends

(* A change of a permission leaves a request what it was, but for what it   *)
(* may rely on.                                                            *)
Alike(i, j) ==
    /\ j \in Request
    /\ j.kind = i.kind /\ j.step = i.step /\ j.actor = i.actor /\ j.row = i.row /\ j.slug = i.slug
    /\ j.session = i.session /\ j.key = i.key /\ j.dryRun = i.dryRun
LEMMA AlikeOK == ASSUME NEW i, NEW j, Alike(i, j), RequestOK(i) PROVE RequestOK(j)
BY DEF Alike, RequestOK

LEMMA DisturbedTyped ==
    ASSUME Typed, NEW w \in Workers, NEW row, NEW v \in Workers
    PROVE  LET i == job[v]
               j == Disturbed(w, row)[v]
           IN /\ Disturbed(w, row) \in [Workers -> Request \cup {Nothing}]
              /\ v = w \/ i = Nothing => j = i
              /\ v # w /\ i # Nothing => 
                    /\ Alike(i, j)
                    /\ j.checked = (i.checked /\ row \notin Basis(i))
                    /\ j.alone = (i.alone /\ i.row # row)
<1>1. job[v] \in Request \cup {Nothing}
  BY DEF Typed
<1>2. \A x \in Workers : job[x] # Nothing =>
         [job[x] EXCEPT !.checked = @ /\ row \notin Basis(job[x]),
                        !.alone = @ /\ job[x].row # row] \in Request
  BY DEF Request, Typed
<1>3. Disturbed(w, row) \in [Workers -> Request \cup {Nothing}]
  BY <1>2 DEF Disturbed, Typed, Idle
<1>4. Disturbed(w, row)[v] = IF v = w \/ job[v] = Nothing THEN job[v]
         ELSE [job[v] EXCEPT !.checked = @ /\ row \notin Basis(job[v]),
                        !.alone = @ /\ job[v].row # row] 
  BY DEF Disturbed, Idle
<1>5. ASSUME v # w, job[v] # Nothing
      PROVE  /\ Alike(job[v], Disturbed(w, row)[v])
             /\ Disturbed(w, row)[v].checked = (job[v].checked /\ row \notin Basis(job[v]))
             /\ Disturbed(w, row)[v].alone = (job[v].alone /\ job[v].row # row)
  <2> DEFINE i == job[v]
             c == i.checked /\ row \notin Basis(i)
             a == i.alone /\ i.row # row
  <2>1. Disturbed(w, row)[v] = [i EXCEPT !.checked = c, !.alone = a]
    BY <1>4, <1>5
  <2>2. i \in Request /\ c \in BOOLEAN /\ a \in BOOLEAN
    BY <1>1, <1>5
  <2> HIDE DEF c, a, i
  <2>3. [i EXCEPT !.checked = c, !.alone = a].checked = c
    BY <2>2 DEF Request
  <2>4. [i EXCEPT !.checked = c, !.alone = a].alone = a
    BY <2>2 DEF Request
  <2>5. Alike(i, [i EXCEPT !.checked = c, !.alone = a])
    BY <2>2 DEF Request, Alike
  <2> QED
    BY <2>1, <2>3, <2>4, <2>5 DEF i, c, a
<1> QED
  BY <1>3, <1>4, <1>5

(***************************************************************************)
(* Steps.  A request that starts, one that goes on, and one that ends.     *)
(***************************************************************************)
SameTables == UNCHANGED <<user, company, permission, session, receipt, first, unlogged>>
JobsTyped ==
    /\ job \in [Workers -> Request \cup {Nothing}]
    /\ \A v \in Workers : job[v] # Nothing => RequestOK(job[v])

TablesTyped ==
    /\ user \in [Users -> {"none", "user", "admin"}]
    /\ company \in [Slugs -> Users \cup {Nothing}]
    /\ permission \in [Rows -> {"none", "active", "inactive"}]
    /\ session \in [Sessions -> {"live", "revoked"}]
    /\ receipt \in [Keys -> Receipts \cup {Nothing}]
    /\ first \subseteq Users /\ unlogged \subseteq Rows

LEMMA TablesAre == ASSUME Typed PROVE TablesTyped
BY DEF Typed, TypeOK, TablesTyped

LEMMA SameTyped == ASSUME Typed, SameTables PROVE TablesTyped'
BY TablesAre DEF SameTables, TablesTyped

LEMMA TypedStep ==
    ASSUME Typed, TablesTyped', JobsTyped', budget' \in [RequestKinds -> Nat],
           NEW j \in Request, LogGrows(j, Whats), old' = old
    PROVE  Typed'
<1>1. log' \in Seq(LogEntry) /\ Len(log') \in Nat /\ Len(log) \in Nat /\ Len(log) <= Len(log')
  BY LogTyped DEF Typed
<1>2. old' \in 0..Len(log')
  BY <1>1 DEF Typed, TypeOK
<1>3. TypeOK'
  BY <1>2 DEF TypeOK, TablesTyped
<1> QED
  BY <1>1, <1>3 DEF Typed, JobsTyped

StartStep ==
    \E w \in Workers :
       \/ \E u \in Users, slug \in Slugs : StartRegister(w, u, slug) \/ StartRegisterInitial(w, u, slug)
       \/ \E u \in Users : StartBootstrap(w, u)
       \/ \E u \in Users, row \in Rows, kind \in {"grant", "revoke"} : StartMutation(w, kind, u, row)
       \/ \E u \in Users, s \in Sessions : StartDryRun(w, u, s) \/ StartLegacyRevoke(w, u, s)
       \/ \E u \in Users, k \in Keys, s \in Sessions, d \in 1..Len(log) :
               StartExecution(w, u, k, s, d)

(* What a request of each kind starts with, and what it may write at once. *)
Allowed(j, p) ==
    /\ j.step # "deny" => Holds(j.actor, p)
    /\ j.checked = Logged(RowsOf({j.actor}, p))
    /\ log' = log
Arrival(j) ==
    \/ /\ j.kind \in {"register", "initial"} /\ j.step = "create" /\ log' = log
       /\ j.kind = "initial" => \A u \in Users : user[u] = "none"
    \/ /\ j.kind = "bootstrap" /\ j.step \in {"managers", "deny"}
       /\ log' = Append(log, Entry("attempted", j))
    \/ j.kind \in {"grant", "revoke"} /\ j.step \in {"write", "deny"} /\ Allowed(j, "manage")
    \/ j.kind = "dry" /\ j.step \in {"record", "deny"} /\ Allowed(j, "revoke session")
    \/ j.kind = "execute" /\ j.step \in {"evidence", "deny"} /\ Allowed(j, "revoke session")
    \/ /\ j.kind = "legacy" /\ j.step = "effect"
       /\ log' = log \/ log' = Append(log, Entry("legacy requested", j))
Arrives(w, j) ==
    /\ j \in Request /\ RequestOK(j)
    /\ job' = [job EXCEPT ![w] = j]
    /\ \E kind \in RequestKinds : Spend(kind)
    /\ SameTables /\ old' = old
    /\ Arrival(j)

LEMMA ArrivalLog == ASSUME NEW j, Arrival(j) PROVE LogGrows(j, Whats \ Changes)
BY DEF Arrival, Allowed, LogGrows, Whats, Changes

LEMMA StartJobs == ASSUME StartStep PROVE \E w \in Workers : \E j : Arrives(w, j)
<1>1. PICK w \in Workers :
       \/ \E u \in Users, slug \in Slugs : StartRegister(w, u, slug) \/ StartRegisterInitial(w, u, slug)
       \/ \E u \in Users : StartBootstrap(w, u)
       \/ \E u \in Users, row \in Rows, kind \in {"grant", "revoke"} : StartMutation(w, kind, u, row)
       \/ \E u \in Users, s \in Sessions : StartDryRun(w, u, s) \/ StartLegacyRevoke(w, u, s)
       \/ \E u \in Users, k \in Keys, s \in Sessions, d \in 1..Len(log) :
               StartExecution(w, u, k, s, d)
  BY DEF StartStep
<1>2. ASSUME NEW u \in Users, NEW slug \in Slugs, NEW kind \in {"register", "initial"},
             job' = [job EXCEPT ![w] = [NewJob(kind, "create", u) EXCEPT !.slug = slug]],
             Spend(kind), SameTables, log' = log, old' = old,
             kind = "initial" => \A v \in Users : user[v] = "none"
      PROVE  \E j : Arrives(w, j)
  <2> DEFINE j == [NewJob(kind, "create", u) EXCEPT !.slug = slug]
  <2>1. j \in Request /\ j.kind = kind /\ j.step = "create" /\ j.actor = u /\ j.slug = slug
    <3>1. /\ NewJob(kind, "create", u) \in Request /\ NewJob(kind, "create", u).kind = kind
          /\ NewJob(kind, "create", u).step = "create" /\ NewJob(kind, "create", u).actor = u
      BY NewJobTyped DEF JobKinds, AllSteps
    <3> QED
      BY <3>1, WithSlug
  <2>2. RequestOK(j)
    BY <2>1 DEF RequestOK, JobKinds, StepsOf, Changes
  <2>3. kind \in RequestKinds
    BY DEF RequestKinds
  <2> HIDE DEF j
  <2>4. Arrival(j)
    BY <1>2, <2>1 DEF Arrival
  <2>5. Arrives(w, j)
    BY <1>2, <2>1, <2>2, <2>3, <2>4 DEF Arrives, j
  <2> QED
    BY <2>5
<1>3. ASSUME NEW u \in Users, StartBootstrap(w, u) PROVE \E j : Arrives(w, j)
  <2> DEFINE step == IF RequirePlatformAdmin(u) THEN "managers" ELSE "deny"
             j == [NewJob("bootstrap", step, Nothing) EXCEPT !.row = <<u, "manage", Platform>>]
  <2>1. <<u, "manage", Platform>> \in Rows
    BY AdministrationAssumption DEF Rows, Permissions
  <2>2. j \in Request /\ j.kind = "bootstrap" /\ j.step \in {"managers", "deny"} /\ j.row \in Rows
    <3>1. step \in {"managers", "deny"} /\ step \in AllSteps
      BY DEF AllSteps
    <3> HIDE DEF step
    <3>2. /\ NewJob("bootstrap", step, Nothing) \in Request
          /\ NewJob("bootstrap", step, Nothing).kind = "bootstrap"
          /\ NewJob("bootstrap", step, Nothing).step = step
      BY <3>1, NewJobTyped DEF JobKinds
    <3> QED
      BY <3>1, <3>2, <2>1, WithRow
  <2>3. RequestOK(j)
    BY <2>2 DEF RequestOK, JobKinds, StepsOf, Changes
  <2>4. log' = Append(log, Entry("attempted", j))
    BY <1>3 DEF StartBootstrap
  <2>5. /\ Spend("bootstrap") /\ SameTables /\ old' = old
        /\ job' = [job EXCEPT ![w] = j]
    BY <1>3 DEF StartBootstrap, tables, SameTables
  <2> HIDE DEF j
  <2>6. Arrival(j)
    BY <2>2, <2>4 DEF Arrival
  <2>7. Arrives(w, j)
    BY <2>2, <2>3, <2>5, <2>6 DEF Arrives, RequestKinds
  <2> QED
    BY <2>7
<1>4. ASSUME NEW u \in Users, NEW row \in Rows, NEW kind \in {"grant", "revoke"},
             StartMutation(w, kind, u, row)
      PROVE  \E j : Arrives(w, j)
  <2> DEFINE blocked == kind = "grant" /\ u = row[1] /\ IsCriticalAdminPermission(row[2])
             step == IF Holds(u, "manage") /\ ~blocked THEN "write" ELSE "deny"
             c == Logged(RowsOf({u}, "manage"))
             j == [NewJob(kind, step, u) EXCEPT !.row = row, !.checked = c]
  <2>1. row[2] \in Permissions
    BY DEF Rows
  <2>2. /\ j \in Request /\ j.kind = kind /\ j.step = step /\ j.row = row /\ j.actor = u
        /\ j.checked = c
    <3>1. step \in AllSteps /\ c \in BOOLEAN
      BY DEF Logged, AllSteps
    <3> HIDE DEF step, c
    <3>2. /\ NewJob(kind, step, u) \in Request /\ NewJob(kind, step, u).kind = kind
          /\ NewJob(kind, step, u).step = step /\ NewJob(kind, step, u).actor = u
      BY <3>1, NewJobTyped DEF JobKinds
    <3> QED
      BY <3>1, <3>2 DEF Request
  <2>3. \/ step = "deny"
        \/ step = "write" /\ ~(kind = "grant" /\ u = row[1]) /\ Holds(u, "manage")
    <3>1. blocked <=> (kind = "grant" /\ u = row[1])
      BY <2>1 DEF IsCriticalAdminPermission
    <3> HIDE DEF blocked
    <3> QED
      BY <3>1
  <2>4. /\ Spend(kind) /\ SameTables /\ old' = old /\ log' = log
        /\ job' = [job EXCEPT ![w] = j]
    BY <1>4 DEF StartMutation, tables, SameTables
  <2> HIDE DEF j, step, blocked
  <2>5. RequestOK(j)
    BY <2>2, <2>3 DEF RequestOK, JobKinds, StepsOf, Changes
  <2>6. Allowed(j, "manage")
    BY <2>2, <2>3, <2>4 DEF Allowed
  <2>7. Arrival(j)
    BY <2>2, <2>3, <2>6 DEF Arrival
  <2>8. Arrives(w, j)
    BY <2>2, <2>4, <2>5, <2>7 DEF Arrives, RequestKinds
  <2> QED
    BY <2>8
<1>5. ASSUME NEW u \in Users, NEW s \in Sessions, StartDryRun(w, u, s)
      PROVE  \E j : Arrives(w, j)
  <2> DEFINE step == IF Holds(u, "revoke session") THEN "record" ELSE "deny"
             c == Logged(RowsOf({u}, "revoke session"))
             j == [NewJob("dry", step, u) EXCEPT !.session = s, !.checked = c]
  <2>1. step = "deny" \/ (step = "record" /\ Holds(u, "revoke session"))
    OBVIOUS
  <2>2. /\ j \in Request /\ j.kind = "dry" /\ j.step = step /\ j.session = s /\ j.actor = u
        /\ j.checked = c
    <3>1. step \in AllSteps /\ c \in BOOLEAN
      BY DEF Logged, AllSteps
    <3> HIDE DEF step, c
    <3>2. /\ NewJob("dry", step, u) \in Request /\ NewJob("dry", step, u).kind = "dry"
          /\ NewJob("dry", step, u).step = step /\ NewJob("dry", step, u).actor = u
      BY <3>1, NewJobTyped DEF JobKinds
    <3> QED
      BY <3>1, <3>2 DEF Request
  <2>3. /\ Spend("dry") /\ SameTables /\ old' = old /\ log' = log
        /\ job' = [job EXCEPT ![w] = j]
    BY <1>5 DEF StartDryRun, tables, SameTables
  <2> HIDE DEF j, step
  <2>4. RequestOK(j)
    BY <2>1, <2>2 DEF RequestOK, JobKinds, StepsOf, Changes
  <2>5. Allowed(j, "revoke session")
    BY <2>1, <2>2, <2>3 DEF Allowed
  <2>6. Arrival(j)
    BY <2>1, <2>2, <2>5 DEF Arrival
  <2>7. Arrives(w, j)
    BY <2>2, <2>3, <2>4, <2>6 DEF Arrives, RequestKinds
  <2> QED
    BY <2>7
<1>6. ASSUME NEW u \in Users, NEW s \in Sessions, StartLegacyRevoke(w, u, s)
      PROVE  \E j : Arrives(w, j)
  <2> DEFINE j == [NewJob("legacy", "effect", u) EXCEPT !.session = s]
  <2>1. j \in Request /\ j.kind = "legacy" /\ j.step = "effect" /\ j.session = s /\ j.actor = u
    <3>1. /\ NewJob("legacy", "effect", u) \in Request /\ NewJob("legacy", "effect", u).kind = "legacy"
          /\ NewJob("legacy", "effect", u).step = "effect" /\ NewJob("legacy", "effect", u).actor = u
      BY NewJobTyped DEF JobKinds, AllSteps
    <3> QED
      BY <3>1, WithSession
  <2>2. log' = log \/ log' = Append(log, Entry("legacy requested", j))
    BY <1>6 DEF StartLegacyRevoke
  <2>3. Spend("legacy") /\ SameTables /\ old' = old /\ job' = [job EXCEPT ![w] = j]
    BY <1>6 DEF StartLegacyRevoke, tables, SameTables
  <2> HIDE DEF j
  <2>4. RequestOK(j)
    BY <2>1 DEF RequestOK, JobKinds, StepsOf, Changes
  <2>5. Arrival(j)
    BY <2>1, <2>2 DEF Arrival
  <2>6. Arrives(w, j)
    BY <2>1, <2>3, <2>4, <2>5 DEF Arrives, RequestKinds
  <2> QED
    BY <2>6
<1>7. ASSUME NEW u \in Users, NEW k \in Keys, NEW s \in Sessions, NEW d \in 1..Len(log),
             StartExecution(w, u, k, s, d)
      PROVE  \E j : Arrives(w, j)
  <2> DEFINE step == IF Holds(u, "revoke session") THEN "evidence" ELSE "deny"
             c == Logged(RowsOf({u}, "revoke session"))
             j == [NewJob("execute", step, u) EXCEPT !.session = s, !.key = k, !.dryRun = d,
                    !.checked = c]
  <2>1. step = "deny" \/ (step = "evidence" /\ Holds(u, "revoke session"))
    OBVIOUS
  <2>2. /\ j \in Request /\ j.kind = "execute" /\ j.step = step /\ j.session = s
        /\ j.actor = u /\ j.key = k /\ j.checked = c
    <3>1. step \in AllSteps /\ c \in BOOLEAN /\ d \in Nat
      BY DEF Logged, AllSteps
    <3> HIDE DEF step, c
    <3>2. /\ NewJob("execute", step, u) \in Request /\ NewJob("execute", step, u).kind = "execute"
          /\ NewJob("execute", step, u).step = step /\ NewJob("execute", step, u).actor = u
      BY <3>1, NewJobTyped DEF JobKinds
    <3> QED
      BY <3>1, <3>2 DEF Request
  <2>3. /\ Spend("execute") /\ SameTables /\ old' = old /\ log' = log
        /\ job' = [job EXCEPT ![w] = j]
    BY <1>7 DEF StartExecution, tables, SameTables
  <2> HIDE DEF j, step
  <2>4. RequestOK(j)
    BY <2>1, <2>2 DEF RequestOK, JobKinds, StepsOf, Changes
  <2>5. Allowed(j, "revoke session")
    BY <2>1, <2>2, <2>3 DEF Allowed
  <2>6. Arrival(j)
    BY <2>1, <2>2, <2>5 DEF Arrival
  <2>7. Arrives(w, j)
    BY <2>2, <2>3, <2>4, <2>6 DEF Arrives, RequestKinds
  <2> QED
    BY <2>7
<1>8. ASSUME NEW u \in Users, NEW slug \in Slugs, StartRegister(w, u, slug)
      PROVE  \E j : Arrives(w, j)
  BY <1>2, <1>8 DEF StartRegister, SameTables, tables
<1>9. ASSUME NEW u \in Users, NEW slug \in Slugs, StartRegisterInitial(w, u, slug)
      PROVE  \E j : Arrives(w, j)
  BY <1>2, <1>9 DEF StartRegisterInitial, SameTables, tables
<1> QED
  BY <1>1, <1>3, <1>4, <1>5, <1>6, <1>7, <1>8, <1>9

LEMMA StartTyped == ASSUME Typed, NEW w \in Workers, NEW j, Arrives(w, j) PROVE Typed'
<1>1. JobsTyped'
  BY JobTyped DEF JobsTyped, Arrives
<1>2. budget' \in [RequestKinds -> Nat]
  BY SpendTyped DEF Typed, Arrives
<1>3. LogGrows(j, Whats) /\ j \in Request /\ old' = old
  BY ArrivalLog DEF LogGrows, Arrives
<1> QED
  BY <1>1, <1>2, <1>3, TypedStep, SameTyped DEF Arrives

(* A request goes on to another of its steps, and may write a row of the   *)
(* log.                                                                    *)
LEMMA GoOnTyped ==
    ASSUME Typed, NEW w \in Workers, job[w] # Nothing, NEW step \in StepsOf(job[w].kind),
           step \in AllSteps, step # "deny" => job[w].step # "deny", Goes(w, step),
           TablesTyped', budget' = budget, old' = old, LogGrows(job[w], Whats)
    PROVE  Typed'
<1>1. JobsTyped' /\ job[w] \in Request
  BY GoesTyped DEF JobsTyped, Typed
<1>2. budget' \in [RequestKinds -> Nat]
  BY DEF Typed, TypeOK
<1> QED
  BY <1>1, <1>2, TypedStep

LEMMA EndTyped ==
    ASSUME Typed, NEW w \in Workers, job[w] # Nothing, Ends(w),
           TablesTyped', budget' = budget, old' = old, LogGrows(job[w], Whats)
    PROVE  Typed'
<1>1. JobsTyped' /\ job[w] \in Request
  BY EndsTyped DEF JobsTyped, Typed
<1>2. budget' \in [RequestKinds -> Nat]
  BY DEF Typed, TypeOK
<1> QED
  BY <1>1, <1>2, TypedStep

LEMMA AuditGrows == ASSUME NEW w, NEW what \in Whats, Audit(what, w) PROVE LogGrows(job[w], Whats)
BY DEF Audit, LogGrows

LEMMA SameLog == ASSUME NEW j, log' = log PROVE LogGrows(j, Whats)
BY DEF LogGrows

(* Steps of a support action, and the denial of any request.               *)
PlainStep(w) ==
    \/ Deny(w) \/ RecordDryRun(w) \/ FindEvidence(w) \/ RecordRequest(w) \/ RecordSuccess(w)
    \/ Fail(w) \/ RecordLegacyRevokeAudit(w) \/ Die(w)

LEMMA PlainIsSame == ASSUME NEW w, PlainStep(w) PROVE SameTables /\ old' = old /\ budget' = budget
BY DEF PlainStep, Deny, RecordDryRun, FindEvidence, RecordRequest, RecordSuccess, Fail,
       RecordLegacyRevokeAudit, Die, SameTables, tables

LEMMA PlainTyped == ASSUME Typed, NEW w \in Workers, PlainStep(w) PROVE Typed'
<1>1. SameTables /\ TablesTyped' /\ old' = old /\ budget' = budget
  BY PlainIsSame, SameTyped
<1>2. ASSUME Ends(w), job[w] # Nothing, LogGrows(job[w], Whats) PROVE Typed'
  BY <1>1, <1>2, EndTyped
<1>3. ASSUME job[w] # Nothing, job[w].kind = "execute", job[w].step # "deny", LogGrows(job[w], Whats),
             NEW step \in {"receipt", "finish", "failed", "request", "deny"}, Goes(w, step)
      PROVE  Typed'
  BY <1>1, <1>3, GoOnTyped DEF StepsOf, AllSteps
<1>4. CASE Deny(w)
  BY <1>2, <1>4, AuditGrows DEF Deny, At, Whats
<1>5. CASE RecordDryRun(w)
  BY <1>2, <1>5, AuditGrows DEF RecordDryRun, At, Whats
<1>6. CASE RecordLegacyRevokeAudit(w)
  <2>1. LogGrows(job[w], Whats)
    BY <1>6 DEF RecordLegacyRevokeAudit, LogGrows, Whats
  <2> QED
    BY <1>2, <1>6, <2>1 DEF RecordLegacyRevokeAudit, At
<1>7. CASE Die(w)
  BY <1>2, <1>7, SameLog DEF Die, Idle
<1>8. CASE FindEvidence(w)
  <2>1. job[w] # Nothing /\ job[w].kind = "execute" /\ job[w].step = "evidence" /\ log' = log
        /\ (Ends(w) \/ Goes(w, "request") \/ Goes(w, "deny"))
    BY <1>8 DEF FindEvidence, At
  <2> QED
    BY <1>2, <1>3, <2>1, SameLog
<1>9. CASE RecordRequest(w)
  BY <1>3, <1>9, AuditGrows DEF RecordRequest, At, Whats
<1>10. CASE RecordSuccess(w)
  BY <1>3, <1>10, AuditGrows DEF RecordSuccess, At, Whats
<1>11. CASE Fail(w)
  BY <1>3, <1>11, AuditGrows DEF Fail, At, Whats
<1> QED
  BY <1>4, <1>5, <1>6, <1>7, <1>8, <1>9, <1>10, <1>11 DEF PlainStep

LEMMA CreateReceiptTyped == ASSUME Typed, NEW w \in Workers, CreateReceipt(w) PROVE Typed'
<1> DEFINE j == job[w]
           r == [status |-> "PENDING", actor |-> j.actor, session |-> j.session, dryRun |-> j.dryRun]
<1>1. /\ j \in Request /\ j # Nothing /\ j.kind = "execute" /\ j.step = "receipt" /\ RequestOK(j)
      /\ j.actor \in Users /\ j.session \in Sessions /\ j.key \in Keys /\ j.dryRun \in Nat
  BY DEF CreateReceipt, At, Typed, RequestOK, Request
<1>2. r \in Receipts
  BY <1>1 DEF Receipts
<1>3. /\ old' = old /\ budget' = budget /\ log' = log
      /\ UNCHANGED <<user, company, permission, session, first, unlogged>>
      /\ receipt' = receipt \/ receipt' = [receipt EXCEPT ![j.key] = r]
      /\ Ends(w) \/ Goes(w, "effect")
  BY DEF CreateReceipt
<1> HIDE DEF r
<1>4. TablesTyped'
  BY <1>1, <1>2, <1>3, TablesAre DEF TablesTyped
<1> QED
  BY <1>1, <1>3, <1>4, SameLog, EndTyped, GoOnTyped DEF StepsOf, AllSteps

LEMMA FinishTyped ==
    ASSUME Typed, NEW w \in Workers, NEW step, NEW status \in {"SUCCEEDED", "FAILED"},
           FinishReceipt(w, step, status), receipt[job[w].key] \in Receipts
    PROVE  Typed'
<1>1. job[w] # Nothing /\ job[w].key \in Keys
  BY DEF FinishReceipt, At, Typed, RequestOK
<1>2. /\ old' = old /\ budget' = budget /\ log' = log
      /\ UNCHANGED <<user, company, permission, session, first, unlogged>>
      /\ receipt' = [receipt EXCEPT ![job[w].key].status = status]
      /\ Ends(w)
  BY DEF FinishReceipt
<1>3. receipt[job[w].key] \in Receipts => [receipt[job[w].key] EXCEPT !.status = status] \in Receipts
  BY DEF Receipts
<1>4. TablesTyped'
  BY <1>1, <1>2, <1>3, TablesAre DEF TablesTyped
<1> QED
  BY <1>1, <1>2, <1>4, SameLog, EndTyped

LEMMA RevokeTyped ==
    ASSUME Typed, NEW w \in Workers, RevokeCompanySession(w) \/ RevokeLegacyAdminSession(w)
    PROVE  Typed'
<1>1. job[w] # Nothing /\ job[w].session \in Sessions
  BY DEF RevokeCompanySession, RevokeLegacyAdminSession, At, Typed, RequestOK
<1>2. /\ old' = old /\ budget' = budget /\ log' = log
      /\ UNCHANGED <<user, company, permission, receipt, first, unlogged>>
      /\ session' = session \/ session' = [session EXCEPT ![job[w].session] = "revoked"]
  BY DEF RevokeCompanySession, RevokeLegacyAdminSession
<1>3. TablesTyped'
  BY <1>1, <1>2, TablesAre DEF TablesTyped
<1>4. CASE RevokeCompanySession(w)
  <2>1. Goes(w, "succeed") /\ job[w].kind = "execute" /\ job[w].step = "effect"
    BY <1>4 DEF RevokeCompanySession, At
  <2> QED
    BY <1>1, <1>2, <1>3, <2>1, SameLog, GoOnTyped DEF StepsOf, AllSteps
<1>5. CASE RevokeLegacyAdminSession(w)
  <2>1. Goes(w, "told") /\ job[w].kind = "legacy" /\ job[w].step = "effect"
    BY <1>5 DEF RevokeLegacyAdminSession, At
  <2> QED
    BY <1>1, <1>2, <1>3, <2>1, SameLog, GoOnTyped DEF StepsOf, AllSteps
<1> QED
  BY <1>4, <1>5

(* A registration that commits takes from the first registrations under    *)
(* way that they are alone.                                                *)
LEMMA CreatedJobs ==
    ASSUME Typed, NEW w \in Workers, CreateOwnerAccount(w)
    PROVE  /\ JobsTyped' /\ job'[w] = Nothing
           /\ \A v \in Workers : job'[v] # Nothing => job[v] # Nothing /\ v # w
           /\ \A v \in Workers : job'[v] # Nothing =>
                 /\ Alike(job[v], job'[v]) /\ job'[v].alone = job[v].alone
                 /\ job'[v].checked => job[v].checked
                 /\ job[v].kind # "initial" => job'[v] = job[v]
                 /\ job[v].kind = "initial" /\ first' # first => ~job'[v].checked
<1> DEFINE taken == user[job[w].actor] # "none" \/ company[job[w].slug] # Nothing
           Off(v) == [job[v] EXCEPT !.checked = FALSE]
<1>1. At(w, {"register", "initial"}, "create")
  BY DEF CreateOwnerAccount
<1>2. job \in [Workers -> Request \cup {Nothing}]
  BY DEF Typed
<1>3. ASSUME NEW v \in Workers, job[v] # Nothing
      PROVE  /\ Off(v) \in Request /\ Alike(job[v], Off(v)) /\ ~Off(v).checked
             /\ Off(v).alone = job[v].alone /\ RequestOK(Off(v))
  <2>1. /\ Off(v) \in Request /\ ~Off(v).checked /\ Off(v).alone = job[v].alone
        /\ Alike(job[v], Off(v))
    BY <1>2, <1>3 DEF Request, Alike
  <2>2. RequestOK(job[v])
    BY <1>3 DEF Typed
  <2> HIDE DEF Off
  <2> QED
    BY <2>1, <2>2, AlikeOK
<1>4. \A v \in Workers : job[v] # Nothing => job[v] \in Request /\ Alike(job[v], job[v]) /\ RequestOK(job[v])
  BY <1>2 DEF Alike, Typed
<1>5. ASSUME taken PROVE first' = first /\ Ends(w)
  BY <1>5 DEF CreateOwnerAccount
<1>6. ASSUME ~taken
      PROVE  job' = [v \in Workers |-> IF v = w THEN Nothing
                       ELSE IF At(v, {"initial"}, "create") THEN Off(v) ELSE job[v]]
  BY <1>6 DEF CreateOwnerAccount
<1> HIDE DEF taken, Off
<1>7. CASE taken
  <2>1. job'[w] = Nothing /\ \A v \in Workers \ {w} : job'[v] = job[v]
    BY <1>5, <1>7, EndsTyped
  <2>2. JobsTyped'
    BY <1>5, <1>7, EndsTyped DEF JobsTyped
  <2> QED
    BY <1>4, <1>5, <1>7, <2>1, <2>2
<1>8. CASE ~taken
  <2>1. \A v \in Workers : job'[v] = IF v = w THEN Nothing
                       ELSE IF At(v, {"initial"}, "create") THEN Off(v) ELSE job[v]
    BY <1>6, <1>8
  <2>2. \A v \in Workers : job[v] # Nothing => (At(v, {"initial"}, "create") <=> job[v].kind = "initial")
    BY <1>4 DEF At, RequestOK, StepsOf
  <2>3. \A v \in Workers : At(v, {"initial"}, "create") => job[v] # Nothing
    BY DEF At
  <2>4. \A v \in Workers : job'[v] \in Request \cup {Nothing} /\ (job'[v] # Nothing => RequestOK(job'[v]))
    BY <1>3, <1>4, <2>1, <2>3, <1>2
  <2>5. JobsTyped'
    BY <1>6, <1>8, <2>4 DEF JobsTyped
  <2>6. \A v \in Workers : job'[v] # Nothing => job[v] # Nothing /\ v # w
    BY <2>1, <2>3
  <2> QED
    BY <1>3, <1>4, <2>1, <2>2, <2>3, <2>5, <2>6 DEF At
<1> QED
  BY <1>7, <1>8

LEMMA CreateTyped == ASSUME Typed, NEW w \in Workers, CreateOwnerAccount(w) PROVE Typed'
<1> DEFINE j == job[w]
<1>1. /\ j \in Request /\ j # Nothing /\ j.actor \in Users /\ j.slug \in Slugs
  BY DEF CreateOwnerAccount, At, Typed, RequestOK
<1>2. /\ old' = old /\ budget' = budget /\ log' = log
      /\ UNCHANGED <<permission, session, receipt, unlogged>>
      /\ \/ UNCHANGED <<user, company, first>>
         \/ /\ user' = [user EXCEPT ![j.actor] = IF j.kind = "initial" THEN "admin" ELSE "user"]
            /\ company' = [company EXCEPT ![j.slug] = j.actor]
            /\ first' = IF j.kind = "initial" /\ j.checked THEN first \cup {j.actor} ELSE first
  BY DEF CreateOwnerAccount
<1>3. TablesTyped'
  BY <1>1, <1>2, TablesAre DEF TablesTyped
<1>4. budget' \in [RequestKinds -> Nat] /\ LogGrows(j, Whats)
  BY <1>2, SameLog DEF Typed, TypeOK
<1> QED
  BY <1>1, <1>2, <1>3, <1>4, CreatedJobs, TypedStep

LEMMA AppointTyped == ASSUME Typed, NEW u \in Users, AppointAdmin(u) PROVE Typed'
<1>1. user' \in [Users -> {"none", "user", "admin"}] /\ log' = log /\ old' = old
      /\ UNCHANGED <<company, permission, session, receipt, job, first, unlogged>>
  BY DEF AppointAdmin, Typed, TypeOK
<1>2. budget' \in [RequestKinds -> Nat]
  BY SpendTyped DEF AppointAdmin, Typed, RequestKinds
<1>3. TypeOK'
  BY <1>1, <1>2 DEF Typed, TypeOK
<1> QED
  BY <1>1, <1>3 DEF Typed

LEMMA AgeTyped == ASSUME Typed, Age PROVE Typed'
<1>1. Len(log) \in Nat /\ old' = Len(log) /\ UNCHANGED <<tables, log, job, first, unlogged>>
  BY DEF Age, Typed
<1>2. budget' \in [RequestKinds -> Nat]
  BY SpendTyped DEF Age, Typed, RequestKinds
<1>3. TypeOK'
  BY <1>1, <1>2 DEF Typed, TypeOK, tables
<1> QED
  BY <1>1, <1>3 DEF Typed

(* The same request at another step.                                       *)
Moved(i, j, step) ==
    /\ j \in Request /\ j.step = step
    /\ j.kind = i.kind /\ j.actor = i.actor /\ j.row = i.row /\ j.slug = i.slug
    /\ j.session = i.session /\ j.key = i.key /\ j.dryRun = i.dryRun

LEMMA FindJobs ==
    ASSUME Typed, NEW w \in Workers, FindManagers(w)
    PROVE  LET j == job'[w]
           IN /\ JobsTyped' /\ \A v \in Workers \ {w} : job'[v] = job[v]
              /\ job[w] # Nothing /\ job[w].kind = "bootstrap"
              /\ j.kind = "bootstrap" /\ j.row = job[w].row
              /\ \/ j.step = "deny"
                 \/ j.step = "write" /\ \A row \in RowsOf(Users, "manage") : permission[row] # "active"
              /\ j.checked = Logged(RowsOf(Users, "manage"))
<1> DEFINE managers == {row \in RowsOf(Users, "manage") : permission[row] = "active"}
           step == IF managers = {} THEN "write" ELSE "deny"
           c == Logged(RowsOf(Users, "manage"))
           i == job[w]
           j == [i EXCEPT !.step = step, !.checked = c]
<1>1. i \in Request /\ i # Nothing /\ i.kind = "bootstrap" /\ RequestOK(i)
  BY DEF FindManagers, At, Typed
<1>2. job' = [job EXCEPT ![w] = j]
  BY DEF FindManagers
<1>3. c \in BOOLEAN /\ step \in AllSteps /\ step \in StepsOf("bootstrap")
      /\ \/ step = "deny"
         \/ step = "write" /\ \A row \in RowsOf(Users, "manage") : permission[row] # "active"
  BY DEF Logged, AllSteps, StepsOf
<1> HIDE DEF managers, step, c, i
<1>4. Moved(i, j, step) /\ j.checked = c
  BY <1>1, <1>3 DEF Request, Moved
<1> HIDE DEF j
<1>5. RequestOK(j) /\ j \in Request
  BY <1>1, <1>3, <1>4 DEF RequestOK, Moved, Changes
<1>6. JobsTyped' /\ job'[w] = j /\ \A v \in Workers \ {w} : job'[v] = job[v]
  BY <1>2, <1>5, JobTyped DEF JobsTyped
<1> QED
  BY <1>1, <1>3, <1>4, <1>6 DEF Moved, c, i

LEMMA FindTyped == ASSUME Typed, NEW w \in Workers, FindManagers(w) PROVE Typed'
<1>1. SameTables /\ old' = old /\ budget' = budget /\ log' = log
  BY DEF FindManagers, SameTables, tables
<1>2. JobsTyped' /\ job[w] \in Request /\ budget' \in [RequestKinds -> Nat]
  BY <1>1, FindJobs DEF Typed, TypeOK
<1> QED
  BY <1>1, <1>2, SameTyped, SameLog, TypedStep

LEMMA WrittenJobs ==
    ASSUME Typed, NEW w \in Workers, WritePermission(w)
    PROVE  /\ JobsTyped' /\ job[w] \in Request /\ RequestOK(job[w])
           /\ job[w] # Nothing /\ job[w].kind \in Changes /\ job[w].step = "write"
           /\ Moved(job[w], job'[w], "audit") /\ job'[w].alone /\ job'[w].checked = job[w].checked
           /\ \A v \in Workers \ {w} : job'[v] = Disturbed(w, job[w].row)[v]
<1> DEFINE i == job[w]
           d == Disturbed(w, i.row)
           j == [i EXCEPT !.step = "audit", !.alone = TRUE]
<1>1. i \in Request /\ i # Nothing /\ i.kind \in Changes /\ i.step = "write" /\ RequestOK(i)
  BY DEF WritePermission, At, Typed, Changes
<1>2. d \in [Workers -> Request \cup {Nothing}] /\ d[w] = i
  BY DisturbedTyped
<1>3. job' = [d EXCEPT ![w].step = "audit", ![w].alone = TRUE]
  BY DEF WritePermission
<1>4. \A v \in Workers \ {w} : d[v] = job[v] \/ Alike(job[v], d[v])
  BY DisturbedTyped
<1> HIDE DEF d, i
<1>5. job' = [d EXCEPT ![w] = j]
  BY <1>2, <1>3
<1>6. Moved(i, j, "audit") /\ j.alone /\ j.checked = i.checked
  BY <1>1 DEF Request, Moved, AllSteps
<1> HIDE DEF j
<1>7. RequestOK(j) /\ j \in Request
  BY <1>1, <1>6 DEF RequestOK, Moved, Changes, StepsOf
<1>8. \A v \in Workers \ {w} : d[v] # Nothing => RequestOK(d[v])
  <2> TAKE v \in Workers \ {w}
  <2>1. job[v] # Nothing => RequestOK(job[v])
    BY DEF Typed
  <2>2. job[v] = Nothing => d[v] = Nothing
    BY DisturbedTyped DEF d
  <2>3. job[v] # Nothing => Alike(job[v], d[v])
    BY DisturbedTyped DEF d
  <2> QED
    BY <2>1, <2>2, <2>3, AlikeOK
<1>9. job' \in [Workers -> Request \cup {Nothing}] /\ job'[w] = j /\ \A v \in Workers \ {w} : job'[v] = d[v]
  BY <1>2, <1>5, <1>7
<1> QED
  BY <1>1, <1>6, <1>7, <1>8, <1>9 DEF JobsTyped, i, d

LEMMA WriteTyped == ASSUME Typed, NEW w \in Workers, WritePermission(w) PROVE Typed'
<1>1. JobsTyped' /\ job[w] \in Request /\ job[w].row \in Rows
  BY WrittenJobs DEF RequestOK
<1>2. /\ UNCHANGED <<user, company, session, receipt, log, old, budget, first>>
      /\ unlogged' = unlogged \cup {job[w].row}
      /\ permission' = [permission EXCEPT ![job[w].row] =
            IF job[w].kind # "revoke" THEN "active" ELSE IF @ = "active" THEN "inactive" ELSE @]
  BY DEF WritePermission
<1>3. permission' \in [Rows -> {"none", "active", "inactive"}]
  BY <1>1, <1>2 DEF Typed, TypeOK
<1>4. TablesTyped'
  BY <1>1, <1>2, <1>3, TablesAre DEF TablesTyped
<1>5. budget' \in [RequestKinds -> Nat] /\ LogGrows(job[w], Whats)
  BY <1>2, SameLog DEF Typed, TypeOK
<1> QED
  BY <1>1, <1>2, <1>4, <1>5, TypedStep

LEMMA AuditedJobs ==
    ASSUME Typed, NEW w \in Workers, AuditMutation(w)
    PROVE  /\ JobsTyped' /\ job[w] \in Request /\ RequestOK(job[w])
           /\ job[w] # Nothing /\ job[w].kind \in Changes /\ job[w].step = "audit"
           /\ job'[w] = Nothing
           /\ \A v \in Workers \ {w} :
                 job'[v] = IF job[w].alone THEN job[v] ELSE Disturbed(w, job[w].row)[v]
<1> DEFINE i == job[w]
           d == Disturbed(w, i.row)
           e == IF i.alone THEN job ELSE d
<1>1. i \in Request /\ i # Nothing /\ i.kind \in Changes /\ i.step = "audit" /\ RequestOK(i)
  BY DEF AuditMutation, At, Typed, Changes
<1>2. d \in [Workers -> Request \cup {Nothing}] /\ e \in [Workers -> Request \cup {Nothing}]
  BY DisturbedTyped DEF Typed
<1>3. job' = [e EXCEPT ![w] = Nothing]
  BY DEF AuditMutation
<1>4. \A v \in Workers \ {w} : e[v] # Nothing => RequestOK(e[v])
  <2> TAKE v \in Workers \ {w}
  <2>1. job[v] # Nothing => RequestOK(job[v])
    BY DEF Typed
  <2>2. job[v] = Nothing => d[v] = Nothing
    BY DisturbedTyped
  <2>3. job[v] # Nothing => Alike(job[v], d[v])
    BY DisturbedTyped
  <2> HIDE DEF d
  <2>4. d[v] # Nothing => RequestOK(d[v])
    BY <2>1, <2>2, <2>3, AlikeOK
  <2> QED
    BY <2>1, <2>4
<1>5. \A v \in Workers : e[v] = IF i.alone THEN job[v] ELSE d[v]
  OBVIOUS
<1> HIDE DEF e, d
<1>6. job' \in [Workers -> Request \cup {Nothing}] /\ job'[w] = Nothing
      /\ \A v \in Workers \ {w} : job'[v] = e[v]
  BY <1>2, <1>3
<1> QED
  BY <1>1, <1>4, <1>5, <1>6 DEF JobsTyped, d

LEMMA AuditTyped == ASSUME Typed, NEW w \in Workers, AuditMutation(w) PROVE Typed'
<1>1. JobsTyped' /\ job[w] \in Request /\ job[w].row \in Rows /\ job[w].kind \in Changes
  BY AuditedJobs DEF RequestOK
<1>2. /\ UNCHANGED <<user, company, permission, session, receipt, old, budget, first>>
      /\ unlogged' = unlogged \ {job[w].row} \/ unlogged' = unlogged \cup {job[w].row}
      /\ Audit(job[w].kind, w)
  BY DEF AuditMutation, tables
<1>3. TablesTyped'
  BY <1>1, <1>2, TablesAre DEF TablesTyped
<1>4. budget' \in [RequestKinds -> Nat] /\ LogGrows(job[w], Whats)
  BY <1>1, <1>2, AuditGrows DEF Typed, TypeOK, Changes, Whats
<1> QED
  BY <1>1, <1>2, <1>3, <1>4, TypedStep

(***************************************************************************)
(* The inductive invariants.                                               *)
(***************************************************************************)
(* A request that will still write, or write down, what it was allowed to  *)
(* do: the log supports it, and no change of a permission that allowed it  *)
(* is under way but its own.                                               *)
Relying(j) ==
    \/ j.kind \in Changes /\ j.step \in {"write", "audit"}
    \/ j.kind = "dry" /\ j.step = "record"
    \/ j.kind = "execute" /\ j.step \in {"evidence", "request"}
ToldIn(rows) == \E row \in rows : Told(log, row)
Supported(j) == IF j.kind = "bootstrap" THEN ~ToldIn(Basis(j)) ELSE ToldIn(Basis(j))
Own(j, row) == j.step = "audit" /\ row = j.row
Relies(j) ==
    Relying(j) /\ j.checked =>
        /\ Supported(j)
        /\ \A row \in Basis(j) \cap unlogged : Own(j, row)

(* A change that nobody else made after it is what the permission says.    *)
Written(j) ==
    j.step = "audit" /\ j.alone =>
        /\ j.row \in unlogged
        /\ permission[j.row] = "active" <=> j.kind # "revoke"

(* Of two changes of one permission one at most counts as alone, and it     *)
(* took the other's basis away.                                            *)
Apart(i, j) ==
    i.step = "audit" /\ j.step = "audit" /\ i.row = j.row
        => ~(i.alone /\ (j.alone \/ (j.checked /\ i.row \in Basis(j))))

LogTells == \A row \in Rows \ unlogged : permission[row] = "active" <=> Told(log, row)
Explained(i) ==
    LET e == log[i] IN
    /\ e.checked /\ e.what \in {"grant", "revoke"} => ToldBefore(i, RowsOf({e.actor}, "manage"))
    /\ e.checked /\ e.what = "bootstrap" => ~ToldBefore(i, RowsOf(Users, "manage"))
    /\ e.checked /\ e.what \in {"dry", "requested"}
          => ToldBefore(i, RowsOf({e.actor}, "revoke session"))
    /\ e.what = "grant" => e.row[1] # e.actor
LogExplained == \A i \in DOMAIN log : Explained(i)

(* One user at most registered first, and while one may, nobody did.       *)
OneFirst ==
    /\ \A u, v \in first : u = v
    /\ \A u \in first : user[u] # "none"
    /\ \A w \in Workers : job[w] # Nothing /\ job[w].kind = "initial" /\ job[w].checked => first = {}

AuthorityInv ==
    /\ LogTells /\ LogExplained /\ OneFirst
    /\ \A w \in Workers : job[w] # Nothing => Relies(job[w]) /\ Written(job[w])
    /\ \A v, w \in Workers :
         v # w /\ job[v] # Nothing /\ job[w] # Nothing => Apart(job[v], job[w])

(* What an execution has behind it.                                        *)
TriedOut(r) ==
    /\ r.dryRun \in DOMAIN log
    /\ log[r.dryRun].what = "dry"
    /\ log[r.dryRun].actor = r.actor /\ log[r.dryRun].session = r.session
Is(i, what, k) == log[i].what = what /\ log[i].key = k
AskedFor(r, k, i) == i \in DOMAIN log /\ r.dryRun < i /\ Is(i, "requested", k) /\ log[i].actor = r.actor
Asked(r, k) == \E i \in DOMAIN log : AskedFor(r, k, i)
Done(r, k) ==
    /\ session[r.session] = "revoked"
    /\ \E i, n \in DOMAIN log : AskedFor(r, k, i) /\ i < n /\ Is(n, "succeeded", k)
NotDone(k) == \A i \in DOMAIN log : ~Is(i, "succeeded", k)
Unique(k) == \A i, n \in DOMAIN log : Is(i, "succeeded", k) /\ Is(n, "succeeded", k) => i = n

Open(j) == j.kind = "execute" /\ j.step \in {"effect", "succeed", "finish", "failed"}
Pending(j) == [status |-> "PENDING", actor |-> j.actor, session |-> j.session, dryRun |-> j.dryRun]
(* An execution: tried out before it is asked for, asked for before the    *)
(* receipt, and the only one that has the receipt of its key.              *)
Executes(j) ==
    j.kind = "execute" =>
        /\ j.step \notin {"evidence", "deny"} => TriedOut(j)
        /\ j.step \in {"receipt", "effect", "succeed", "finish", "failed"} => Asked(j, j.key)
        /\ Open(j) => receipt[j.key] = Pending(j)
        /\ j.step \in {"succeed", "finish"} => session[j.session] = "revoked"
        /\ j.step \in {"effect", "succeed"} => NotDone(j.key)
        /\ j.step = "finish" => Done(j, j.key)
(* A key: no success before its receipt, and one at most.                  *)
Evidenced(k) ==
    /\ receipt[k] = Nothing => NotDone(k)
    /\ receipt[k] # Nothing =>
         /\ TriedOut(receipt[k])
         /\ Asked(receipt[k], k)
         /\ receipt[k].status = "SUCCEEDED" => Done(receipt[k], k)
    /\ Unique(k)

ExecutionInv ==
    /\ \A k \in Keys : Evidenced(k)
    /\ \A w \in Workers : job[w] # Nothing => Executes(job[w])
    /\ \A v, w \in Workers :
         job[v] # Nothing /\ job[w] # Nothing /\ Open(job[v]) /\ Open(job[w])
            /\ job[v].key = job[w].key => v = w

(***************************************************************************)
(* What the log tells.                                                     *)
(***************************************************************************)
LEMMA ToldOf ==
    ASSUME NEW s \in Seq(LogEntry), NEW e \in LogEntry, NEW row
    PROVE  LET t == Append(s, e) IN
           /\ e.what \notin Changes \/ e.row # row => (Told(t, row) <=> Told(s, row))
           /\ e.what \in Changes /\ e.row = row => (Told(t, row) <=> e.what # "revoke")
<1> DEFINE t == Append(s, e)
           n == Len(s)
           Gives(f) == f.what \in {"grant", "bootstrap"} /\ f.row = row
           Takes(f) == f.what = "revoke" /\ f.row = row
<1>1. /\ n \in Nat /\ DOMAIN s = 1..n /\ Len(t) = n + 1 /\ DOMAIN t = 1..n + 1
      /\ t[n + 1] = e /\ \A i \in 1..n : t[i] = s[i]
  BY AppendProperties
<1>2. Told(s, row) <=> \E i \in 1..n : Gives(s[i]) /\ \A k \in i + 1 .. n : ~Takes(s[k])
  BY <1>1 DEF Told
<1>3. Told(t, row) <=> \E i \in 1..n + 1 : Gives(t[i]) /\ \A k \in i + 1 .. n + 1 : ~Takes(t[k])
  BY <1>1 DEF Told
<1>4. /\ e.what \notin Changes \/ e.row # row => ~Gives(e) /\ ~Takes(e)
      /\ e.what \in Changes /\ e.row = row => (Gives(e) <=> e.what # "revoke") /\ (Takes(e) <=> e.what = "revoke")
  BY DEF Changes
<1> HIDE DEF t, n, Gives, Takes
<1>5. ASSUME ~Gives(e), ~Takes(e) PROVE Told(t, row) <=> Told(s, row)
  <2>1. ASSUME Told(s, row) PROVE Told(t, row)
    <3>1. PICK i \in 1..n : Gives(s[i]) /\ \A k \in i + 1 .. n : ~Takes(s[k])
      BY <1>2, <2>1
    <3>2. \A k \in i + 1 .. n + 1 : k = n + 1 \/ (k \in i + 1 .. n /\ k \in 1..n)
      BY <1>1
    <3>3. \A k \in i + 1 .. n + 1 : ~Takes(t[k])
      BY <1>1, <1>5, <3>1, <3>2
    <3>4. i \in 1..n + 1 /\ Gives(t[i])
      BY <1>1, <3>1
    <3> QED
      BY <1>3, <3>3, <3>4
  <2>2. ASSUME Told(t, row) PROVE Told(s, row)
    <3>1. PICK i \in 1..n + 1 : Gives(t[i]) /\ \A k \in i + 1 .. n + 1 : ~Takes(t[k])
      BY <1>3, <2>2
    <3>2. i \in 1..n
      BY <1>1, <1>5, <3>1
    <3>3. \A k \in i + 1 .. n : k \in i + 1 .. n + 1 /\ k \in 1..n
      BY <1>1, <3>2
    <3>4. \A k \in i + 1 .. n : ~Takes(s[k])
      BY <1>1, <3>1, <3>3
    <3> QED
      BY <1>1, <1>2, <3>1, <3>2, <3>4
  <2> QED
    BY <2>1, <2>2
<1>6. ASSUME Gives(e) PROVE Told(t, row)
  <2>1. n + 1 \in 1..n + 1 /\ \A k \in (n + 1) + 1 .. n + 1 : FALSE
    BY <1>1
  <2> QED
    BY <1>1, <1>3, <1>6, <2>1
<1>7. ASSUME Takes(e), ~Gives(e) PROVE ~Told(t, row)
  <2>1. \A i \in 1..n : n + 1 \in i + 1 .. n + 1
    BY <1>1
  <2>2. \A i \in 1..n + 1 : i = n + 1 \/ i \in 1..n
    BY <1>1
  <2> QED
    BY <1>1, <1>3, <1>7, <2>1, <2>2
<1> QED
  BY <1>4, <1>5, <1>6, <1>7 DEF t

LEMMA BeforeOf ==
    ASSUME NEW s \in Seq(LogEntry), NEW e \in LogEntry
    PROVE  /\ \A i \in DOMAIN s : SubSeq(Append(s, e), 1, i - 1) = SubSeq(s, 1, i - 1)
           /\ SubSeq(Append(s, e), 1, Len(s)) = s
<1> DEFINE t == Append(s, e)
<1>1. /\ Len(s) \in Nat /\ DOMAIN s = 1..Len(s) /\ \A i \in 1..Len(s) : t[i] = s[i] /\ s[i] \in LogEntry
  BY AppendProperties, ElementOfSeq, LenProperties
<1> HIDE DEF t
<1>2. ASSUME NEW m \in 0..Len(s) PROVE SubSeq(t, 1, m) = SubSeq(s, 1, m)
  <2>1. \A k \in 1..m : k \in 1..Len(s)
    BY <1>1
  <2>2. \A k \in 1..m : t[k] = s[k] /\ s[k] \in LogEntry /\ t[k] \in LogEntry
    BY <1>1, <2>1
  <2>3. m \in Nat /\ m \in Int /\ 1 \in Int /\ m - 1 + 1 = m /\ \A k \in 1..m : 1 + k - 1 = k
    BY <1>1
  <2>4. /\ SubSeq(s, 1, m) \in Seq(LogEntry) /\ SubSeq(t, 1, m) \in Seq(LogEntry)
        /\ Len(SubSeq(s, 1, m)) = m /\ Len(SubSeq(t, 1, m)) = m
        /\ \A k \in 1..m : SubSeq(s, 1, m)[k] = s[k] /\ SubSeq(t, 1, m)[k] = t[k]
    BY <2>2, <2>3, SubSeqProperties
  <2> QED
    BY <2>2, <2>4, SeqEqual
<1>3. \A i \in DOMAIN s : i - 1 \in 0..Len(s)
  BY <1>1
<1>4. Len(s) \in 0..Len(s)
  BY <1>1
<1>5. SubSeq(s, 1, Len(s)) = s
  BY SubSeqFull
<1> QED
  BY <1>2, <1>3, <1>4, <1>5 DEF t

(* A row of the log that what came before it explains.                     *)
Justified(what, j) ==
    /\ j.checked /\ what \in {"grant", "revoke"} => ToldIn(RowsOf({j.actor}, "manage"))
    /\ j.checked /\ what = "bootstrap" => ~ToldIn(RowsOf(Users, "manage"))
    /\ j.checked /\ what \in {"dry", "requested"} => ToldIn(RowsOf({j.actor}, "revoke session"))
    /\ what = "grant" => j.row[1] # j.actor

LEMMA LogStaysExplained ==
    ASSUME log \in Seq(LogEntry), LogExplained, NEW j \in Request, NEW what \in Whats,
           log' = Append(log, Entry(what, j)), Justified(what, j)
    PROVE  LogExplained'
<1> DEFINE e == Entry(what, j)
<1> SUFFICES ASSUME NEW n \in Nat, n = Len(log) PROVE LogExplained'
  OBVIOUS
<1>1. /\ e \in LogEntry /\ e.what = what /\ e.actor = j.actor /\ e.row = j.row
      /\ e.checked = j.checked
  BY EntryTyped DEF Entry
<1>2. /\ log' = Append(log, e) /\ DOMAIN log = 1..n /\ DOMAIN log' = 1..n + 1
      /\ log'[n + 1] = e /\ \A i \in 1..n : log'[i] = log[i]
  BY <1>1, AppendProperties
<1> HIDE DEF e
<1>3. \A i \in 1..n : SubSeq(log', 1, i - 1) = SubSeq(log, 1, i - 1)
  BY <1>1, <1>2, BeforeOf
<1>4. SubSeq(log', 1, n) = log /\ (n + 1) - 1 = n
  BY <1>1, <1>2, BeforeOf
<1>5. ASSUME NEW i \in 1..n PROVE Explained(i)'
  BY <1>2, <1>3, <1>5 DEF Explained, LogExplained, ToldBefore
<1>6. Explained(n + 1)'
  <2>1. \A rows : (\E row \in rows : Told(SubSeq(log', 1, (n + 1) - 1), row)) <=> ToldIn(rows)
    BY <1>4 DEF ToldIn
  <2> QED
    BY <1>1, <1>2, <2>1 DEF Explained, ToldBefore, Justified
<1>7. \A i \in 1..n + 1 : i \in 1..n \/ i = n + 1
  BY <1>2
<1> QED
  BY <1>2, <1>5, <1>6, <1>7 DEF LogExplained


LEMMA ToldStays ==
    ASSUME log \in Seq(LogEntry), NEW j \in Request, LogGrows(j, Whats \ Changes)
    PROVE  \A row : Told(log', row) <=> Told(log, row)
<1>1. CASE log' = log
  BY <1>1
<1>2. ASSUME NEW what \in Whats \ Changes, log' = Append(log, Entry(what, j))
      PROVE  \A row : Told(log', row) <=> Told(log, row)
  <2>1. Entry(what, j) \in LogEntry /\ Entry(what, j).what = what
    BY EntryTyped DEF Entry
  <2> QED
    BY <1>2, <2>1, ToldOf
<1> QED
  BY <1>1, <1>2 DEF LogGrows

LEMMA ReliesKept ==
    ASSUME NEW i, \A row : Told(log', row) <=> Told(log, row), unlogged' = unlogged, Relies(i)
    PROVE  Relies(i)'
BY DEF Relies, Supported, ToldIn

(***************************************************************************)
(* A step that changes no permission keeps what is known of the others, if *)
(* the request that takes it may rely on what it relies on and the row it  *)
(* writes is explained.                                                    *)
(***************************************************************************)
Fits(j) ==
    /\ j.step # "audit" /\ Relies(j)
    /\ j.kind = "initial" /\ j.checked => first = {}
Tells(j) ==
    \/ log' = log
    \/ \E what \in Whats \ Changes : Justified(what, j) /\ log' = Append(log, Entry(what, j))

LEMMA AuthorityKept ==
    ASSUME Typed, AuthorityInv, NEW w \in Workers, NEW i, job'[w] = i, i # Nothing => Fits(i),
           \A v \in Workers \ {w} : job'[v] = job[v],
           UNCHANGED <<permission, unlogged, first>>,
           \A u \in Users : user[u] # "none" => user'[u] # "none",
           NEW j \in Request, Tells(j)
    PROVE  AuthorityInv'
<1>1. log \in Seq(LogEntry) /\ first \subseteq Users
  BY DEF Typed, TypeOK
<1>2. LogGrows(j, Whats \ Changes)
  BY DEF Tells, LogGrows
<1>3. \A row : Told(log', row) <=> Told(log, row)
  BY <1>1, <1>2, ToldStays
<1>4. LogTells'
  BY <1>3 DEF AuthorityInv, LogTells
<1>5. LogExplained'
  <2>1. CASE log' = log
    BY <2>1 DEF AuthorityInv, LogExplained, Explained, ToldBefore
  <2>2. ASSUME NEW what \in Whats, Justified(what, j), log' = Append(log, Entry(what, j))
        PROVE  LogExplained'
    BY <1>1, <2>2, LogStaysExplained DEF AuthorityInv
  <2> QED
    BY <2>1, <2>2 DEF Tells
<1>6. OneFirst'
  <2>1. /\ \A u, v \in first' : u = v
        /\ \A u \in first' : user'[u] # "none"
    BY <1>1 DEF AuthorityInv, OneFirst
  <2>2. ASSUME NEW v \in Workers, job'[v] # Nothing, job'[v].kind = "initial", job'[v].checked
        PROVE  first' = {}
    BY <2>2 DEF AuthorityInv, OneFirst, Fits
  <2> QED
    BY <2>1, <2>2 DEF OneFirst
<1>7. ASSUME NEW v \in Workers, job'[v] # Nothing PROVE Relies(job[v])' /\ Written(job[v])'
  <2>1. CASE v = w
    <3>1. Relies(i)' /\ i.step # "audit"
      BY <1>3, <1>7, <2>1, ReliesKept DEF Fits
    <3> QED
      BY <2>1, <3>1 DEF Relies, Supported, Written
  <2>2. CASE v # w
    <3> SUFFICES ASSUME NEW k, k = job[v] PROVE Relies(job[v])' /\ Written(job[v])'
      OBVIOUS
    <3>1. job'[v] = k /\ k # Nothing /\ Relies(k) /\ Written(k)
      BY <1>7, <2>2 DEF AuthorityInv
    <3>2. Relies(k)' /\ Written(k)'
      BY <1>3, <3>1, ReliesKept DEF Written
    <3> QED
      BY <3>1, <3>2 DEF Relies, Supported, Written
  <2> QED
    BY <2>1, <2>2
<1>8. ASSUME NEW v \in Workers, NEW x \in Workers, v # x, job'[v] # Nothing, job'[x] # Nothing
      PROVE  Apart(job'[v], job'[x])
  <2>1. CASE v = w \/ x = w
    BY <1>8, <2>1 DEF Apart, Fits
  <2>2. CASE v # w /\ x # w
    BY <1>8, <2>2 DEF AuthorityInv
  <2> QED
    BY <2>1, <2>2
<1> QED
  BY <1>4, <1>5, <1>6, <1>7, <1>8 DEF AuthorityInv


LEMMA HoldsIsTold ==
    ASSUME LogTells, permission \in [Rows -> {"none", "active", "inactive"}],
           NEW u \in Users, NEW p \in Permissions, Holds(u, p), Logged(RowsOf({u}, p))
    PROVE  ToldIn(RowsOf({u}, p))
<1>1. PICK row \in RowsOf({u}, p) : permission[row] = "active"
  BY DEF Holds
<1>2. row \in Rows /\ row \notin unlogged
  BY DEF RowsOf, Rows, Logged
<1> QED
  BY <1>1, <1>2 DEF LogTells, ToldIn

LEMMA StartAuthority ==
    ASSUME Typed, AuthorityInv, NEW w \in Workers, NEW j, Arrives(w, j) PROVE AuthorityInv'
<1>1. j \in Request /\ RequestOK(j) /\ SameTables /\ Arrival(j)
      /\ job'[w] = j /\ \A v \in Workers \ {w} : job'[v] = job[v]
  BY JobTyped DEF Arrives
<1>2. ASSUME NEW p \in Permissions, Allowed(j, p), j.actor \in Users, j.step # "deny",
             Basis(j) = RowsOf({j.actor}, p), j.kind # "bootstrap"
      PROVE  Relies(j)
  <2>1. j.checked => ToldIn(Basis(j)) /\ Basis(j) \cap unlogged = {}
    BY <1>2, HoldsIsTold DEF Allowed, Logged, AuthorityInv, Typed, TypeOK
  <2> QED
    BY <1>2, <2>1 DEF Relies, Supported
<1>3. j.kind # "bootstrap" => j.actor \in Users
  BY <1>1 DEF RequestOK
<1>4. j.step # "audit" /\ Relies(j)
  <2>1. CASE ~Relying(j)
    BY <1>1, <2>1 DEF Relies, Arrival
  <2>2. CASE Relying(j)
    <3>1. \/ j.kind \in {"grant", "revoke"} /\ j.step = "write" /\ Allowed(j, "manage")
          \/ j.kind \in {"dry", "execute"} /\ j.step \in {"record", "evidence"} /\ Allowed(j, "revoke session")
      BY <1>1, <2>2 DEF Arrival, Relying, Changes
    <3> QED
      BY <1>2, <1>3, <3>1 DEF Basis, Permissions
  <2> QED
    BY <2>1, <2>2
<1>5. j.kind = "initial" /\ j.checked => first = {}
  BY <1>1 DEF Arrival, AuthorityInv, OneFirst, Typed, TypeOK
<1>6. Tells(j)
  BY <1>1 DEF Arrival, Allowed, Tells, Justified, Whats, Changes
<1>7. UNCHANGED <<permission, unlogged, first, user>>
  BY <1>1 DEF SameTables
<1> QED
  BY <1>1, <1>4, <1>5, <1>6, <1>7, AuthorityKept DEF Fits


LEMMA GoesJobs ==
    ASSUME Typed, NEW w \in Workers, job[w] # Nothing, NEW step \in AllSteps, Goes(w, step)
    PROVE  /\ Moved(job[w], job'[w], step) /\ job'[w].checked = job[w].checked
           /\ \A v \in Workers \ {w} : job'[v] = job[v]
<1> DEFINE i == job[w]
           j == [i EXCEPT !.step = step]
<1>1. i \in Request /\ job \in [Workers -> Request \cup {Nothing}]
  BY DEF Typed
<1>2. job' = [job EXCEPT ![w] = j]
  BY DEF Goes
<1> HIDE DEF i
<1>3. Moved(i, j, step) /\ j.checked = i.checked
  BY <1>1 DEF Request, Moved
<1> HIDE DEF j
<1> QED
  BY <1>1, <1>2, <1>3 DEF i

LEMMA EndAuthority ==
    ASSUME Typed, AuthorityInv, NEW w \in Workers, job[w] # Nothing, Ends(w), Tells(job[w]),
           UNCHANGED <<permission, unlogged, first, user>>
    PROVE  AuthorityInv'
<1>1. job'[w] = Nothing /\ (\A v \in Workers \ {w} : job'[v] = job[v]) /\ job[w] \in Request
  BY EndsTyped DEF Typed
<1> QED
  BY <1>1, AuthorityKept

LEMMA GoOnAuthority ==
    ASSUME Typed, AuthorityInv, NEW w \in Workers, job[w] # Nothing, Tells(job[w]),
           job[w].kind \in {"execute", "legacy"}, NEW step \in AllSteps \ {"audit"}, Goes(w, step),
           step \in {"evidence", "request"} => job[w].step = "evidence",
           UNCHANGED <<permission, unlogged, first, user>>
    PROVE  AuthorityInv'
<1>1. /\ Moved(job[w], job'[w], step) /\ job'[w].checked = job[w].checked
      /\ \A v \in Workers \ {w} : job'[v] = job[v]
      /\ job[w] \in Request
  BY GoesJobs DEF Typed
<1> SUFFICES ASSUME NEW i, i = job'[w] PROVE AuthorityInv'
  OBVIOUS
<1>2. Relies(i)
  <2>1. CASE job[w].kind = "execute" /\ step \in {"evidence", "request"}
    <3>1. Basis(i) = Basis(job[w]) /\ i.checked = job[w].checked
      BY <1>1, <2>1 DEF Basis, Moved
    <3>2. Relying(job[w]) /\ job[w].step = "evidence"
      BY <2>1 DEF Relying
    <3>3. Relies(job[w])
      BY DEF AuthorityInv
    <3>4. i.kind = "execute" /\ job[w].kind = "execute"
      BY <1>1, <2>1 DEF Moved
    <3> QED
      BY <3>1, <3>2, <3>3, <3>4 DEF Relies, Supported, Own
  <2>2. CASE ~(job[w].kind = "execute" /\ step \in {"evidence", "request"})
    BY <1>1, <2>2 DEF Relies, Relying, Moved, Changes
  <2> QED
    BY <2>1, <2>2
<1>3. i.step # "audit" /\ i.kind # "initial"
  BY <1>1 DEF Moved
<1> QED
  BY <1>1, <1>2, <1>3, AuthorityKept DEF Fits

LEMMA TellsNothing == ASSUME NEW j, log' = log PROVE Tells(j)
BY DEF Tells

LEMMA TellsOf ==
    ASSUME NEW w, NEW what \in Whats \ Changes, Audit(what, w),
           what \in {"dry", "requested"} /\ job[w].checked => ToldIn(RowsOf({job[w].actor}, "revoke session"))
    PROVE  Tells(job[w])
<1>1. Justified(what, job[w])
  BY DEF Justified, Changes
<1> QED
  BY <1>1 DEF Tells, Audit

LEMMA PlainAuthority ==
    ASSUME Typed, AuthorityInv, NEW w \in Workers, PlainStep(w) PROVE AuthorityInv'
<1>1. UNCHANGED <<permission, unlogged, first, user>>
  BY PlainIsSame DEF SameTables
<1>2. ASSUME Ends(w), job[w] # Nothing, Tells(job[w]) PROVE AuthorityInv'
  BY <1>1, <1>2, EndAuthority
<1>3. ASSUME job[w] # Nothing, job[w].kind = "execute", Tells(job[w]),
             NEW step \in {"receipt", "finish", "failed", "request", "deny"}, Goes(w, step),
             step = "request" => job[w].step = "evidence"
      PROVE  AuthorityInv'
  BY <1>1, <1>3, GoOnAuthority DEF AllSteps
<1>4. CASE Deny(w)
  BY <1>2, <1>4, TellsOf DEF Deny, At, Whats, Changes
<1>5. CASE RecordDryRun(w)
  <2>1. job[w] # Nothing /\ job[w].kind = "dry" /\ job[w].step = "record" /\ Audit("dry", w) /\ Ends(w)
    BY <1>5 DEF RecordDryRun, At
  <2>2. job[w].checked => ToldIn(RowsOf({job[w].actor}, "revoke session"))
    BY <2>1 DEF AuthorityInv, Relies, Relying, Supported, Basis
  <2> QED
    BY <1>2, <2>1, <2>2, TellsOf DEF Whats, Changes
<1>6. CASE RecordLegacyRevokeAudit(w)
  <2>1. Tells(job[w])
    <3>1. Justified("legacy told", job[w])
      BY DEF Justified
    <3> QED
      BY <1>6, <3>1 DEF RecordLegacyRevokeAudit, Tells, Whats, Changes
  <2> QED
    BY <1>2, <1>6, <2>1 DEF RecordLegacyRevokeAudit, At
<1>7. CASE Die(w)
  BY <1>2, <1>7, TellsNothing DEF Die, Idle
<1>8. CASE FindEvidence(w)
  <2>1. job[w] # Nothing /\ job[w].kind = "execute" /\ job[w].step = "evidence" /\ log' = log
        /\ (Ends(w) \/ Goes(w, "request") \/ Goes(w, "deny"))
    BY <1>8 DEF FindEvidence, At
  <2> QED
    BY <1>2, <1>3, <2>1, TellsNothing
<1>9. CASE RecordRequest(w)
  <2>1. job[w] # Nothing /\ job[w].kind = "execute" /\ job[w].step = "request" /\ Audit("requested", w)
        /\ Goes(w, "receipt")
    BY <1>9 DEF RecordRequest, At
  <2>2. job[w].checked => ToldIn(RowsOf({job[w].actor}, "revoke session"))
    BY <2>1 DEF AuthorityInv, Relies, Relying, Supported, Basis
  <2> QED
    BY <1>3, <2>1, <2>2, TellsOf DEF Whats, Changes
<1>10. CASE RecordSuccess(w)
  BY <1>3, <1>10, TellsOf DEF RecordSuccess, At, Whats, Changes
<1>11. CASE Fail(w)
  BY <1>3, <1>11, TellsOf DEF Fail, At, Whats, Changes
<1> QED
  BY <1>4, <1>5, <1>6, <1>7, <1>8, <1>9, <1>10, <1>11 DEF PlainStep

LEMMA EffectAuthority ==
    ASSUME Typed, AuthorityInv, NEW w \in Workers,
           \/ CreateReceipt(w) \/ RevokeCompanySession(w) \/ RevokeLegacyAdminSession(w)
           \/ \E step, status : FinishReceipt(w, step, status)
    PROVE  AuthorityInv'
<1>1. /\ job[w] # Nothing /\ job[w].kind \in {"execute", "legacy"} /\ log' = log
      /\ UNCHANGED <<permission, unlogged, first, user>>
      /\ Ends(w) \/ Goes(w, "effect") \/ Goes(w, "succeed") \/ Goes(w, "told")
  BY DEF CreateReceipt, RevokeCompanySession, RevokeLegacyAdminSession, FinishReceipt, At
<1> QED
  BY <1>1, TellsNothing, EndAuthority, GoOnAuthority DEF AllSteps

LEMMA FindAuthority ==
    ASSUME Typed, AuthorityInv, NEW w \in Workers, FindManagers(w) PROVE AuthorityInv'
<1>1. /\ log' = log /\ UNCHANGED <<permission, unlogged, first, user>> /\ job[w] \in Request
  BY FindJobs DEF FindManagers, tables, Typed
<1> SUFFICES ASSUME NEW i, i = job'[w] PROVE AuthorityInv'
  OBVIOUS
<1>2. /\ \A v \in Workers \ {w} : job'[v] = job[v]
      /\ i.kind = "bootstrap"
      /\ \/ i.step = "deny"
         \/ i.step = "write" /\ \A row \in RowsOf(Users, "manage") : permission[row] # "active"
      /\ i.checked = Logged(RowsOf(Users, "manage"))
  BY FindJobs
<1>3. Relies(i)
  <2>1. Basis(i) = RowsOf(Users, "manage") /\ (Relying(i) => i.step = "write")
    BY <1>2 DEF Basis, Relying, Changes
  <2>2. ASSUME i.step = "write", Logged(RowsOf(Users, "manage")) PROVE ~ToldIn(RowsOf(Users, "manage"))
    <3>1. \A row \in RowsOf(Users, "manage") : row \in Rows \ unlogged
      BY <2>2 DEF RowsOf, Rows, Logged, Permissions
    <3> QED
      BY <1>2, <2>2, <3>1 DEF AuthorityInv, LogTells, ToldIn
  <2> QED
    BY <1>2, <2>1, <2>2 DEF Relies, Supported, Logged
<1> QED
  BY <1>1, <1>2, <1>3, TellsNothing, AuthorityKept DEF Fits


(***************************************************************************)
(* Steps that take from other requests what they may rely on.              *)
(***************************************************************************)
Weaker(i, j) ==
    /\ Alike(i, j)
    /\ j.checked => i.checked
    /\ j.alone => i.alone

LEMMA WeakerRelies ==
    ASSUME NEW i, NEW j, Relies(i), Weaker(i, j),
           Relying(j) /\ j.checked => \A row \in Basis(i) :
               (Told(log', row) <=> Told(log, row)) /\ (row \in unlogged' => row \in unlogged)
    PROVE  Relies(j)'
<1>1. Basis(j) = Basis(i) /\ (Relying(j) <=> Relying(i)) /\ (j.kind = i.kind) /\ \A row : Own(j, row) <=> Own(i, row)
  BY DEF Weaker, Alike, Basis, Relying, Own
<1>2. ASSUME Relying(j), j.checked
      PROVE  Supported(j)' /\ \A row \in Basis(j) \cap unlogged' : Own(j, row)
  BY <1>1, <1>2 DEF Relies, Supported, ToldIn, Weaker
<1> QED
  BY <1>2 DEF Relies

LEMMA WeakerWritten ==
    ASSUME NEW i, NEW j, Written(i), Weaker(i, j),
           j.step = "audit" /\ j.alone =>
               (i.row \in unlogged => i.row \in unlogged') /\ permission'[i.row] = permission[i.row]
    PROVE  Written(j)'
BY DEF Written, Weaker, Alike

LEMMA WeakerApart ==
    ASSUME NEW i, NEW j, NEW k, NEW l, Apart(i, j), Weaker(i, k), Weaker(j, l) PROVE Apart(k, l)
<1>1. Basis(l) = Basis(j)
  BY DEF Weaker, Alike, Basis
<1> QED
  BY <1>1 DEF Apart, Weaker, Alike

LEMMA SameIsWeaker == ASSUME NEW i \in Request PROVE Weaker(i, i)
BY DEF Weaker, Alike

LEMMA DisturbedIsWeaker ==
    ASSUME Typed, NEW w \in Workers, NEW row, NEW v \in Workers, v # w,
           Disturbed(w, row)[v] # Nothing
    PROVE  LET j == Disturbed(w, row)[v] IN
           /\ job[v] # Nothing /\ Weaker(job[v], j)
           /\ j.checked => row \notin Basis(job[v])
           /\ j.alone => job[v].row # row
<1> SUFFICES ASSUME NEW i, i = job[v], NEW j, j = Disturbed(w, row)[v], j # Nothing
             PROVE  /\ i # Nothing /\ Weaker(i, j)
                    /\ j.checked => row \notin Basis(i)
                    /\ j.alone => i.row # row
  OBVIOUS
<1>1. i # Nothing
  BY DisturbedTyped
<1>2. /\ Alike(i, j)
      /\ j.checked = (i.checked /\ row \notin Basis(i))
      /\ j.alone = (i.alone /\ i.row # row)
  BY <1>1, DisturbedTyped
<1> QED
  BY <1>1, <1>2 DEF Weaker

LEMMA CreateAuthority ==
    ASSUME Typed, AuthorityInv, NEW w \in Workers, CreateOwnerAccount(w) PROVE AuthorityInv'
<1>1. /\ \A v \in Workers : job'[v] # Nothing => job[v] # Nothing /\ Weaker(job[v], job'[v])
      /\ \A v \in Workers : job'[v] # Nothing /\ job'[v].kind = "initial" /\ job'[v].checked =>
            first' = first /\ job[v].checked /\ job[v].kind = "initial"
  BY CreatedJobs DEF Weaker, Alike
<1>2. UNCHANGED <<permission, unlogged, log>>
  BY DEF CreateOwnerAccount
<1>3. LogTells' /\ LogExplained'
  BY <1>2 DEF AuthorityInv, LogTells, LogExplained, Explained, ToldBefore
<1>4. OneFirst'
  <2>1. job[w] # Nothing /\ RequestOK(job[w]) /\ job[w].kind \in {"register", "initial"} /\ job[w].actor \in Users
    BY DEF CreateOwnerAccount, At, Typed, RequestOK
  <2>2. \/ first' = first /\ user' = user
        \/ first' = first /\ user' = [user EXCEPT ![job[w].actor] = "admin"]
        \/ first' = first /\ user' = [user EXCEPT ![job[w].actor] = "user"]
        \/ first' = first \cup {job[w].actor} /\ first = {} /\ user' = [user EXCEPT ![job[w].actor] = "admin"]
    BY <2>1 DEF CreateOwnerAccount, AuthorityInv, OneFirst
  <2>3. (\A u, v \in first' : u = v) /\ (\A u \in first' : user'[u] # "none")
    BY <2>1, <2>2 DEF AuthorityInv, OneFirst, Typed, TypeOK
  <2>4. \A v \in Workers : job'[v] # Nothing /\ job'[v].kind = "initial" /\ job'[v].checked => first' = {}
    BY <1>1 DEF AuthorityInv, OneFirst
  <2> QED
    BY <2>3, <2>4 DEF OneFirst
<1>5. ASSUME NEW v \in Workers, job'[v] # Nothing PROVE Relies(job[v])' /\ Written(job[v])'
  <2> SUFFICES ASSUME NEW i, i = job[v], NEW j, j = job'[v] PROVE Relies(job[v])' /\ Written(job[v])'
    OBVIOUS
  <2>1. Relies(i) /\ Written(i) /\ Weaker(i, j)
    BY <1>1, <1>5 DEF AuthorityInv
  <2>2. Relies(j)' /\ Written(j)'
    BY <1>2, <2>1, WeakerRelies, WeakerWritten
  <2> QED
    BY <2>2 DEF Relies, Supported, Written
<1>6. ASSUME NEW v \in Workers, NEW x \in Workers, v # x, job'[v] # Nothing, job'[x] # Nothing
      PROVE  Apart(job'[v], job'[x])
  BY <1>1, <1>6, WeakerApart DEF AuthorityInv
<1> QED
  BY <1>3, <1>4, <1>5, <1>6 DEF AuthorityInv

LEMMA AppointAuthority ==
    ASSUME Typed, AuthorityInv, NEW u \in Users, AppointAdmin(u) PROVE AuthorityInv'
<1>1. /\ UNCHANGED <<permission, log, job, first, unlogged>>
      /\ \A v \in first : user'[v] # "none"
  BY DEF AppointAdmin, Typed, TypeOK, AuthorityInv, OneFirst
<1>2. LogTells' /\ LogExplained'
  BY <1>1 DEF AuthorityInv, LogTells, LogExplained, Explained, ToldBefore
<1>3. OneFirst'
  BY <1>1 DEF AuthorityInv, OneFirst
<1>4. \A w \in Workers : job'[w] # Nothing => Relies(job[w])' /\ Written(job[w])'
  BY <1>1 DEF AuthorityInv, Relies, Supported, ToldIn, Written
<1> QED
  BY <1>1, <1>2, <1>3, <1>4 DEF AuthorityInv

LEMMA SameAuthority ==
    ASSUME AuthorityInv, UNCHANGED <<user, permission, log, job, first, unlogged>> PROVE AuthorityInv'
<1>1. LogTells' /\ LogExplained'
  BY DEF AuthorityInv, LogTells, LogExplained, Explained, ToldBefore
<1>2. OneFirst'
  BY DEF AuthorityInv, OneFirst
<1>3. \A w \in Workers : job'[w] # Nothing => Relies(job[w])' /\ Written(job[w])'
  BY DEF AuthorityInv, Relies, Supported, ToldIn, Written
<1> QED
  BY <1>1, <1>2, <1>3 DEF AuthorityInv

LEMMA WriteAuthority ==
    ASSUME Typed, AuthorityInv, NEW w \in Workers, WritePermission(w) PROVE AuthorityInv'
<1> SUFFICES ASSUME NEW i, i = job[w], NEW k, k = job'[w] PROVE AuthorityInv'
  OBVIOUS
<1>1. /\ i \in Request /\ RequestOK(i) /\ i # Nothing /\ i.kind \in Changes /\ i.step = "write"
      /\ Moved(i, k, "audit") /\ k.alone /\ k.checked = i.checked
      /\ i.row \in Rows
  BY WrittenJobs DEF RequestOK
<1>2. \A v \in Workers \ {w} : job'[v] # Nothing =>
         /\ job[v] # Nothing /\ Weaker(job[v], job'[v])
         /\ job'[v].checked => i.row \notin Basis(job[v])
         /\ job'[v].alone => job[v].row # i.row
  BY WrittenJobs, DisturbedIsWeaker
<1>3. /\ UNCHANGED <<user, log, first>>
      /\ unlogged' = unlogged \cup {i.row}
      /\ permission' = [permission EXCEPT ![i.row] =
            IF i.kind # "revoke" THEN "active" ELSE IF @ = "active" THEN "inactive" ELSE @]
  BY DEF WritePermission
<1>4. permission \in [Rows -> {"none", "active", "inactive"}]
  BY DEF Typed, TypeOK
<1>5. /\ permission'[i.row] = "active" <=> i.kind # "revoke"
      /\ \A row \in Rows : row # i.row => permission'[row] = permission[row]
  BY <1>1, <1>3, <1>4
<1>6. LogTells' /\ LogExplained'
  BY <1>3, <1>5 DEF AuthorityInv, LogTells, LogExplained, Explained, ToldBefore
<1>7. OneFirst'
  <2>1. ASSUME NEW v \in Workers, job'[v] # Nothing, job'[v].kind = "initial", job'[v].checked PROVE first' = {}
    <3>1. v # w
      BY <1>1, <2>1 DEF Moved, Changes
    <3> QED
      BY <1>2, <1>3, <2>1, <3>1 DEF AuthorityInv, OneFirst, Weaker, Alike
  <2> QED
    BY <1>3, <2>1 DEF AuthorityInv, OneFirst
<1>8. Relies(k)' /\ Written(k)'
  <2>1. Relies(i) /\ ~\E row : Own(i, row)
    BY <1>1 DEF AuthorityInv, Own
  <2>2. Basis(k) = Basis(i) /\ Relying(i) /\ k.kind = i.kind /\ k.row = i.row /\ k.step = "audit"
    BY <1>1 DEF Moved, Basis, Relying
  <2>3. k.checked => Supported(k)' /\ \A row \in Basis(k) \cap unlogged' : Own(k, row)
    BY <1>1, <1>3, <2>1, <2>2 DEF Relies, Supported, ToldIn, Own
  <2>4. Relies(k)'
    BY <2>3 DEF Relies
  <2>5. Written(k)'
    BY <1>1, <1>3, <1>5, <2>2 DEF Written
  <2> QED
    BY <2>4, <2>5
<1>9. ASSUME NEW v \in Workers, job'[v] # Nothing PROVE Relies(job[v])' /\ Written(job[v])'
  <2>1. CASE v = w
    BY <1>8, <2>1 DEF Relies, Supported, Written
  <2>2. CASE v # w
    <3> SUFFICES ASSUME NEW a, a = job[v], NEW b, b = job'[v] PROVE Relies(job[v])' /\ Written(job[v])'
      OBVIOUS
    <3>1. Relies(a) /\ Written(a) /\ Weaker(a, b) /\ (b.checked => i.row \notin Basis(a))
          /\ (b.alone => a.row # i.row)
      BY <1>2, <1>9, <2>2 DEF AuthorityInv
    <3>2. Relies(b)'
      BY <1>3, <3>1, WeakerRelies
    <3>3. a.step = "audit" => a.row \in Rows
      <4>1. a \in Request \cup {Nothing} /\ a # Nothing /\ RequestOK(a)
        BY <1>2, <1>9, <2>2 DEF Typed
      <4> QED
        BY <4>1 DEF RequestOK, StepsOf, Request, Changes, JobKinds
    <3>4. Written(b)'
      BY <1>3, <1>5, <3>1, <3>3, WeakerWritten DEF Weaker, Alike
    <3> QED
      BY <3>2, <3>4 DEF Relies, Supported, Written
  <2> QED
    BY <2>1, <2>2
<1>10. ASSUME NEW v \in Workers, NEW x \in Workers, v # x, job'[v] # Nothing, job'[x] # Nothing
      PROVE  Apart(job'[v], job'[x])
  <2>1. CASE v = w
    <3>1. Weaker(job[x], job'[x]) /\ (job'[x].checked => i.row \notin Basis(job[x])) /\ (job'[x].alone => job[x].row # i.row)
      BY <1>2, <1>10, <2>1
    <3>2. Basis(job'[x]) = Basis(job[x]) /\ job'[x].row = job[x].row
      BY <3>1 DEF Weaker, Alike, Basis
    <3>3. k.row = i.row
      BY <1>1 DEF Moved
    <3> QED
      BY <2>1, <3>1, <3>2, <3>3 DEF Apart
  <2>2. CASE x = w
    <3>1. Weaker(job[v], job'[v]) /\ (job'[v].alone => job[v].row # i.row)
      BY <1>2, <1>10, <2>2
    <3>2. k.row = i.row
      BY <1>1 DEF Moved
    <3> QED
      BY <2>2, <3>1, <3>2 DEF Apart, Weaker, Alike
  <2>3. CASE v # w /\ x # w
    BY <1>2, <1>10, <2>3, WeakerApart DEF AuthorityInv
  <2> QED
    BY <2>1, <2>2, <2>3
<1> QED
  BY <1>6, <1>7, <1>9, <1>10 DEF AuthorityInv

LEMMA AuditAuthority ==
    ASSUME Typed, AuthorityInv, NEW w \in Workers, AuditMutation(w) PROVE AuthorityInv'
<1> SUFFICES ASSUME NEW i, i = job[w] PROVE AuthorityInv'
  OBVIOUS
<1>1. /\ i \in Request /\ RequestOK(i) /\ i # Nothing /\ i.kind \in Changes /\ i.step = "audit"
      /\ i.row \in Rows /\ job'[w] = Nothing
      /\ Relies(i) /\ Written(i)
  BY AuditedJobs DEF RequestOK, AuthorityInv
<1>2. /\ UNCHANGED <<user, permission, first>>
      /\ log' = Append(log, Entry(i.kind, i))
      /\ unlogged' = IF i.alone THEN unlogged \ {i.row} ELSE unlogged \cup {i.row}
  BY DEF AuditMutation, Audit, tables
<1>3. log \in Seq(LogEntry) /\ i.kind \in Whats /\ i.kind # "deny"
  BY <1>1 DEF Typed, Changes, Whats
<1>4. \A row : IF row = i.row THEN Told(log', row) <=> i.kind # "revoke" ELSE Told(log', row) <=> Told(log, row)
  <2>1. Entry(i.kind, i) \in LogEntry /\ Entry(i.kind, i).what = i.kind /\ Entry(i.kind, i).row = i.row
    BY <1>1, <1>3, EntryTyped DEF Entry
  <2> QED
    BY <1>1, <1>2, <1>3, <2>1, ToldOf
<1>5. LogTells'
  <2>1. ASSUME NEW row \in Rows \ unlogged' PROVE permission'[row] = "active" <=> Told(log', row)
    <3>1. CASE row = i.row
      BY <1>1, <1>2, <1>4, <2>1, <3>1 DEF Written
    <3>2. CASE row # i.row
      BY <1>2, <1>4, <2>1, <3>2 DEF AuthorityInv, LogTells
    <3> QED
      BY <3>1, <3>2
  <2> QED
    BY <2>1 DEF LogTells
<1>6. LogExplained'
  <2>1. Justified(i.kind, i)
    <3>1. i.checked => Supported(i)
      BY <1>1 DEF Relies, Relying
    <3>2. i.kind = "grant" => i.row[1] # i.actor
      BY <1>1 DEF RequestOK
    <3> QED
      BY <1>1, <3>1, <3>2 DEF Justified, Supported, Basis, Changes
  <2> QED
    BY <1>1, <1>2, <1>3, <2>1, LogStaysExplained DEF AuthorityInv
<1>7. ASSUME NEW v \in Workers \ {w}, job'[v] # Nothing
      PROVE  /\ job[v] # Nothing /\ Weaker(job[v], job'[v])
             /\ Relying(job'[v]) /\ job'[v].checked => i.row \notin Basis(job[v])
             /\ job'[v].step = "audit" /\ job'[v].alone => job[v].row # i.row
  <2>1. CASE i.alone
    <3> SUFFICES ASSUME NEW a, a = job[v]
                 PROVE  /\ a # Nothing /\ job'[v] = a /\ Weaker(a, a)
                        /\ Relying(a) /\ a.checked => i.row \notin Basis(a)
                        /\ a.step = "audit" /\ a.alone => a.row # i.row
      OBVIOUS
    <3>1. job'[v] = a /\ a # Nothing
      BY <1>7, <2>1, AuditedJobs
    <3>2. a \in Request /\ Relies(a) /\ Apart(i, a)
      BY <1>1, <3>1 DEF Typed, AuthorityInv
    <3>3. i.row \in unlogged
      BY <1>1, <2>1 DEF Written
    <3>4. ASSUME Relying(a), a.checked, i.row \in Basis(a) PROVE FALSE
      <4>1. Own(a, i.row)
        BY <3>2, <3>3, <3>4 DEF Relies
      <4> QED
        BY <1>1, <2>1, <3>2, <3>4, <4>1 DEF Own, Apart
    <3>5. a.step = "audit" /\ a.alone => a.row # i.row
      BY <1>1, <2>1, <3>2 DEF Apart
    <3> QED
      BY <3>1, <3>2, <3>4, <3>5, SameIsWeaker
  <2>2. CASE ~i.alone
    <3>1. job'[v] = Disturbed(w, i.row)[v]
      BY <1>7, <2>2, AuditedJobs
    <3> QED
      BY <1>7, <3>1, DisturbedIsWeaker
  <2> QED
    BY <2>1, <2>2
<1>8. OneFirst'
  BY <1>1, <1>2, <1>7 DEF AuthorityInv, OneFirst, Weaker, Alike
<1>9. ASSUME NEW v \in Workers, job'[v] # Nothing PROVE Relies(job[v])' /\ Written(job[v])'
  <2> SUFFICES ASSUME NEW a, a = job[v], NEW b, b = job'[v] PROVE Relies(job[v])' /\ Written(job[v])'
    OBVIOUS
  <2>1. v \in Workers \ {w}
    BY <1>1, <1>9
  <2>2. /\ Relies(a) /\ Written(a) /\ Weaker(a, b)
        /\ Relying(b) /\ b.checked => i.row \notin Basis(a)
        /\ b.step = "audit" /\ b.alone => a.row # i.row
    BY <1>7, <1>9, <2>1 DEF AuthorityInv
  <2>3. Relies(b)'
    <3>1. ASSUME Relying(b), b.checked, NEW row \in Basis(a)
          PROVE  (Told(log', row) <=> Told(log, row)) /\ (row \in unlogged' => row \in unlogged)
      BY <1>2, <1>4, <2>2, <3>1
    <3> QED
      BY <2>2, <3>1, WeakerRelies
  <2>4. Written(b)'
    BY <1>2, <2>2, WeakerWritten
  <2> QED
    BY <2>3, <2>4 DEF Relies, Supported, Written
<1>10. ASSUME NEW v \in Workers, NEW x \in Workers, v # x, job'[v] # Nothing, job'[x] # Nothing
      PROVE  Apart(job'[v], job'[x])
  BY <1>1, <1>7, <1>10, WeakerApart DEF AuthorityInv
<1> QED
  BY <1>5, <1>6, <1>8, <1>9, <1>10 DEF AuthorityInv


(***************************************************************************)
(* Executions.  Rows of the log stay, sessions stay revoked, and only an    *)
(* execution writes that it succeeded.                                     *)
(***************************************************************************)
LEMMA LogKept ==
    ASSUME log \in Seq(LogEntry), NEW j \in Request, NEW whats \in SUBSET Whats, LogGrows(j, whats)
    PROVE  /\ \A i \in DOMAIN log : i \in Nat /\ i \in DOMAIN log' /\ log'[i] = log[i]
           /\ \A i \in DOMAIN log' \ DOMAIN log :
                 /\ i \in Nat /\ \A n \in DOMAIN log : n < i
                 /\ \E what \in whats : log'[i] = Entry(what, j)
           /\ \A i, n \in DOMAIN log' \ DOMAIN log : i = n
<1>1. CASE log' = log
  BY <1>1
<1>2. ASSUME NEW what \in whats, log' = Append(log, Entry(what, j))
      PROVE  /\ \A i \in DOMAIN log : i \in Nat /\ i \in DOMAIN log' /\ log'[i] = log[i]
             /\ \A i \in DOMAIN log' \ DOMAIN log :
                 /\ i \in Nat /\ \A n \in DOMAIN log : n < i
                 /\ log'[i] = Entry(what, j)
             /\ \A i, n \in DOMAIN log' \ DOMAIN log : i = n
  <2>1. Entry(what, j) \in LogEntry
    BY EntryTyped
  <2> DEFINE e == Entry(what, j)
  <2> HIDE DEF e
  <2>2. /\ Len(log) \in Nat /\ DOMAIN log = 1..Len(log) /\ DOMAIN log' = 1..Len(log) + 1
        /\ log'[Len(log) + 1] = e /\ \A i \in 1..Len(log) : log'[i] = log[i]
    BY <1>2, <2>1, AppendProperties DEF e
  <2> QED
    BY <2>2 DEF e
<1> QED
  BY <1>1, <1>2 DEF LogGrows

(* What holds of one request, or one receipt, stays so.                    *)
LEMMA EvidenceKept ==
    ASSUME log \in Seq(LogEntry), NEW j \in Request, LogGrows(j, Whats), NEW r, NEW k,
           session[r.session] = "revoked" => session'[r.session] = "revoked"
    PROVE  /\ TriedOut(r) => TriedOut(r)'
           /\ Asked(r, k) => Asked(r, k)'
           /\ Done(r, k) => Done(r, k)'
<1>1. \A i \in DOMAIN log : i \in DOMAIN log' /\ log'[i] = log[i]
  BY LogKept
<1>2. \A i : AskedFor(r, k, i) => AskedFor(r, k, i)'
  BY <1>1 DEF AskedFor, Is
<1>3. TriedOut(r) => TriedOut(r)'
  BY <1>1 DEF TriedOut
<1>4. Asked(r, k) => Asked(r, k)'
  BY <1>1, <1>2 DEF Asked
<1>5. \A n \in DOMAIN log : Is(n, "succeeded", k) => n \in DOMAIN log' /\ Is(n, "succeeded", k)'
  BY <1>1 DEF Is
<1>6. Done(r, k) => Done(r, k)'
  BY <1>1, <1>2, <1>5 DEF Done
<1> QED
  BY <1>3, <1>4, <1>6

LEMMA NotDoneKept ==
    ASSUME log \in Seq(LogEntry), NEW j \in Request, NEW k, NEW whats \in SUBSET Whats, LogGrows(j, whats),
           "succeeded" \notin whats \/ j.key # k
    PROVE  /\ NotDone(k) => NotDone(k)'
           /\ Unique(k) => Unique(k)'
<1>1. \A i \in DOMAIN log' : Is(i, "succeeded", k)' => i \in DOMAIN log /\ Is(i, "succeeded", k)
  <2> TAKE i \in DOMAIN log'
  <2>1. CASE i \in DOMAIN log
    BY <2>1, LogKept DEF Is
  <2>2. CASE i \notin DOMAIN log
    <3>1. PICK what \in whats : log'[i] = Entry(what, j)
      BY <2>2, LogKept
    <3> QED
      BY <3>1 DEF Is, Entry
  <2> QED
    BY <2>1, <2>2
<1> QED
  BY <1>1 DEF NotDone, Unique

LEMMA ExecutesKept ==
    ASSUME log \in Seq(LogEntry), NEW x \in Request, NEW whats \in SUBSET Whats, LogGrows(x, whats),
           NEW i, NEW j, Executes(i), Alike(i, j),
           "succeeded" \notin whats \/ x.key # i.key \/ ~Open(i),
           Open(i) => receipt'[i.key] = receipt[i.key],
           i.kind = "execute" /\ session[i.session] = "revoked" => session'[i.session] = "revoked"
    PROVE  Executes(j)'
<1>1. LogGrows(x, Whats)
  BY DEF LogGrows
<1>2. /\ j.kind = i.kind /\ j.step = i.step /\ j.key = i.key /\ j.session = i.session
      /\ j.actor = i.actor /\ j.dryRun = i.dryRun
  BY DEF Alike
<1>3. /\ TriedOut(j) <=> TriedOut(i)
      /\ Asked(j, j.key) <=> Asked(i, i.key)
      /\ Done(j, j.key) <=> Done(i, i.key)
      /\ Pending(j) = Pending(i)
      /\ Open(j) <=> Open(i)
  BY <1>2 DEF TriedOut, Asked, AskedFor, Done, Pending, Open
<1>4. j.kind = "execute" =>
         /\ TriedOut(j) => TriedOut(j)'
         /\ Asked(j, j.key) => Asked(j, j.key)'
         /\ Done(j, j.key) => Done(j, j.key)'
  BY <1>1, <1>2, EvidenceKept
<1>5. j.kind = "execute" /\ j.step \in {"effect", "succeed"} /\ NotDone(j.key) => NotDone(j.key)'
  BY <1>2, NotDoneKept DEF Open
<1> HIDE DEF TriedOut, Asked, Done, Pending, NotDone, Open
<1> QED
  BY <1>2, <1>3, <1>4, <1>5 DEF Executes, Open


LEMMA EvidencedKept ==
    ASSUME log \in Seq(LogEntry), NEW x \in Request, NEW whats \in SUBSET Whats, LogGrows(x, whats),
           NEW k, Evidenced(k), receipt'[k] = receipt[k],
           receipt[k] # Nothing => receipt[k].session \in Sessions,
           "succeeded" \notin whats \/ x.key # k,
           \A s \in Sessions : session[s] = "revoked" => session'[s] = "revoked"
    PROVE  Evidenced(k)'
<1>1. LogGrows(x, Whats)
  BY DEF LogGrows
<1>2. NotDone(k) => NotDone(k)'
  BY NotDoneKept
<1>3. Unique(k)'
  BY NotDoneKept DEF Evidenced
<1> SUFFICES ASSUME NEW r, r = receipt[k] PROVE Evidenced(k)'
  OBVIOUS
<1>4. r # Nothing =>
         /\ TriedOut(r) => TriedOut(r)'
         /\ Asked(r, k) => Asked(r, k)'
         /\ Done(r, k) => Done(r, k)'
  BY <1>1, EvidenceKept
<1>5. r # Nothing =>
         /\ TriedOut(r)' /\ Asked(r, k)'
         /\ r.status = "SUCCEEDED" => Done(r, k)'
  BY <1>4 DEF Evidenced
<1>6. r # Nothing => TriedOut(receipt[k])' /\ Asked(receipt[k], k)' /\ (r.status = "SUCCEEDED" => Done(receipt[k], k)')
  BY <1>5 DEF TriedOut, Asked, AskedFor, Done
<1> QED
  BY <1>2, <1>3, <1>6 DEF Evidenced

(* A step that writes no receipt and no success.                           *)
LEMMA ExecutionKept ==
    ASSUME Typed, ExecutionInv, NEW w \in Workers, NEW i, i = job'[w],
           NEW x \in Request, LogGrows(x, Whats \ {"succeeded"}), receipt' = receipt,
           \A s \in Sessions : session[s] = "revoked" => session'[s] = "revoked",
           \A v \in Workers \ {w} : job'[v] # Nothing => job[v] # Nothing /\ Alike(job[v], job'[v]),
           i # Nothing =>
              /\ Executes(i)'
              /\ Open(i) => job[w] # Nothing /\ Open(job[w]) /\ job[w].key = i.key
    PROVE  ExecutionInv'
<1>1. log \in Seq(LogEntry) /\ "succeeded" \notin Whats \ {"succeeded"} /\ Whats \ {"succeeded"} \in SUBSET Whats
  BY DEF Typed
<1>2. ASSUME NEW k \in Keys PROVE Evidenced(k)'
  <2>1. receipt[k] # Nothing => receipt[k].session \in Sessions
    BY DEF Typed, TypeOK, Receipts
  <2> QED
    BY <1>1, <2>1, EvidencedKept DEF ExecutionInv
<1>3. ASSUME NEW v \in Workers, job'[v] # Nothing PROVE Executes(job[v])'
  <2>1. CASE v = w
    <3>1. Executes(i)'
      BY <1>3, <2>1
    <3> QED
      BY <2>1, <3>1 DEF Executes, TriedOut, Asked, AskedFor, Done
  <2>2. CASE v # w
    <3> SUFFICES ASSUME NEW a, a = job[v], NEW b, b = job'[v] PROVE Executes(job[v])'
      OBVIOUS
    <3>1. Executes(a) /\ Alike(a, b) /\ (a.kind = "execute" => a.session \in Sessions)
      BY <1>3, <2>2 DEF ExecutionInv, Typed, RequestOK
    <3>2. Executes(b)'
      BY <1>1, <3>1, ExecutesKept
    <3> QED
      BY <3>2 DEF Executes, TriedOut, Asked, AskedFor, Done
  <2> QED
    BY <2>1, <2>2
<1>4. ASSUME NEW v \in Workers, NEW u \in Workers, job'[v] # Nothing, job'[u] # Nothing,
             Open(job'[v]), Open(job'[u]), job'[v].key = job'[u].key
      PROVE  v = u
  <2>1. \A t \in Workers : job'[t] # Nothing /\ Open(job'[t]) =>
           job[t] # Nothing /\ Open(job[t]) /\ job[t].key = job'[t].key
    BY DEF Open, Alike
  <2> QED
    BY <1>4, <2>1 DEF ExecutionInv
<1> QED
  BY <1>2, <1>3, <1>4 DEF ExecutionInv


LEMMA OthersAlike ==
    ASSUME Typed, NEW w \in Workers, \A v \in Workers \ {w} : job'[v] = job[v]
    PROVE  \A v \in Workers \ {w} : job'[v] # Nothing => job[v] # Nothing /\ Alike(job[v], job'[v])
BY DEF Typed, Alike

LEMMA StartExecutionInv ==
    ASSUME Typed, ExecutionInv, NEW w \in Workers, NEW j, Arrives(w, j) PROVE ExecutionInv'
<1>1. /\ j \in Request /\ SameTables /\ Arrival(j)
      /\ job'[w] = j /\ \A v \in Workers \ {w} : job'[v] = job[v]
  BY JobTyped DEF Arrives
<1>2. LogGrows(j, Whats \ {"succeeded"})
  BY <1>1 DEF Arrival, Allowed, LogGrows, Whats
<1>3. Executes(j)' /\ ~Open(j)
  BY <1>1 DEF Arrival, Executes, Open
<1>4. receipt' = receipt /\ session' = session
  BY <1>1 DEF SameTables
<1> QED
  BY <1>1, <1>2, <1>3, <1>4, OthersAlike, ExecutionKept

LEMMA EndExecution ==
    ASSUME Typed, ExecutionInv, NEW w \in Workers, job[w] # Nothing, Ends(w),
           LogGrows(job[w], Whats \ {"succeeded"}), receipt' = receipt, session' = session
    PROVE  ExecutionInv'
<1>1. job'[w] = Nothing /\ (\A v \in Workers \ {w} : job'[v] = job[v]) /\ job[w] \in Request
  BY EndsTyped DEF Typed
<1> QED
  BY <1>1, OthersAlike, ExecutionKept

LEMMA GoOnExecution ==
    ASSUME Typed, ExecutionInv, NEW w \in Workers, job[w] # Nothing, NEW step \in AllSteps, Goes(w, step),
           LogGrows(job[w], Whats \ {"succeeded"}), receipt' = receipt,
           \A s \in Sessions : session[s] = "revoked" => session'[s] = "revoked",
           \A i : Moved(job[w], i, step) => Executes(i)' /\ (Open(i) => Open(job[w]))
    PROVE  ExecutionInv'
<1> SUFFICES ASSUME NEW i, i = job'[w] PROVE ExecutionInv'
  OBVIOUS
<1>1. /\ Moved(job[w], i, step) /\ i.key = job[w].key
      /\ \A v \in Workers \ {w} : job'[v] = job[v]
      /\ job[w] \in Request
  BY GoesJobs DEF Typed, Moved
<1> QED
  BY <1>1, OthersAlike, ExecutionKept

(* What a request knows stays known to it at its next step.                *)
LEMMA MovedKnows ==
    ASSUME log \in Seq(LogEntry), NEW x \in Request, LogGrows(x, Whats), NEW i, NEW j, NEW step,
           Moved(i, j, step), session[i.session] = "revoked" => session'[i.session] = "revoked"
    PROVE  /\ TriedOut(i) => TriedOut(j)'
           /\ Asked(i, i.key) => Asked(j, j.key)'
           /\ Done(i, i.key) => Done(j, j.key)'
           /\ Pending(j) = Pending(i) /\ j.key = i.key /\ j.session = i.session /\ j.step = step
           /\ j.kind = i.kind
<1>1. /\ j.kind = i.kind /\ j.step = step /\ j.key = i.key /\ j.session = i.session
      /\ j.actor = i.actor /\ j.dryRun = i.dryRun
  BY DEF Moved
<1>2. /\ TriedOut(j) <=> TriedOut(i)
      /\ Asked(j, j.key) <=> Asked(i, i.key)
      /\ Done(j, j.key) <=> Done(i, i.key)
      /\ Pending(j) = Pending(i)
  BY <1>1 DEF TriedOut, Asked, AskedFor, Done, Pending
<1>3. /\ TriedOut(j) => TriedOut(j)'
      /\ Asked(j, j.key) => Asked(j, j.key)'
      /\ Done(j, j.key) => Done(j, j.key)'
  BY <1>1, EvidenceKept
<1> HIDE DEF TriedOut, Asked, Done, Pending
<1> QED
  BY <1>1, <1>2, <1>3

LEMMA PlainExecution ==
    ASSUME Typed, ExecutionInv, NEW w \in Workers, PlainStep(w), ~RecordSuccess(w) PROVE ExecutionInv'
<1> SUFFICES ASSUME NEW i, i = job[w] PROVE ExecutionInv'
  OBVIOUS
<1>1. receipt' = receipt /\ session' = session /\ log \in Seq(LogEntry)
  BY PlainIsSame DEF SameTables, Typed
<1>2. ASSUME Ends(w), i # Nothing, LogGrows(i, Whats \ {"succeeded"}) PROVE ExecutionInv'
  BY <1>1, <1>2, EndExecution
<1>3. ASSUME NEW what \in Whats \ {"succeeded"}, Audit(what, w) PROVE LogGrows(i, Whats \ {"succeeded"})
  BY <1>3 DEF Audit, LogGrows
<1>4. log' = log => LogGrows(i, Whats \ {"succeeded"})
  BY DEF LogGrows
<1>5. CASE Deny(w)
  BY <1>2, <1>3, <1>5 DEF Deny, At, Whats
<1>6. CASE RecordDryRun(w)
  BY <1>2, <1>3, <1>6 DEF RecordDryRun, At, Whats
<1>7. CASE RecordLegacyRevokeAudit(w)
  <2>1. LogGrows(i, Whats \ {"succeeded"})
    BY <1>7 DEF RecordLegacyRevokeAudit, LogGrows, Whats
  <2> QED
    BY <1>2, <1>7, <2>1 DEF RecordLegacyRevokeAudit, At
<1>8. CASE Die(w)
  BY <1>2, <1>4, <1>8 DEF Die, Idle
<1>9. CASE FindEvidence(w)
  <2>1. /\ i # Nothing /\ i.kind = "execute" /\ i.step = "evidence" /\ log' = log
        /\ \/ Ends(w)
           \/ Goes(w, "deny")
           \/ Goes(w, "request") /\ ValidateDryRunEvidence(i)
    BY <1>9 DEF FindEvidence, At
  <2>2. ASSUME Goes(w, "request"), ValidateDryRunEvidence(i) PROVE ExecutionInv'
    <3>1. TriedOut(i)
      <4>1. DOMAIN log = 1..Len(log) /\ Len(log) \in Nat /\ old \in Nat
        BY <1>1, LenProperties DEF Typed, TypeOK
      <4>2. i.dryRun \in DOMAIN log
        BY <2>2, <4>1 DEF ValidateDryRunEvidence
      <4> QED
        BY <2>2, <4>2 DEF ValidateDryRunEvidence, TriedOut
    <3>2. ASSUME NEW j, Moved(i, j, "request") PROVE Executes(j)' /\ ~Open(j)
      BY <2>1, <3>1, <3>2 DEF Executes, Open, Moved, TriedOut
    <3> QED
      BY <1>1, <1>4, <2>1, <2>2, <3>2, GoOnExecution DEF AllSteps
  <2>3. ASSUME Goes(w, "deny") PROVE ExecutionInv'
    <3>1. ASSUME NEW j, Moved(i, j, "deny") PROVE Executes(j)' /\ ~Open(j)
      BY <3>1 DEF Executes, Open, Moved
    <3> QED
      BY <1>1, <1>4, <2>1, <2>3, <3>1, GoOnExecution DEF AllSteps
  <2> QED
    BY <1>2, <1>4, <2>1, <2>2, <2>3
<1>10. CASE RecordRequest(w)
  <2>1. i # Nothing /\ i.kind = "execute" /\ i.step = "request" /\ Audit("requested", w)
        /\ Goes(w, "receipt") /\ i \in Request
    BY <1>10 DEF RecordRequest, At, Typed
  <2>2. TriedOut(i)
    BY <2>1 DEF ExecutionInv, Executes
  <2>3. LogGrows(i, Whats \ {"succeeded"}) /\ LogGrows(i, Whats) /\ LogGrows(i, {"requested"})
    BY <2>1 DEF Audit, LogGrows, Whats
  <2>4. Asked(i, i.key)'
    <3> DEFINE e == Entry("requested", i)
    <3>1. e \in LogEntry /\ e.what = "requested" /\ e.key = i.key /\ e.actor = i.actor
      BY <2>1, EntryTyped DEF Entry, Whats
    <3>2. log' = Append(log, e)
      BY <2>1 DEF Audit
    <3> HIDE DEF e
    <3> SUFFICES ASSUME NEW n, n = Len(log) + 1 PROVE Asked(i, i.key)'
      OBVIOUS
    <3>3. n \in DOMAIN log' /\ i.dryRun < n /\ log'[n] = e
      BY <1>1, <2>2, <3>1, <3>2, AppendProperties, LenProperties DEF TriedOut
    <3>4. AskedFor(i, i.key, n)'
      BY <3>1, <3>3 DEF AskedFor, Is
    <3> QED
      BY <3>3, <3>4 DEF Asked
  <2>5. ASSUME NEW j, Moved(i, j, "receipt") PROVE Executes(j)' /\ ~Open(j)
    <3>1. TriedOut(j)' /\ j.key = i.key /\ j.step = "receipt"
      BY <1>1, <2>1, <2>2, <2>3, <2>5, MovedKnows
    <3>2. Asked(j, j.key)'
      BY <2>4, <2>5 DEF Moved, Asked, AskedFor
    <3> QED
      BY <3>1, <3>2 DEF Executes, Open
  <2> QED
    BY <1>1, <2>1, <2>3, <2>5, GoOnExecution DEF AllSteps
<1>11. CASE Fail(w)
  <2>1. i # Nothing /\ i.kind = "execute" /\ i.step \in {"effect", "succeed", "finish"}
        /\ Goes(w, "failed") /\ i \in Request /\ Audit("failed", w)
    BY <1>11 DEF Fail, At, Typed
  <2>2. LogGrows(i, Whats \ {"succeeded"}) /\ LogGrows(i, Whats)
    BY <2>1 DEF Audit, LogGrows, Whats
  <2>3. TriedOut(i) /\ Asked(i, i.key) /\ receipt[i.key] = Pending(i) /\ Open(i)
    BY <2>1 DEF ExecutionInv, Executes, Open
  <2>4. ASSUME NEW j, Moved(i, j, "failed") PROVE Executes(j)'
    <3>1. TriedOut(j)' /\ Asked(j, j.key)' /\ j.key = i.key /\ Pending(j) = Pending(i) /\ j.step = "failed"
      BY <1>1, <2>1, <2>2, <2>3, <2>4, MovedKnows
    <3> QED
      BY <1>1, <2>3, <3>1 DEF Executes, Pending, Open
  <2> QED
    BY <1>1, <2>1, <2>2, <2>3, <2>4, GoOnExecution DEF AllSteps
<1> QED
  BY <1>5, <1>6, <1>7, <1>8, <1>9, <1>10, <1>11 DEF PlainStep


LEMMA RevokeExecution ==
    ASSUME Typed, ExecutionInv, NEW w \in Workers, RevokeCompanySession(w) \/ RevokeLegacyAdminSession(w)
    PROVE  ExecutionInv'
<1> SUFFICES ASSUME NEW i, i = job[w] PROVE ExecutionInv'
  OBVIOUS
<1>1. /\ i \in Request /\ i # Nothing /\ RequestOK(i) /\ log \in Seq(LogEntry)
      /\ session \in [Sessions -> {"live", "revoked"}]
  BY DEF RevokeCompanySession, RevokeLegacyAdminSession, At, Typed, TypeOK
<1>2. /\ log' = log /\ receipt' = receipt
      /\ session' = session \/ session' = [session EXCEPT ![i.session] = "revoked"]
  BY DEF RevokeCompanySession, RevokeLegacyAdminSession
<1>3. LogGrows(i, Whats \ {"succeeded"}) /\ LogGrows(i, Whats)
  BY <1>2 DEF LogGrows
<1>4. \A s \in Sessions : session[s] = "revoked" => session'[s] = "revoked"
  BY <1>1, <1>2
<1>5. CASE RevokeCompanySession(w)
  <2>1. Goes(w, "succeed") /\ i.kind = "execute" /\ i.step = "effect" /\ i.session \in Sessions
        /\ session' = [session EXCEPT ![i.session] = "revoked"]
    BY <1>1, <1>5 DEF RevokeCompanySession, At, RequestOK
  <2>2. TriedOut(i) /\ Asked(i, i.key) /\ receipt[i.key] = Pending(i) /\ NotDone(i.key) /\ Open(i)
    BY <1>1, <2>1 DEF ExecutionInv, Executes, Open
  <2>3. session'[i.session] = "revoked"
    BY <1>1, <2>1
  <2>4. NotDone(i.key)'
    BY <1>2, <2>2 DEF NotDone, Is
  <2>5. ASSUME NEW j, Moved(i, j, "succeed") PROVE Executes(j)'
    <3>1. /\ TriedOut(j)' /\ Asked(j, j.key)' /\ j.key = i.key /\ Pending(j) = Pending(i)
          /\ j.step = "succeed" /\ j.session = i.session
      BY <1>1, <1>3, <2>2, <2>3, <2>5, MovedKnows
    <3>2. NotDone(j.key)'
      BY <2>4, <3>1 DEF NotDone
    <3> QED
      BY <1>2, <2>2, <2>3, <3>1, <3>2 DEF Executes, Pending, Open
  <2> QED
    BY <1>1, <1>2, <1>3, <1>4, <2>1, <2>2, <2>5, GoOnExecution DEF AllSteps
<1>6. CASE RevokeLegacyAdminSession(w)
  <2>1. Goes(w, "told") /\ i.kind = "legacy"
    BY <1>6 DEF RevokeLegacyAdminSession, At
  <2>2. \A j : Moved(i, j, "told") => Executes(j)' /\ ~Open(j)
    BY <2>1 DEF Moved, Executes, Open
  <2> QED
    BY <1>1, <1>2, <1>3, <1>4, <2>1, <2>2, GoOnExecution DEF AllSteps
<1> QED
  BY <1>5, <1>6

(* Steps of registrations and of changes of permissions.                   *)
LEMMA OtherExecution ==
    ASSUME Typed, ExecutionInv, NEW w \in Workers,
           CreateOwnerAccount(w) \/ FindManagers(w) \/ WritePermission(w) \/ AuditMutation(w)
    PROVE  ExecutionInv'
<1>1. job[w] \in Request /\ job[w] # Nothing /\ receipt' = receipt /\ session' = session
  BY
     DEF CreateOwnerAccount, FindManagers, WritePermission, AuditMutation, At, Typed,
         tables
<1>2. LogGrows(job[w], Whats \ {"succeeded"})
  <2>1. log' = log \/ (Audit(job[w].kind, w) /\ job[w].kind \in Changes)
    BY DEF CreateOwnerAccount, FindManagers, WritePermission, AuditMutation, At, Changes
  <2> QED
    BY <2>1 DEF Audit, LogGrows, Changes, Whats
<1>3. \A v \in Workers \ {w} : job'[v] # Nothing => job[v] # Nothing /\ Alike(job[v], job'[v])
  <2>1. CASE CreateOwnerAccount(w)
    BY <2>1, CreatedJobs
  <2>2. CASE FindManagers(w)
    BY <2>2, FindJobs, OthersAlike
  <2>3. CASE WritePermission(w)
    BY <2>3, WrittenJobs, DisturbedIsWeaker DEF Weaker
  <2>4. CASE AuditMutation(w)
    <3>1. \A v \in Workers \ {w} : job[v] # Nothing => Alike(job[v], job[v])
      BY DEF Typed, Alike
    <3>2. \A v \in Workers \ {w} : job'[v] = IF job[w].alone THEN job[v] ELSE Disturbed(w, job[w].row)[v]
      BY <2>4, AuditedJobs
    <3>3. ASSUME NEW v \in Workers \ {w}, Disturbed(w, job[w].row)[v] # Nothing
          PROVE  job[v] # Nothing /\ Alike(job[v], Disturbed(w, job[w].row)[v])
      BY <3>3, DisturbedIsWeaker DEF Weaker
    <3> QED
      BY <3>1, <3>2, <3>3
  <2> QED
    BY <2>1, <2>2, <2>3, <2>4
<1>4. job'[w] # Nothing => job'[w].kind \in Changes
  <2>1. CASE CreateOwnerAccount(w)
    BY <2>1, CreatedJobs
  <2>2. CASE FindManagers(w)
    BY <2>2, FindJobs DEF Changes
  <2>3. CASE WritePermission(w)
    BY <2>3, WrittenJobs DEF Moved
  <2>4. CASE AuditMutation(w)
    BY <2>4, AuditedJobs
  <2> QED
    BY <2>1, <2>2, <2>3, <2>4
<1> SUFFICES ASSUME NEW i, i = job'[w] PROVE ExecutionInv'
  OBVIOUS
<1>5. i # Nothing => Executes(i)' /\ ~Open(i)
  BY <1>4 DEF Changes, Executes, Open
<1> QED
  BY <1>1, <1>2, <1>3, <1>5, ExecutionKept

LEMMA SameExecution ==
    ASSUME ExecutionInv, UNCHANGED <<session, receipt, log, job>> PROVE ExecutionInv'
<1>1. \A k \in Keys : Evidenced(k)'
  BY DEF ExecutionInv, Evidenced, NotDone, Unique, Is, TriedOut, Asked, AskedFor, Done
<1>2. \A w \in Workers : job'[w] # Nothing => Executes(job[w])'
  BY DEF ExecutionInv, Executes, NotDone, Is, TriedOut, Asked, AskedFor, Done
<1> QED
  BY <1>1, <1>2 DEF ExecutionInv

LEMMA PendingTyped ==
    ASSUME NEW i \in Request, RequestOK(i), i.kind = "execute"
    PROVE  /\ Pending(i) \in Receipts /\ Pending(i) # Nothing
           /\ Pending(i).status = "PENDING" /\ Pending(i).actor = i.actor
           /\ Pending(i).session = i.session /\ Pending(i).dryRun = i.dryRun
<1>1. i.actor \in Users /\ i.session \in Sessions /\ i.dryRun \in Nat
  BY DEF RequestOK, Request
<1>2. Pending(i) \in Receipts
  BY <1>1 DEF Pending, Receipts
<1> QED
  BY <1>2, ReceiptAssumption DEF Pending


(* A step of an execution that writes its receipt or its success: no other  *)
(* execution with the key is open.                                         *)
LEMMA OwnKeyExecution ==
    ASSUME Typed, ExecutionInv, NEW w \in Workers, NEW i \in Request, i = job[w], i # Nothing, RequestOK(i),
           i.kind = "execute", NEW j, j = job'[w], \A v \in Workers \ {w} : job'[v] = job[v],
           NEW whats \in SUBSET Whats, LogGrows(i, whats), session' = session,
           \A k \in Keys \ {i.key} : receipt'[k] = receipt[k],
           \A v \in Workers \ {w} : job[v] # Nothing /\ Open(job[v]) => job[v].key # i.key,
           Evidenced(i.key)', j # Nothing => Executes(j)' /\ j.key = i.key
    PROVE  ExecutionInv'
<1>1. log \in Seq(LogEntry)
  BY DEF Typed
<1>2. ASSUME NEW k \in Keys PROVE Evidenced(k)'
  <2>1. receipt[k] # Nothing => receipt[k].session \in Sessions
    BY DEF Typed, TypeOK, Receipts
  <2>2. k # i.key => receipt'[k] = receipt[k] /\ Evidenced(k)
    BY DEF ExecutionInv
  <2>3. k # i.key => Evidenced(k)'
    BY <1>1, <2>1, <2>2, EvidencedKept
  <2>4. k = i.key => Evidenced(k)'
    BY DEF Evidenced, NotDone, Unique, Is, TriedOut, Asked, AskedFor, Done
  <2> QED
    BY <2>3, <2>4
<1>3. ASSUME NEW v \in Workers, job'[v] # Nothing PROVE Executes(job[v])'
  <2>1. CASE v = w
    <3>1. Executes(j)'
      BY <1>3, <2>1
    <3> QED
      BY <2>1, <3>1 DEF Executes, TriedOut, Asked, AskedFor, Done
  <2>2. CASE v # w
    <3> SUFFICES ASSUME NEW a, a = job[v] PROVE Executes(job[v])'
      OBVIOUS
    <3>1. /\ job'[v] = a /\ a \in Request /\ a # Nothing /\ RequestOK(a) /\ Executes(a)
          /\ Open(a) => a.key # i.key
      BY <1>3, <2>2 DEF ExecutionInv, Typed
    <3>2. Alike(a, a) /\ (Open(a) => a.key \in Keys \ {i.key})
      BY <3>1 DEF Alike, Open, RequestOK
    <3>3. Executes(a)'
      BY <1>1, <3>1, <3>2, ExecutesKept
    <3> QED
      BY <3>1, <3>3 DEF Executes, TriedOut, Asked, AskedFor, Done
  <2> QED
    BY <2>1, <2>2
<1>4. ASSUME NEW v \in Workers, NEW u \in Workers, job'[v] # Nothing, job'[u] # Nothing,
             Open(job'[v]), Open(job'[u]), job'[v].key = job'[u].key
      PROVE  v = u
  BY <1>4 DEF ExecutionInv
<1> QED
  BY <1>2, <1>3, <1>4 DEF ExecutionInv

LEMMA CreateReceiptExecution ==
    ASSUME Typed, ExecutionInv, NEW w \in Workers, CreateReceipt(w) PROVE ExecutionInv'
<1> SUFFICES ASSUME NEW i, i = job[w] PROVE ExecutionInv'
  OBVIOUS
<1>1. /\ i \in Request /\ i # Nothing /\ RequestOK(i) /\ log \in Seq(LogEntry)
      /\ i.kind = "execute" /\ i.step = "receipt" /\ i.key \in Keys
      /\ log' = log /\ session' = session
      /\ receipt \in [Keys -> Receipts \cup {Nothing}]
  BY DEF CreateReceipt, At, Typed, TypeOK, RequestOK
<1>2. LogGrows(i, Whats) /\ LogGrows(i, Whats \ {"succeeded"})
  BY <1>1 DEF LogGrows
<1>3. \/ Ends(w) /\ receipt' = receipt
      \/ receipt[i.key] = Nothing /\ Goes(w, "effect") /\ receipt' = [receipt EXCEPT ![i.key] = Pending(i)]
  BY DEF CreateReceipt, Pending
<1>4. CASE Ends(w) /\ receipt' = receipt
  BY <1>1, <1>2, <1>4, EndExecution
<1>5. CASE receipt[i.key] = Nothing /\ Goes(w, "effect") /\ receipt' = [receipt EXCEPT ![i.key] = Pending(i)]
  <2> SUFFICES ASSUME NEW j, j = job'[w] PROVE ExecutionInv'
    OBVIOUS
  <2>1. Moved(i, j, "effect") /\ \A v \in Workers \ {w} : job'[v] = job[v]
    BY <1>1, <1>5, GoesJobs DEF AllSteps
  <2>2. TriedOut(i) /\ Asked(i, i.key) /\ NotDone(i.key) /\ Unique(i.key)
    BY <1>1, <1>5 DEF ExecutionInv, Executes, Evidenced
  <2>3. NotDone(i.key)' /\ Unique(i.key)' /\ TriedOut(i)' /\ Asked(i, i.key)'
    BY <1>1, <2>2 DEF NotDone, Unique, Is, TriedOut, Asked, AskedFor
  <2>4. receipt'[i.key] = Pending(i) /\ \A k \in Keys \ {i.key} : receipt'[k] = receipt[k]
    BY <1>1, <1>5
  <2>5. /\ Pending(i) # Nothing /\ Pending(i).status = "PENDING" /\ Pending(i).actor = i.actor
        /\ Pending(i).session = i.session /\ Pending(i).dryRun = i.dryRun
    BY <1>1, PendingTyped
  <2>6. Evidenced(i.key)'
    BY <1>1, <2>3, <2>4, <2>5 DEF Evidenced, TriedOut, Asked, AskedFor
  <2>7. /\ TriedOut(j)' /\ Asked(j, j.key)' /\ j.key = i.key /\ Pending(j) = Pending(i)
        /\ j.step = "effect"
    BY <1>1, <1>2, <2>1, <2>2, MovedKnows
  <2>8. Executes(j)'
    BY <2>3, <2>4, <2>7 DEF Executes, Open, NotDone, Pending
  <2>9. ASSUME NEW v \in Workers \ {w}, job[v] # Nothing, Open(job[v]) PROVE job[v].key # i.key
    <3> SUFFICES ASSUME NEW a, a = job[v] PROVE a.key # i.key
      OBVIOUS
    <3>1. a \in Request /\ RequestOK(a) /\ a.kind = "execute" /\ receipt[a.key] = Pending(a)
      BY <2>9 DEF Typed, ExecutionInv, Executes, Open
    <3> QED
      BY <1>5, <3>1, PendingTyped
  <2> QED
    BY <1>1, <1>2, <2>1, <2>4, <2>6, <2>7, <2>8, <2>9, OwnKeyExecution
<1> QED
  BY <1>3, <1>4, <1>5

LEMMA OthersKeys ==
    ASSUME ExecutionInv, NEW w \in Workers, job[w] # Nothing, Open(job[w])
    PROVE  \A v \in Workers \ {w} : job[v] # Nothing /\ Open(job[v]) => job[v].key # job[w].key
BY DEF ExecutionInv

LEMMA SuccessExecution ==
    ASSUME Typed, ExecutionInv, NEW w \in Workers, RecordSuccess(w) PROVE ExecutionInv'
<1> SUFFICES ASSUME NEW i, i = job[w], NEW j, j = job'[w] PROVE ExecutionInv'
  OBVIOUS
<1>1. /\ i \in Request /\ i # Nothing /\ RequestOK(i) /\ log \in Seq(LogEntry)
      /\ i.kind = "execute" /\ i.step = "succeed" /\ i.key \in Keys
      /\ log' = Append(log, Entry("succeeded", i)) /\ session' = session /\ receipt' = receipt
      /\ Goes(w, "finish")
  BY DEF RecordSuccess, At, Typed, RequestOK, Audit, tables
<1>2. LogGrows(i, Whats) /\ LogGrows(i, {"succeeded"}) /\ {"succeeded"} \in SUBSET Whats
  BY <1>1 DEF LogGrows, Whats
<1>3. /\ TriedOut(i) /\ Asked(i, i.key) /\ Open(i) /\ receipt[i.key] = Pending(i)
      /\ session[i.session] = "revoked" /\ NotDone(i.key) 
  BY <1>1 DEF ExecutionInv, Executes, Open
<1>4. TriedOut(i)' /\ Asked(i, i.key)'
  BY <1>1, <1>2, <1>3, EvidenceKept
<1>5. /\ Pending(i) # Nothing /\ Pending(i).status = "PENDING" /\ Pending(i).actor = i.actor
      /\ Pending(i).session = i.session /\ Pending(i).dryRun = i.dryRun
  BY <1>1, PendingTyped
<1>6. Entry("succeeded", i) \in LogEntry /\ Entry("succeeded", i).what = "succeeded"
      /\ Entry("succeeded", i).key = i.key
  BY <1>1, EntryTyped DEF Entry, Whats
<1>7. Unique(i.key)'
  <2>1. \A n \in DOMAIN log' : Is(n, "succeeded", i.key)' => n \notin DOMAIN log
    BY <1>1, <1>2, <1>3, LogKept DEF NotDone, Is
  <2> QED
    BY <1>1, <1>2, <2>1, LogKept DEF Unique
<1>8. Done(i, i.key)'
  <2> SUFFICES ASSUME NEW n, n = Len(log) + 1 PROVE Done(i, i.key)'
    OBVIOUS
  <2>1. n \in DOMAIN log' /\ Is(n, "succeeded", i.key)' /\ \A m \in DOMAIN log : m < n
    BY <1>1, <1>6, AppendProperties, LenProperties DEF Is
  <2>2. PICK m \in DOMAIN log : AskedFor(i, i.key, m)
    BY <1>3 DEF Asked
  <2>3. m \in DOMAIN log' /\ AskedFor(i, i.key, m)'
    BY <1>1, <1>2, <2>2, LogKept DEF AskedFor, Is
  <2> QED
    BY <1>1, <1>3, <2>1, <2>2, <2>3 DEF Done
<1>9. Evidenced(i.key)'
  BY <1>1, <1>3, <1>4, <1>5, <1>7 DEF Evidenced, TriedOut, Asked, AskedFor
<1>10. Moved(i, j, "finish") /\ \A v \in Workers \ {w} : job'[v] = job[v]
  BY <1>1, GoesJobs DEF AllSteps
<1>11. /\ TriedOut(j)' /\ Asked(j, j.key)' /\ j.key = i.key /\ Pending(j) = Pending(i)
       /\ j.step = "finish" /\ j.session = i.session
  BY <1>1, <1>2, <1>3, <1>10, MovedKnows
<1>12. Done(j, j.key)'
  BY <1>8, <1>10 DEF Done, AskedFor, Moved
<1>13. Executes(j)'
  BY <1>1, <1>3, <1>11, <1>12 DEF Executes, Open, Pending
<1> QED
  BY <1>1, <1>2, <1>3, <1>9, <1>10, <1>11, <1>13, OthersKeys, OwnKeyExecution

LEMMA FinishExecution ==
    ASSUME Typed, ExecutionInv, NEW w \in Workers,
           FinishReceipt(w, "finish", "SUCCEEDED") \/ FinishReceipt(w, "failed", "FAILED")
    PROVE  ExecutionInv' /\ receipt[job[w].key] \in Receipts
<1> SUFFICES ASSUME NEW i, i = job[w] PROVE ExecutionInv' /\ receipt[i.key] \in Receipts
  OBVIOUS
<1> SUFFICES ASSUME NEW step \in {"finish", "failed"}, NEW status \in {"SUCCEEDED", "FAILED"},
                    status = "SUCCEEDED" => step = "finish", FinishReceipt(w, step, status)
             PROVE  ExecutionInv' /\ receipt[i.key] \in Receipts
  OBVIOUS
<1>1. /\ i \in Request /\ i # Nothing /\ RequestOK(i) /\ log \in Seq(LogEntry)
      /\ i.kind = "execute" /\ i.step = step /\ i.key \in Keys
      /\ log' = log /\ session' = session
      /\ receipt \in [Keys -> Receipts \cup {Nothing}]
      /\ receipt' = [receipt EXCEPT ![i.key].status = status]
      /\ Ends(w)
  BY DEF FinishReceipt, At, Typed, TypeOK, RequestOK
<1>2. LogGrows(i, Whats)
  BY <1>1 DEF LogGrows
<1>3. /\ TriedOut(i) /\ Asked(i, i.key) /\ Open(i) /\ receipt[i.key] = Pending(i)
      /\ step = "finish" => Done(i, i.key)
      /\ Unique(i.key)
  BY <1>1 DEF ExecutionInv, Executes, Open, Evidenced
<1>4. receipt[i.key] \in Receipts
  BY <1>1, <1>3, PendingTyped
<1> SUFFICES ASSUME NEW r, r = [Pending(i) EXCEPT !.status = status] PROVE ExecutionInv'
  BY <1>4
<1>5. /\ r \in Receipts /\ r.status = status /\ r.actor = i.actor /\ r.session = i.session
      /\ r.dryRun = i.dryRun /\ r # Nothing
  <2>1. /\ Pending(i) \in Receipts /\ Pending(i).actor = i.actor
        /\ Pending(i).session = i.session /\ Pending(i).dryRun = i.dryRun
    BY <1>1, PendingTyped
  <2> SUFFICES ASSUME NEW q \in Receipts, q = Pending(i)
               PROVE  /\ r \in Receipts /\ r.status = status /\ r.actor = i.actor /\ r.session = i.session
                      /\ r.dryRun = i.dryRun /\ r # Nothing
    BY <2>1
  <2>2. r = [q EXCEPT !.status = status]
    OBVIOUS
  <2>3. r \in Receipts /\ r.status = status /\ r.actor = q.actor /\ r.session = q.session /\ r.dryRun = q.dryRun
    BY <2>2 DEF Receipts
  <2> QED
    BY <2>1, <2>3, ReceiptAssumption
<1>6. receipt'[i.key] = r /\ \A k \in Keys \ {i.key} : receipt'[k] = receipt[k]
  BY <1>1, <1>3
<1>7. TriedOut(i)' /\ Asked(i, i.key)' /\ Unique(i.key)' /\ (step = "finish" => Done(i, i.key)')
  BY <1>1, <1>3 DEF TriedOut, Asked, AskedFor, Unique, Is, Done
<1>8. TriedOut(r)' /\ Asked(r, i.key)' /\ (step = "finish" => Done(r, i.key)')
  BY <1>5, <1>7 DEF TriedOut, Asked, AskedFor, Done
<1>9. Evidenced(i.key)'
  <2>1. TriedOut(receipt[i.key])' /\ Asked(receipt[i.key], i.key)'
    BY <1>6, <1>8 DEF TriedOut, Asked, AskedFor
  <2>2. step = "finish" => Done(receipt[i.key], i.key)'
    BY <1>6, <1>8 DEF Done, AskedFor
  <2> QED
    BY <1>5, <1>6, <1>7, <2>1, <2>2 DEF Evidenced
<1>10. job'[w] = Nothing /\ \A v \in Workers \ {w} : job'[v] = job[v]
  BY <1>1, EndsTyped
<1> QED
  BY <1>1, <1>2, <1>3, <1>6, <1>9, <1>10, OthersKeys, OwnKeyExecution


(***************************************************************************)
(* The theorems.                                                           *)
(***************************************************************************)
AdministrationInv == Typed /\ AuthorityInv /\ ExecutionInv

LEMMA InitInv == ASSUME Init PROVE AdministrationInv
<1>1. Typed
  BY InitTyped
<1>2. log = <<>> /\ DOMAIN log = {}
  BY DEF Init
<1>3. \A w \in Workers : job[w] = Nothing
  BY DEF Init
<1>4. AuthorityInv
  <2>1. LogTells
    BY <1>2 DEF Init, LogTells, Told
  <2>2. LogExplained /\ OneFirst
    BY <1>2, <1>3 DEF Init, LogExplained, OneFirst
  <2> QED
    BY <1>3, <2>1, <2>2 DEF AuthorityInv
<1>5. ExecutionInv
  BY <1>2, <1>3 DEF Init, ExecutionInv, Evidenced, NotDone, Unique
<1> QED
  BY <1>1, <1>4, <1>5 DEF AdministrationInv

LEMMA StepInv == ASSUME AdministrationInv, Next PROVE AdministrationInv'
<1>1. Typed /\ AuthorityInv /\ ExecutionInv
  BY DEF AdministrationInv
<1>2. CASE StartStep
  <2>1. PICK w \in Workers : \E j : Arrives(w, j)
    BY <1>2, StartJobs
  <2>2. PICK j : Arrives(w, j)
    BY <2>1
  <2> QED
    BY <1>1, <2>2, StartTyped, StartAuthority, StartExecutionInv DEF AdministrationInv
<1>3. ASSUME NEW w \in Workers, PlainStep(w) PROVE AdministrationInv'
  <2>1. ExecutionInv'
    BY <1>1, <1>3, PlainExecution, SuccessExecution
  <2> QED
    BY <1>1, <1>3, <2>1, PlainTyped, PlainAuthority DEF AdministrationInv
<1>4. ASSUME NEW w \in Workers, CreateOwnerAccount(w) PROVE AdministrationInv'
  BY <1>1, <1>4, CreateTyped, CreateAuthority, OtherExecution DEF AdministrationInv
<1>5. ASSUME NEW w \in Workers, FindManagers(w) PROVE AdministrationInv'
  BY <1>1, <1>5, FindTyped, FindAuthority, OtherExecution DEF AdministrationInv
<1>6. ASSUME NEW w \in Workers, WritePermission(w) PROVE AdministrationInv'
  BY <1>1, <1>6, WriteTyped, WriteAuthority, OtherExecution DEF AdministrationInv
<1>7. ASSUME NEW w \in Workers, AuditMutation(w) PROVE AdministrationInv'
  BY <1>1, <1>7, AuditTyped, AuditAuthority, OtherExecution DEF AdministrationInv
<1>8. ASSUME NEW w \in Workers, CreateReceipt(w) PROVE AdministrationInv'
  BY <1>1, <1>8, CreateReceiptTyped, EffectAuthority, CreateReceiptExecution
     DEF AdministrationInv
<1>9. ASSUME NEW w \in Workers, RevokeCompanySession(w) \/ RevokeLegacyAdminSession(w) PROVE AdministrationInv'
  BY <1>1, <1>9, RevokeTyped, EffectAuthority, RevokeExecution DEF AdministrationInv
<1>10. ASSUME NEW w \in Workers,
              FinishReceipt(w, "finish", "SUCCEEDED") \/ FinishReceipt(w, "failed", "FAILED")
       PROVE  AdministrationInv'
  BY <1>1, <1>10, FinishTyped, EffectAuthority, FinishExecution DEF AdministrationInv
<1>11. ASSUME NEW u \in Users, AppointAdmin(u) PROVE AdministrationInv'
  <2>1. UNCHANGED <<session, receipt, log, job>>
    BY <1>11 DEF AppointAdmin
  <2> QED
    BY <1>1, <1>11, <2>1, AppointTyped, AppointAuthority, SameExecution
       DEF AdministrationInv
<1>12. CASE Age
  <2>1. UNCHANGED <<user, permission, session, receipt, log, job, first, unlogged>>
    BY <1>12 DEF Age, tables
  <2> QED
    BY <1>1, <1>12, <2>1, AgeTyped, SameAuthority, SameExecution DEF AdministrationInv
<1>13. \/ StartStep \/ Age \/ \E u \in Users : AppointAdmin(u)
       \/ \E w \in Workers :
            \/ PlainStep(w) \/ CreateOwnerAccount(w) \/ FindManagers(w) \/ WritePermission(w)
            \/ AuditMutation(w) \/ CreateReceipt(w) \/ RevokeCompanySession(w)
            \/ RevokeLegacyAdminSession(w)
            \/ FinishReceipt(w, "finish", "SUCCEEDED") \/ FinishReceipt(w, "failed", "FAILED")
  BY DEF Next, StartStep, PlainStep
<1> QED
  BY <1>2, <1>3, <1>4, <1>5, <1>6, <1>7, <1>8, <1>9, <1>10, <1>11, <1>12, <1>13

LEMMA StutterInv == ASSUME AdministrationInv, UNCHANGED vars PROVE AdministrationInv'
<1>1. UNCHANGED <<user, company, permission, session, receipt, log, old, job, budget, first, unlogged>>
  BY DEF vars, tables
<1>2. Typed'
  BY <1>1 DEF AdministrationInv, Typed, TypeOK
<1> QED
  BY <1>1, <1>2, SameAuthority, SameExecution DEF AdministrationInv

(* The inductive invariant of the administration, for any users, scopes,   *)
(* sessions, keys and number of requests.                                  *)
THEOREM Invariant == Spec => []AdministrationInv
<1>1. Init => AdministrationInv
  BY InitInv
<1>2. AdministrationInv /\ [Next]_vars => AdministrationInv'
  BY StepInv, StutterInv
<1> QED
  BY <1>1, <1>2, PTL DEF Spec

(* The tables, the requests and the log have their types.                  *)
THEOREM TypeCorrect == Spec => []TypeOK
<1>1. AdministrationInv => TypeOK
  BY DEF AdministrationInv, Typed
<1> QED
  BY Invariant, <1>1, PTL

LEMMA AtMostOne == ASSUME NEW S, \A x, y \in S : x = y PROVE Cardinality(S) <= 1 /\ Cardinality(S) \in Nat
<1>1. CASE S = {}
  BY <1>1, FS_EmptySet
<1>2. CASE S # {}
  <2>1. PICK x : S = {x}
    BY <1>2
  <2> QED
    BY <2>1, FS_Singleton
<1> QED
  BY <1>1, <1>2

(* Whoever changed a permission, tried something out or asked for it is     *)
(* shown by the log to have been allowed to.                               *)
THEOREM AuthorityExplained == Spec => []AuthorityIsExplained
<1>1. AdministrationInv => AuthorityIsExplained
  <2> SUFFICES ASSUME AdministrationInv PROVE AuthorityIsExplained
    OBVIOUS
  <2>1. TypeOK /\ LogTells /\ LogExplained /\ OneFirst
    BY DEF AdministrationInv, Typed, AuthorityInv
  <2>2. Cardinality(first) <= 1
    BY <2>1, AtMostOne DEF OneFirst
  <2> QED
    BY <2>1, <2>2 DEF AuthorityIsExplained, LogTells, LogExplained, Explained
<1> QED
  BY <1>1, Invariant, PTL

(* One execution of a key at most, and a receipt of success has its dry     *)
(* run, its request and its effect behind it.                              *)
THEOREM ExecutionsEvidenced == Spec => []ExecutionsAreEvidenced
<1>1. AdministrationInv => ExecutionsAreEvidenced
  <2> SUFFICES ASSUME AdministrationInv, NEW k \in Keys
               PROVE  LET told(what) == {i \in DOMAIN log : log[i].what = what /\ log[i].key = k}
            running == {w \in Workers : \E step \in {"effect", "succeed", "finish", "failed"} :
                            At(w, {"execute"}, step) /\ job[w].key = k}
        IN /\ Cardinality(told("succeeded")) <= 1
           /\ Cardinality(running) <= 1
           /\ running # {} => receipt[k].status = "PENDING"
           /\ receipt[k] # Nothing => LET r == receipt[k] IN
                 /\ log[r.dryRun].what = "dry" /\ log[r.dryRun].actor = r.actor
                 /\ \E i \in told("requested") : r.dryRun < i /\ log[i].actor = r.actor
                 /\ r.status = "SUCCEEDED" =>
                       /\ session[r.session] = "revoked" /\ session[log[r.dryRun].session] = "revoked"
                       /\ \E i \in told("requested"), n \in told("succeeded") :
                             r.dryRun < i /\ i < n /\ log[i].actor = r.actor
    BY DEF ExecutionsAreEvidenced
  <2> DEFINE told(what) == {i \in DOMAIN log : log[i].what = what /\ log[i].key = k}
             running == {w \in Workers : \E step \in {"effect", "succeed", "finish", "failed"} :
                            At(w, {"execute"}, step) /\ job[w].key = k}
             r == receipt[k]
  <2>1. Evidenced(k) /\ ExecutionInv /\ Typed
    BY DEF AdministrationInv, ExecutionInv
  <2>2. Cardinality(told("succeeded")) <= 1
    <3>1. \A i, n \in told("succeeded") : i = n
      BY <2>1 DEF Evidenced, Unique, Is
    <3> HIDE DEF told
    <3> QED
      BY <3>1, AtMostOne
  <2>3. \A w \in running : w \in Workers /\ job[w] # Nothing /\ Open(job[w]) /\ job[w].key = k
    BY DEF At, Open
  <2>4. Cardinality(running) <= 1
    <3>1. \A v, w \in running : v = w
      BY <2>1, <2>3 DEF ExecutionInv
    <3> HIDE DEF running
    <3> QED
      BY <3>1, AtMostOne
  <2>5. running # {} => r.status = "PENDING"
    <3> SUFFICES ASSUME NEW w \in running PROVE r.status = "PENDING"
      OBVIOUS
    <3>1. r = Pending(job[w]) /\ job[w] \in Request
      BY <2>1, <2>3 DEF ExecutionInv, Executes, Open, Typed
    <3> QED
      BY <3>1 DEF Pending
  <2>6. ASSUME r # Nothing
        PROVE  /\ log[r.dryRun].what = "dry" /\ log[r.dryRun].actor = r.actor
               /\ \E i \in told("requested") : r.dryRun < i /\ log[i].actor = r.actor
    BY <2>1, <2>6 DEF Evidenced, TriedOut, Asked, AskedFor, Is
  <2>7. ASSUME r # Nothing, r.status = "SUCCEEDED"
        PROVE  /\ session[r.session] = "revoked" /\ session[log[r.dryRun].session] = "revoked"
               /\ \E i \in told("requested"), n \in told("succeeded") :
                     r.dryRun < i /\ i < n /\ log[i].actor = r.actor
    <3>1. TriedOut(r) /\ Done(r, k)
      BY <2>1, <2>7 DEF Evidenced
    <3> QED
      BY <3>1 DEF TriedOut, Done, AskedFor, Is
  <2> HIDE DEF told, running
  <2> QED
    BY <2>2, <2>4, <2>5, <2>6, <2>7 DEF told, running
<1> QED
  BY <1>1, Invariant, PTL


=============================================================================

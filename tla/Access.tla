-------------------------------- MODULE Access --------------------------------
(***************************************************************************)
(* Who may use a company: the devices, sessions and passwords of its        *)
(* users, and the employees its plan allows (src/backend/src/modules/auth,  *)
(* app, employees, admin; the token storage of the app).                    *)
(*                                                                          *)
(* A request is a job that reads rows, hashes or counts, and writes later;  *)
(* no row is locked in between.  A refresh token is the number of the       *)
(* session and how many tokens the session has had, so the session a token  *)
(* is looked up in has it only while it is the last one.                    *)
(***************************************************************************)
EXTENDS Naturals, FiniteSets

CONSTANTS Owner, Employees, \* the users of the company
          Clients,          \* installations of the app
          Workers,          \* requests that can be under way at once
          MaxDevices, MaxEmployees, \* the limits of the plan
          MaxSessions,      \* session rows, for the model checker only
          Budgets,          \* how many requests of each kind there are, likewise
          Nothing

Users == Employees \cup {Owner}
Sessions == 1 .. MaxSessions
RequestKinds == {"login", "refresh", "logout", "revoke", "expire", "reset",
                 "admit", "disable", "block", "reactivate", "password"}

ASSUME AccessAssumption ==
    /\ MaxDevices \in Nat \ {0} /\ MaxEmployees \in Nat /\ MaxSessions \in Nat
    /\ Owner \notin Employees /\ Nothing \notin Users \cup Clients
    /\ IsFiniteSet(Clients) /\ IsFiniteSet(Employees)
    /\ IsFiniteSet(Workers) /\ Workers # {}
    /\ Budgets \subseteq [RequestKinds -> Nat]

VARIABLES account,    \* the user and its employee profile
          device,     \* the devices of the company
          session,    \* the device sessions
          reset,      \* the password reset token of a user, and whether it was used
          app,        \* the refresh token each client has stored
          job,        \* the request of each worker
          budget,     \* requests still to come
          overlapped, \* history: clients whose requests overlapped, or lost an answer
          closed,     \* history: the password up to which a reset closed sessions
          reactivated \* history: employees let in by the platform administrator

vars == <<account, device, session, reset, app, job, budget,
          overlapped, closed, reactivated>>

Token == [session: Sessions, number: Nat]
SessionRow == [status: {"none", "live", "expired", "revoked"},
               client: Clients \cup {Nothing}, user: Users \cup {Nothing},
               number: Nat, proof: Nat, raced: BOOLEAN]
Phases == {"find", "device", "create", "list", "revoke", "rotate", "answer", "refused",
           "consume", "write"}
Job == [kind: RequestKinds, phase: Phases, user: Users, client: Clients \cup {Nothing},
        token: Token \cup {Nothing}, list: SUBSET Sessions, proof: Nat, admitted: BOOLEAN,
        raced: BOOLEAN]

ASSUME NothingAssumption == Nothing \notin Job

TypeOK ==
    /\ account \in [Users -> [status: {"NONE", "INVITED", "ACTIVE", "DISABLED"},
                              password: Nat, mustChange: BOOLEAN]]
    /\ device \in [Clients -> {"NONE", "ACTIVE", "BLOCKED"}]
    /\ session \in [Sessions -> SessionRow]
    /\ reset \in [Users -> [number: Nat, usable: BOOLEAN]]
    /\ app \in [Clients -> Token \cup {Nothing}]
    /\ job \in [Workers -> Job \cup {Nothing}]
    /\ budget \in [RequestKinds -> Nat]
    /\ overlapped \in [Clients -> BOOLEAN]
    /\ closed \in [Users -> Nat]
    /\ reactivated \in Nat

Init ==
    /\ account = [u \in Users |-> [status |-> IF u = Owner THEN "ACTIVE" ELSE "NONE",
                                   password |-> 0, mustChange |-> FALSE]]
    /\ device = [c \in Clients |-> "NONE"]
    /\ session = [s \in Sessions |-> [status |-> "none", client |-> Nothing, user |-> Nothing,
                                      number |-> 0, proof |-> 0, raced |-> FALSE]]
    /\ reset = [u \in Users |-> [number |-> 0, usable |-> FALSE]]
    /\ app = [c \in Clients |-> Nothing]
    /\ job = [w \in Workers |-> Nothing]
    /\ budget \in Budgets
    /\ overlapped = [c \in Clients |-> FALSE]
    /\ closed = [u \in Users |-> 0]
    /\ reactivated = 0

ActiveDevices == {c \in Clients : device[c] = "ACTIVE"}
Counted == {e \in Employees : account[e].status \in {"ACTIVE", "INVITED"}}
Live(c) == {s \in Sessions : session[s].status = "live" /\ session[s].client = c}
NotRevoked(u) ==
    {s \in Sessions : session[s].status \in {"live", "expired"} /\ session[s].user = u}
OfClient(c) == {w \in Workers : job[w] # Nothing /\ job[w].client = c}

Spend(kind) == budget[kind] > 0 /\ budget' = [budget EXCEPT ![kind] = @ - 1]
Idle(w) == job[w] = Nothing
In(w, kinds, phase) == job[w] # Nothing /\ job[w].kind \in kinds /\ job[w].phase = phase
Goes(w, j) == job' = [job EXCEPT ![w] = j]
Ends(w) == Goes(w, Nothing)
NewJob(kind, phase, u) ==
    [kind |-> kind, phase |-> phase, user |-> u, client |-> Nothing, token |-> Nothing,
     list |-> {}, proof |-> 0, admitted |-> FALSE, raced |-> FALSE]

\* A request of a client begins; the client need not wait for the one before.
Overlaps(c) == overlapped' = [overlapped EXCEPT ![c] = @ \/ OfClient(c) # {}]
Revoked(s) == [session EXCEPT ![s].status = "revoked"]

------------------------------------------------------------------------------
(***************************************************************************)
(* Login.                                                                  *)
(***************************************************************************)

\* The password that was typed is compared with the row that was read.
StartLogin(w, u, c) ==
    /\ Idle(w) /\ Spend("login")
    /\ account[u].status \in {"ACTIVE", "INVITED"}
    /\ Goes(w, [NewJob("login", "device", u) EXCEPT !.client = c, !.proof = account[u].password])
    /\ Overlaps(c)
    /\ UNCHANGED <<account, device, session, reset, app, closed, reactivated>>

\* Mutant: the new device is not counted.
HasRoom_OneMore(u) == Cardinality(ActiveDevices) <= MaxDevices

HasRoom(u) ==
    \/ ActiveDevices = {} /\ u = Owner
    \/ Cardinality(ActiveDevices) < MaxDevices

\* A client that is new is counted; the device is created by the next step.
FindDevice(w) ==
    LET j == job[w] IN
    /\ In(w, {"login", "refresh"}, "device")
    /\ CASE device[j.client] = "ACTIVE" ->
              Goes(w, [j EXCEPT !.phase = IF j.kind = "login" THEN "list" ELSE "rotate"])
         [] device[j.client] = "BLOCKED" -> Goes(w, [j EXCEPT !.phase = "refused"])
         [] device[j.client] = "NONE" ->
              Goes(w, [j EXCEPT !.phase = "create", !.admitted = HasRoom(j.user)])
    /\ UNCHANGED <<account, device, session, reset, app, budget, overlapped, closed,
                   reactivated>>

\* A second creation for one client meets the unique key and fails the request.
CreateDevice(w) ==
    LET j == job[w] IN
    /\ In(w, {"login"}, "create")
    /\ IF device[j.client] # "NONE" THEN Ends(w) /\ UNCHANGED device
       ELSE /\ device' = [device EXCEPT ![j.client] = IF j.admitted THEN "ACTIVE" ELSE "BLOCKED"]
            /\ IF j.admitted THEN Goes(w, [j EXCEPT !.phase = "list"]) ELSE Ends(w)
    /\ UNCHANGED <<account, session, reset, app, budget, overlapped, closed, reactivated>>

\* The sessions of the client that are live now.
ListClient(w) ==
    /\ In(w, {"login"}, "list")
    /\ Goes(w, [job[w] EXCEPT !.phase = "revoke", !.list = Live(job[w].client)])
    /\ UNCHANGED <<account, device, session, reset, app, budget, overlapped, closed,
                   reactivated>>

RevokeListed(w) ==
    /\ In(w, {"login", "reset"}, "revoke")
    /\ \E s \in job[w].list :
          /\ session' = Revoked(s)
          /\ Goes(w, [job[w] EXCEPT !.list = @ \ {s}])
    /\ UNCHANGED <<account, device, reset, app, budget, overlapped, closed, reactivated>>

OpenSession(w) ==
    LET j == job[w] IN
    /\ In(w, {"login"}, "revoke") /\ j.list = {}
    /\ \E s \in Sessions :
          /\ session[s].status = "none" /\ \A t \in 1 .. s - 1 : session[t].status # "none"
          /\ session' = [session EXCEPT ![s] = [status |-> "live", client |-> j.client,
                            user |-> j.user, number |-> 1, proof |-> j.proof, raced |-> j.raced]]
          /\ Goes(w, [j EXCEPT !.phase = "answer", !.token = [session |-> s, number |-> 1]])
    /\ UNCHANGED <<account, device, reset, app, budget, overlapped, closed, reactivated>>

------------------------------------------------------------------------------
(***************************************************************************)
(* Refresh of the tokens.  Every request of the app that is answered 401    *)
(* starts one, with the token stored at that moment.                        *)
(***************************************************************************)

StartRefresh(w, c) ==
    /\ Idle(w) /\ Spend("refresh")
    /\ app[c] # Nothing
    /\ Goes(w, [NewJob("refresh", "find", session[app[c].session].user) EXCEPT
                   !.client = c, !.token = app[c]])
    /\ Overlaps(c)
    /\ UNCHANGED <<account, device, session, reset, app, closed, reactivated>>

FindSession(w) ==
    LET row == session[job[w].token.session] IN
    /\ In(w, {"refresh"}, "find")
    /\ Goes(w, [job[w] EXCEPT !.phase = IF row.number = job[w].token.number /\ row.status = "live"
                                        THEN "device" ELSE "refused"])
    /\ UNCHANGED <<account, device, session, reset, app, budget, overlapped, closed,
                   reactivated>>

\* Mutant: the revocation is cleared with the new token.
Rotate_Revives(w) ==
    LET s == job[w].token.session IN
    /\ In(w, {"refresh"}, "rotate")
    /\ session' = [session EXCEPT ![s].number = @ + 1, ![s].status = "live"]
    /\ Goes(w, [job[w] EXCEPT !.phase = "answer",
                              !.token = [session |-> s, number |-> session[s].number + 1]])
    /\ UNCHANGED <<account, device, reset, app, budget, overlapped, closed, reactivated>>

\* The session is updated by its id: it gets a new token and a new expiry, whatever happened to
\* it since it was found.
Rotate(w) ==
    LET s == job[w].token.session IN
    /\ In(w, {"refresh"}, "rotate")
    /\ session' = [session EXCEPT ![s] =
                      [@ EXCEPT !.number = session[s].number + 1,
                                !.status = IF session[s].status = "expired" THEN "live"
                                           ELSE session[s].status]]
    /\ Goes(w, [job[w] EXCEPT !.phase = "answer",
                              !.token = [session |-> s, number |-> session[s].number + 1]])
    /\ UNCHANGED <<account, device, reset, app, budget, overlapped, closed, reactivated>>

\* Mutant: only the access token of a refresh is saved.
Deliver_LoginOnly(w) ==
    LET c == job[w].client IN
    /\ In(w, {"login", "refresh"}, "answer")
    /\ Ends(w)
    /\ app' = IF job[w].kind = "login" THEN [app EXCEPT ![c] = job[w].token] ELSE app
    /\ UNCHANGED <<account, device, session, reset, budget, overlapped, closed, reactivated>>

\* The client saves the tokens; it may also have given up, or never get the answer.
Deliver(w) ==
    LET c == job[w].client IN
    /\ In(w, {"login", "refresh"}, "answer")
    /\ Ends(w)
    /\ \/ /\ app' = [app EXCEPT ![c] = job[w].token]
          /\ overlapped' = [overlapped EXCEPT ![c] =
                               IF job[w].kind = "login" THEN OfClient(c) # {w} ELSE @]
       \/ UNCHANGED app /\ overlapped' = [overlapped EXCEPT ![c] = TRUE]
    /\ UNCHANGED <<account, device, session, reset, budget, closed, reactivated>>

\* A refused refresh clears what is stored, a refused login does not.
Refuse(w) ==
    /\ In(w, {"login", "refresh"}, "refused")
    /\ app' = IF job[w].kind = "refresh" THEN [app EXCEPT ![job[w].client] = Nothing] ELSE app
    /\ Ends(w)
    /\ UNCHANGED <<account, device, session, reset, budget, overlapped, closed,
                   reactivated>>

------------------------------------------------------------------------------
(***************************************************************************)
(* The end of sessions.                                                    *)
(***************************************************************************)

Logout(c) ==
    /\ Spend("logout")
    /\ app[c] # Nothing
    /\ session[app[c].session].status = "live"
    /\ session' = Revoked(app[c].session)
    /\ app' = [app EXCEPT ![c] = Nothing]
    /\ UNCHANGED <<account, device, reset, job, overlapped, closed, reactivated>>

\* By the user from another device, or by an administrator.
RevokeSession(s) ==
    /\ Spend("revoke")
    /\ session[s].status \in {"live", "expired"}
    /\ session' = Revoked(s)
    /\ UNCHANGED <<account, device, reset, app, job, overlapped, closed, reactivated>>

Expire(s) ==
    /\ Spend("expire")
    /\ session[s].status = "live"
    /\ session' = [session EXCEPT ![s].status = "expired"]
    /\ UNCHANGED <<account, device, reset, app, job, overlapped, closed, reactivated>>

------------------------------------------------------------------------------
(***************************************************************************)
(* Password reset.                                                         *)
(***************************************************************************)

\* One transaction deletes the tokens of the user and creates a new one.
ForgotPassword(u) ==
    /\ Spend("reset")
    /\ account[u].status # "NONE"
    /\ reset' = [reset EXCEPT ![u] = [number |-> @.number + 1, usable |-> TRUE]]
    /\ UNCHANGED <<account, device, session, app, job, overlapped, closed, reactivated>>

StartReset(w, u) ==
    /\ Idle(w)
    /\ reset[u].usable
    /\ Goes(w, [NewJob("reset", "consume", u) EXCEPT !.proof = reset[u].number])
    /\ UNCHANGED <<account, device, session, reset, app, budget, overlapped, closed,
                   reactivated>>

\* The token is consumed on condition that it still can be, with the new password.
ConsumeToken(w) ==
    LET u == job[w].user IN
    /\ In(w, {"reset"}, "consume")
    /\ IF reset[u] = [number |-> job[w].proof, usable |-> TRUE]
       THEN /\ reset' = [reset EXCEPT ![u].usable = FALSE]
            /\ account' = [account EXCEPT ![u].password = @ + 1]
            /\ Goes(w, [job[w] EXCEPT !.phase = "list", !.proof = account[u].password + 1])
       ELSE Ends(w) /\ UNCHANGED <<reset, account>>
    /\ UNCHANGED <<device, session, app, budget, overlapped, closed, reactivated>>

\* After the transaction, the sessions of the user are listed and revoked one by one.  A login
\* that compared an older password and has not opened its session is marked as raced.
ListUser(w) ==
    LET u == job[w].user IN
    /\ In(w, {"reset"}, "list")
    /\ job' = [v \in Workers |->
                  IF v = w THEN [job[w] EXCEPT !.phase = "revoke", !.list = NotRevoked(u)]
                  ELSE IF job[v] # Nothing /\ job[v].kind = "login" /\ job[v].user = u
                          /\ job[v].proof < job[w].proof
                  THEN [job[v] EXCEPT !.raced = TRUE]
                  ELSE job[v]]
    /\ UNCHANGED <<account, device, session, reset, app, budget, overlapped, closed,
                   reactivated>>

FinishReset(w) ==
    LET j == job[w] IN
    /\ In(w, {"reset"}, "revoke") /\ j.list = {}
    /\ closed' = [closed EXCEPT ![j.user] = IF @ > j.proof THEN @ ELSE j.proof]
    /\ Ends(w)
    /\ UNCHANGED <<account, device, session, reset, app, budget, overlapped, reactivated>>

------------------------------------------------------------------------------
(***************************************************************************)
(* Employees.                                                              *)
(***************************************************************************)

\* An employee is created, enabled, invited or made active: one who did not count is counted.
StartAdmit(w, e) ==
    /\ Idle(w) /\ Spend("admit")
    /\ e \in Counted \/ Cardinality(Counted) < MaxEmployees
    /\ Goes(w, NewJob("admit", "write", e))
    /\ UNCHANGED <<account, device, session, reset, app, overlapped, closed, reactivated>>

Admit(w) ==
    /\ In(w, {"admit"}, "write")
    /\ \E status \in {"ACTIVE", "INVITED"} :
          account' = [account EXCEPT ![job[w].user].status = status]
    /\ Ends(w)
    /\ UNCHANGED <<device, session, reset, app, budget, overlapped, closed, reactivated>>

\* By the owner.  No session is revoked.
Disable(e) ==
    /\ Spend("disable")
    /\ e \in Counted
    /\ account' = [account EXCEPT ![e].status = "DISABLED"]
    /\ UNCHANGED <<device, session, reset, app, job, overlapped, closed, reactivated>>

\* The administrator's actions check the employee first and write in a transaction of their
\* own, whatever happened in between; who is let back in is not counted.
StartAccessBlock(w, e) ==
    /\ Idle(w) /\ Spend("block")
    /\ account[e].status \notin {"NONE", "DISABLED"}
    /\ Goes(w, NewJob("block", "write", e))
    /\ UNCHANGED <<account, device, session, reset, app, overlapped, closed, reactivated>>

BlockAccess(w) ==
    /\ In(w, {"block"}, "write")
    /\ account' = [account EXCEPT ![job[w].user].status = "DISABLED"]
    /\ Ends(w)
    /\ UNCHANGED <<device, session, reset, app, budget, overlapped, closed, reactivated>>

StartAccessReactivate(w, e) ==
    /\ Idle(w) /\ Spend("reactivate")
    /\ account[e].status = "DISABLED"
    /\ Goes(w, NewJob("reactivate", "write", e))
    /\ UNCHANGED <<account, device, session, reset, app, overlapped, closed, reactivated>>

ReactivateAccess(w) ==
    /\ In(w, {"reactivate"}, "write")
    /\ account' = [account EXCEPT ![job[w].user].status = "ACTIVE"]
    /\ reactivated' = reactivated + 1
    /\ Ends(w)
    /\ UNCHANGED <<device, session, reset, app, budget, overlapped, closed>>

\* A temporary password is hashed between the test of the status and the transaction, which
\* makes the employee active.
StartTemporaryPassword(w, e) ==
    /\ Idle(w) /\ Spend("password")
    /\ e \in Counted
    /\ Goes(w, NewJob("password", "write", e))
    /\ UNCHANGED <<account, device, session, reset, app, overlapped, closed, reactivated>>

WriteTemporaryPassword(w) ==
    /\ In(w, {"password"}, "write")
    /\ account' = [account EXCEPT ![job[w].user] =
                      [status |-> "ACTIVE", password |-> @.password + 1, mustChange |-> TRUE]]
    /\ Ends(w)
    /\ UNCHANGED <<device, session, reset, app, budget, overlapped, closed, reactivated>>

\* An employee with a temporary password has to choose one before anything else.
ChangeInitialPassword(u) ==
    /\ account[u].mustChange
    /\ account' = [account EXCEPT ![u] =
                      [status |-> IF @.status = "DISABLED" THEN @.status ELSE "ACTIVE",
                       password |-> @.password + 1, mustChange |-> FALSE]]
    /\ UNCHANGED <<device, session, reset, app, job, budget, overlapped, closed,
                   reactivated>>

\* The server restarts, or the connection to the database is lost.
RequestDies(w) ==
    /\ ~Idle(w)
    /\ Ends(w)
    /\ overlapped' = [c \in Clients |-> overlapped[c] \/ job[w].client = c]
    /\ UNCHANGED <<account, device, session, reset, app, budget, closed, reactivated>>

------------------------------------------------------------------------------
Step(w) ==
    \/ FindDevice(w) \/ CreateDevice(w) \/ ListClient(w) \/ RevokeListed(w) \/ OpenSession(w)
    \/ FindSession(w) \/ Rotate(w) \/ Deliver(w) \/ Refuse(w)
    \/ ConsumeToken(w) \/ ListUser(w) \/ FinishReset(w)
    \/ Admit(w) \/ BlockAccess(w) \/ ReactivateAccess(w) \/ WriteTemporaryPassword(w)

Request(w) ==
    \/ \E u \in Users, c \in Clients : StartLogin(w, u, c)
    \/ \E c \in Clients : StartRefresh(w, c)
    \/ \E u \in Users : StartReset(w, u)
    \/ \E e \in Employees :
          \/ StartAdmit(w, e) \/ StartTemporaryPassword(w, e)
          \/ StartAccessBlock(w, e) \/ StartAccessReactivate(w, e)

Next ==
    \/ \E w \in Workers : Step(w) \/ Request(w) \/ RequestDies(w)
    \/ \E c \in Clients : Logout(c)
    \/ \E s \in Sessions : RevokeSession(s) \/ Expire(s)
    \/ \E u \in Users : ForgotPassword(u) \/ ChangeInitialPassword(u)
    \/ \E e \in Employees : Disable(e)

Spec == Init /\ [][Next]_vars

------------------------------------------------------------------------------
(***************************************************************************)
(* What access promises.                                                   *)
(***************************************************************************)

\* The limits hold but for what is counted at the same time: the devices of the plan, its
\* employees (and those the administrator lets in), and one live session of a client, which a
\* login replaces, however logins, refreshes, revocations and expiries mix.
LimitsHold ==
    /\ TypeOK
    /\ Cardinality(ActiveDevices) + 1 <= MaxDevices + Cardinality(Workers)
    /\ Cardinality(Counted) + 1 <= MaxEmployees + Cardinality(Workers) + reactivated
    /\ \A c \in Clients : Cardinality(Live(c)) <= Cardinality(Workers)

\* After a password reset ended, no session lives that an older password opened, but for a login
\* that was under way when the reset listed the sessions.  A refresh under way revives none.
OldPasswordIsOut ==
    \A s \in Sessions :
        LET row == session[s] IN
        row.status = "live" /\ row.proof < closed[row.user] => row.raced

\* A client that waits for each answer and gets it has a token that its session knows.
StoredTokenIsCurrent ==
    \A c \in Clients :
        app[c] # Nothing /\ ~overlapped[c] /\ OfClient(c) = {} =>
            \/ session[app[c].session].number = app[c].number
            \/ session[app[c].session].status = "revoked"
==============================================================================

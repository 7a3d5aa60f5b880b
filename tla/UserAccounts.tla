---------------------------- MODULE UserAccounts ----------------------------
(***************************************************************************)
(* User accounts, sessions and password reset links (libs/user_auth). A    *)
(* request is authenticated by loading its session and then its account,   *)
(* works on that copy of the row, and saves the whole row: loads and saves *)
(* are transactions of their own, and so is the revocation of sessions     *)
(* that follows. Display names and logs are left out; there is no clock,   *)
(* so any session or link may expire at any time.                          *)
(***************************************************************************)
EXTENDS Naturals, GovernanceCatalog

CONSTANTS
  UserIds, Tokens, ResetIds, \* random values, never handed out twice
  Emails, Secrets,           \* addresses; passwords strong enough to be stored
  FirstAdmin,                \* an account the operator made an administrator
  FirstEmail, FirstSecret,   \*   of, as it was registered
  Threads,                   \* request threads of the server process
  Setups,                    \* bound: the ways the application is put together
  NewRows, Edits,            \* bounds: accounts and edits administrators submit
  NoUser, NoToken, NoReset,  \* of a request without one
  Ended                      \* a session that was revoked or has expired

Roles  == {"user", "admin"}
Levels == 1..2
Stages == {"unborn", "stored", "deleted"}

\* A row of auth_users. Blank stands for the lack of one.
Row == [is: Stages, email: Emails, secret: Secrets, active: BOOLEAN,
        verified: BOOLEAN, role: Roles, level: Levels]

\* User.register.
Registered(e, s) == [is |-> "stored", email |-> e, secret |-> s, active |-> TRUE,
                     verified |-> FALSE, role |-> "user", level |-> 1]

Blank == [Registered(FirstEmail, FirstSecret) EXCEPT !.is = "unborn"]

Administrator ==
  [Registered(FirstEmail, FirstSecret) EXCEPT !.verified = TRUE, !.role = "admin", !.level = 2]

ASSUME AccountAssumption ==
  /\ FirstAdmin \in UserIds /\ FirstEmail \in Emails /\ FirstSecret \in Secrets
  /\ {NoUser, Ended} \cap UserIds = {} /\ NoUser # Ended
  /\ NoToken \notin Tokens /\ NoReset \notin ResetIds

\* create_app: whether the reset links are kept in Postgres (the backend keeps
\* them in memory), and whether a governance checker authorizes the
\* administrators (the backend gives none).
Setup == [persistent: BOOLEAN, governed: BOOLEAN]

ASSUME SetupAssumption == Setups \subseteq Setup

\* AdminUserUpdateRequest, with what it leaves out filled in from the row.
Edit == [email: Emails, role: Roles, level: Levels, active: BOOLEAN]

ASSUME BodyAssumption == /\ NewRows \subseteq {r \in Row : r.is = "stored"}
                         /\ Edits \subseteq Edit

VARIABLES
  setup,    \* how the application is put together
  users,    \* the table of accounts
  sessions, \* token -> its user; NoUser before it is issued
  resets,   \* link -> its user, and whether it can still be used
  thread,   \* what each request thread is doing
  changed,  \* history: how often each link has changed a password
  granted   \* history: accounts an administrator has made administrators

vars == <<setup, users, sessions, resets, thread, changed, granted>>

Reset == [user: UserIds \cup {NoUser}, is: {"unborn", "open", "spent"}]

\* A request: the account it is authenticated as, the account it works on with
\* the row it has loaded, and what remains to be done once that row is saved.
Request == [at: {"idle", "known", "acting", "save", "remove", "revoke", "login", "claim", "load"},
            actor: UserIds \cup {NoUser}, user: UserIds \cup {NoUser}, row: Row,
            then: {"idle", "revoke"}, token: Tokens \cup {NoToken},
            reset: ResetIds \cup {NoReset}, secret: Secrets]

Idle == [at |-> "idle", actor |-> NoUser, user |-> NoUser, row |-> Blank, then |-> "idle",
         token |-> NoToken, reset |-> NoReset, secret |-> FirstSecret]

At(t, p)   == thread[t].at = p
Goto(t, r) == thread' = [thread EXCEPT ![t] = r]
Leave(t)   == Goto(t, Idle)

Stored(u)  == users[u].is = "stored"
Free(e)    == \A u \in UserIds : Stored(u) => users[u].email # e
\* An id that no account has, and no request is about to give to one.
Fresh(u)   == users[u].is = "unborn" /\ \A t \in Threads : thread[t].user # u

\* Mutant: whoever has a session is let through.
AuthorizedAnyone(t, action) == At(t, "acting")

\* _authorize_admin_action, on the copy of the actor's row.
Authorized(t, action) ==
  /\ At(t, "acting")
  /\ LET me == thread[t].row IN
     IF setup.governed THEN Permits(me.role, me.level, action) ELSE me.role = "admin"

\* What a request that works on user u saves, and what it does next.
Saving(t, u, row, then) ==
  [thread[t] EXCEPT !.at = "save", !.user = u, !.row = row, !.then = then]

-----------------------------------------------------------------------------
(* Routes without a session (app.py)                                       *)

\* register: the address is looked up, then the new row saved.
Register(t, u, e, s) ==
  /\ At(t, "idle")
  /\ Free(e) /\ Fresh(u)
  /\ Goto(t, Saving(t, u, Registered(e, s), "idle"))
  /\ UNCHANGED <<setup, users, sessions, resets, changed, granted>>

\* login, up to the session. The session is saved later, without another look
\* at the account.
LoginCheck(t, u, s) ==
  /\ At(t, "idle")
  /\ Stored(u)
  /\ users[u].secret = s /\ users[u].verified /\ users[u].active
  /\ Goto(t, [Idle EXCEPT !.at = "login", !.user = u, !.row = users[u]])
  /\ UNCHANGED <<setup, users, sessions, resets, changed, granted>>

LoginSave(t, k) ==
  /\ At(t, "login")
  /\ sessions[k] = NoUser
  /\ sessions' = [sessions EXCEPT ![k] = thread[t].user]
  /\ Leave(t)
  /\ UNCHANGED <<setup, users, resets, changed, granted>>

\* verify_email; resend_verify_email changes nothing.
VerifyEmail(t, u) ==
  /\ At(t, "idle")
  /\ Stored(u)
  /\ Goto(t, Saving(t, u, [users[u] EXCEPT !.verified = TRUE], "idle"))
  /\ UNCHANGED <<setup, users, sessions, resets, changed, granted>>

-----------------------------------------------------------------------------
(* Password reset links (password_reset.py, password_reset_postgres.py)    *)

\* request_password_reset: a link that is not refused by the rate limit.
IssueReset(u, r) ==
  /\ Stored(u)
  /\ resets[r].is = "unborn"
  /\ resets' = [resets EXCEPT ![r] = [user |-> u, is |-> "open"]]
  /\ UNCHANGED <<setup, users, sessions, thread, changed, granted>>

\* consume reads the link ...
LookReset(t, r, s) ==
  /\ At(t, "idle")
  /\ resets[r].is = "open"
  /\ Goto(t, [Idle EXCEPT !.at = "claim", !.reset = r, !.secret = s, !.user = resets[r].user])
  /\ UNCHANGED <<setup, users, sessions, resets, changed, granted>>

\* Mutant: the update does not ask that the link is still unused.
ClaimAny(t) ==
  /\ At(t, "claim")
  /\ resets' = [resets EXCEPT ![thread[t].reset].is = "spent"]
  /\ Goto(t, [thread[t] EXCEPT !.at = "load"])
  /\ UNCHANGED <<setup, users, sessions, changed, granted>>

\* ... and takes it: the database updates a link only while it is unused,
\* the dictionary drops it whether or not it is still there.
ClaimReset(t) ==
  /\ At(t, "claim")
  /\ resets' = [resets EXCEPT ![thread[t].reset].is = "spent"]
  /\ IF setup.persistent /\ resets[thread[t].reset].is # "open"
     THEN Leave(t)
     ELSE Goto(t, [thread[t] EXCEPT !.at = "load"])
  /\ UNCHANGED <<setup, users, sessions, changed, granted>>

\* Mutant: a reset leaves the sessions alone.
LoadKeeping(t) ==
  /\ At(t, "load")
  /\ LET u == thread[t].user IN
     /\ Stored(u)
     /\ Goto(t, Saving(t, u, [users[u] EXCEPT !.secret = thread[t].secret], "idle"))
  /\ UNCHANGED <<setup, users, sessions, resets, changed, granted>>

\* confirm_password_reset with the link taken: the account may be gone and the
\* password too weak, else its row is saved and its sessions revoked.
LoadForReset(t) ==
  /\ At(t, "load")
  /\ LET u == thread[t].user IN
     \/ Leave(t)
     \/ /\ Stored(u)
        /\ Goto(t, Saving(t, u, [users[u] EXCEPT !.secret = thread[t].secret], "revoke"))
  /\ UNCHANGED <<setup, users, sessions, resets, changed, granted>>

ExpireReset(r) ==
  /\ resets[r].is = "open"
  /\ resets' = [resets EXCEPT ![r].is = "spent"]
  /\ UNCHANGED <<setup, users, sessions, thread, changed, granted>>

-----------------------------------------------------------------------------
(* Saving a row, revoking sessions (repository_postgres.py,                *)
(* session_postgres.py)                                                    *)

\* save: an upsert of the whole row, which brings back an account deleted
\* meanwhile. An address another account has raises out of the request.
Save(t) ==
  /\ At(t, "save")
  /\ LET u == thread[t].user
         e == thread[t].row.email IN
     IF \E v \in UserIds \ {u} : Stored(v) /\ users[v].email = e
     THEN Leave(t) /\ UNCHANGED <<users, changed>>
     ELSE /\ users' = [users EXCEPT ![u] = thread[t].row]
          /\ changed' = IF thread[t].reset = NoReset THEN changed
                        ELSE [changed EXCEPT ![thread[t].reset] = @ + 1]
          /\ IF thread[t].then = "idle" THEN Leave(t)
             ELSE Goto(t, [thread[t] EXCEPT !.at = "revoke", !.row = Blank])
  /\ UNCHANGED <<setup, sessions, resets, granted>>

\* delete.
Remove(t) ==
  /\ At(t, "remove")
  /\ users' = [users EXCEPT ![thread[t].user] = [Blank EXCEPT !.is = "deleted"]]
  /\ Goto(t, [thread[t] EXCEPT !.at = "revoke", !.row = Blank])
  /\ UNCHANGED <<setup, sessions, resets, changed, granted>>

\* revoke_by_user. delete_me also revokes the token of the request, which is
\* one of them.
Revoke(t) ==
  /\ At(t, "revoke")
  /\ sessions' = [k \in Tokens |-> IF sessions[k] = thread[t].user THEN Ended ELSE sessions[k]]
  /\ Leave(t)
  /\ UNCHANGED <<setup, users, resets, changed, granted>>

\* get_by_token deletes a session that has expired.
ExpireSession(k) ==
  /\ sessions[k] \in UserIds
  /\ sessions' = [sessions EXCEPT ![k] = Ended]
  /\ UNCHANGED <<setup, users, resets, thread, changed, granted>>

-----------------------------------------------------------------------------
(* Routes of the current user (deps.py, app.py)                            *)

\* get_current_user loads the session ...
Authenticate(t, k) ==
  /\ At(t, "idle")
  /\ sessions[k] \in UserIds
  /\ Goto(t, [Idle EXCEPT !.at = "known", !.actor = sessions[k], !.token = k])
  /\ UNCHANGED <<setup, users, sessions, resets, changed, granted>>

\* ... and the account, active or not.
LoadActor(t) ==
  /\ At(t, "known")
  /\ IF Stored(thread[t].actor)
     THEN Goto(t, [thread[t] EXCEPT !.at = "acting", !.row = users[thread[t].actor]])
     ELSE Leave(t)
  /\ UNCHANGED <<setup, users, sessions, resets, changed, granted>>

Logout(t) ==
  /\ At(t, "acting")
  /\ sessions' = [sessions EXCEPT ![thread[t].token] = Ended]
  /\ Leave(t)
  /\ UNCHANGED <<setup, users, resets, changed, granted>>

\* Mutant: the fields of the body are taken as they come.
UpdateAll(t, e) ==
  /\ At(t, "acting")
  /\ Goto(t, Saving(t, thread[t].actor, [thread[t].row EXCEPT !.email = e, !.role = "admin"], "idle"))
  /\ UNCHANGED <<setup, users, sessions, resets, changed, granted>>

\* update_me: a new address is looked up and the loaded row saved with it.
UpdateMe(t, e) ==
  /\ At(t, "acting")
  /\ \/ e = thread[t].row.email
     \/ \A u \in UserIds \ {thread[t].actor} : Stored(u) => users[u].email # e
  /\ Goto(t, Saving(t, thread[t].actor, [thread[t].row EXCEPT !.email = e], "idle"))
  /\ UNCHANGED <<setup, users, sessions, resets, changed, granted>>

\* update_my_password, given the current password of the loaded row. The
\* caller may keep the other sessions.
ChangePassword(t, s, then) ==
  /\ At(t, "acting")
  /\ s # thread[t].row.secret
  /\ Goto(t, Saving(t, thread[t].actor, [thread[t].row EXCEPT !.secret = s], then))
  /\ UNCHANGED <<setup, users, sessions, resets, changed, granted>>

DeleteMe(t) ==
  /\ At(t, "acting")
  /\ Goto(t, [thread[t] EXCEPT !.at = "remove", !.user = thread[t].actor])
  /\ UNCHANGED <<setup, users, sessions, resets, changed, granted>>

-----------------------------------------------------------------------------
(* Routes of an administrator (app.py, repository_postgres.py)             *)

\* admin_create_user, create_admin_user.
AdminCreate(t, u, row) ==
  /\ Authorized(t, "admin_create_user")
  /\ Free(row.email) /\ Fresh(u)
  /\ granted' = IF row.role = "admin" THEN granted \cup {u} ELSE granted
  /\ Goto(t, Saving(t, u, row, "idle"))
  /\ UNCHANGED <<setup, users, sessions, resets, changed>>

\* Mutant: the level is not checked, and disabling leaves the sessions alone.
AdminUpdateLoosely(t, u, d) ==
  /\ Authorized(t, "users.update")
  /\ Stored(u)
  /\ \A v \in UserIds \ {u} : Stored(v) => users[v].email # d.email
  /\ granted' = IF d.role = "admin" THEN granted \cup {u} ELSE granted
  /\ Goto(t, Saving(t, u, [users[u] EXCEPT !.email = d.email, !.role = d.role,
                             !.level = d.level + 1, !.active = d.active], "idle"))
  /\ UNCHANGED <<setup, users, sessions, resets, changed>>

\* admin_update_user on a fresh copy. Disabling revokes the sessions; saying
\* nothing about an account that is disabled already does not.
AdminUpdate(t, u, d) ==
  /\ Authorized(t, "users.update")
  /\ Stored(u)
  /\ \A v \in UserIds \ {u} : Stored(v) => users[v].email # d.email
  /\ granted' = IF d.role = "admin" THEN granted \cup {u} ELSE granted
  /\ \E then \in IF d.active THEN {"idle"}
                 ELSE IF users[u].active THEN {"revoke"} ELSE {"idle", "revoke"} :
       Goto(t, Saving(t, u, [users[u] EXCEPT !.email = d.email, !.role = d.role,
                               !.level = d.level, !.active = d.active], then))
  /\ UNCHANGED <<setup, users, sessions, resets, changed>>

\* admin_delete_user; admin_list_users and admin_get_user change nothing.
AdminDelete(t, u) ==
  /\ Authorized(t, "users.delete")
  /\ Stored(u)
  /\ Goto(t, [thread[t] EXCEPT !.at = "remove", !.user = u])
  /\ UNCHANGED <<setup, users, sessions, resets, changed, granted>>

-----------------------------------------------------------------------------
\* The process dies and is restarted: links in memory are lost.
Crash ==
  /\ thread' = [t \in Threads |-> Idle]
  /\ resets' = IF setup.persistent THEN resets
               ELSE [r \in ResetIds |-> IF resets[r].is = "open"
                                        THEN [resets[r] EXCEPT !.is = "spent"] ELSE resets[r]]
  /\ UNCHANGED <<setup, users, sessions, changed, granted>>

Init ==
  /\ setup \in Setups
  /\ users = [u \in UserIds |-> IF u = FirstAdmin THEN Administrator ELSE Blank]
  /\ sessions = [k \in Tokens |-> NoUser]
  /\ resets = [r \in ResetIds |-> [user |-> NoUser, is |-> "unborn"]]
  /\ thread = [t \in Threads |-> Idle]
  /\ changed = [r \in ResetIds |-> 0]
  /\ granted = {FirstAdmin}

Visitor(t) ==
  \/ \E u \in UserIds, e \in Emails, s \in Secrets : Register(t, u, e, s)
  \/ \E u \in UserIds, s \in Secrets : LoginCheck(t, u, s)
  \/ \E k \in Tokens : LoginSave(t, k)
  \/ \E u \in UserIds : VerifyEmail(t, u)

ResetRoutes(t) ==
  \/ \E r \in ResetIds, s \in Secrets : LookReset(t, r, s)
  \/ ClaimReset(t) \/ LoadForReset(t)

MyRoutes(t) ==
  \/ \E k \in Tokens : Authenticate(t, k)
  \/ LoadActor(t) \/ Logout(t) \/ DeleteMe(t)
  \/ \E e \in Emails : UpdateMe(t, e)
  \/ \E s \in Secrets, then \in {"idle", "revoke"} : ChangePassword(t, s, then)

AdminRoutes(t) ==
  \/ \E u \in UserIds, row \in NewRows : AdminCreate(t, u, row)
  \/ \E u \in UserIds, d \in Edits : AdminUpdate(t, u, d)
  \/ \E u \in UserIds : AdminDelete(t, u)

Next ==
  \/ \E t \in Threads : \/ Visitor(t) \/ ResetRoutes(t) \/ MyRoutes(t) \/ AdminRoutes(t)
                        \/ Save(t) \/ Remove(t) \/ Revoke(t)
  \/ \E u \in UserIds, r \in ResetIds : IssueReset(u, r)
  \/ \E r \in ResetIds : ExpireReset(r)
  \/ \E k \in Tokens : ExpireSession(k)
  \/ Crash

Spec == Init /\ [][Next]_vars

-----------------------------------------------------------------------------
(* Properties                                                              *)

TypeOK ==
  /\ setup \in Setup
  /\ users \in [UserIds -> Row]
  /\ sessions \in [Tokens -> UserIds \cup {NoUser, Ended}]
  /\ resets \in [ResetIds -> Reset]
  /\ thread \in [Threads -> Request]
  /\ changed \in [ResetIds -> Nat]
  /\ granted \subseteq UserIds

\* A link kept in the database changes a password at most once, however many
\* requests bring it at the same time and whatever dies in between (consume).
ResetOnce == setup.persistent => \A r \in ResetIds : changed[r] <= 1

\* Only an administrator makes an administrator: rows saved from copies that
\* are out of date may give back a role that was taken away, but never one
\* that no administrator has given (update_profile, set_role, save).
AdminsGranted == \A u \in UserIds : Stored(u) /\ users[u].role = "admin" => u \in granted

=============================================================================

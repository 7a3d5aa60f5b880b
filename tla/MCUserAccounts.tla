--------------------------- MODULE MCUserAccounts ---------------------------
(***************************************************************************)
(* UserAccounts and UserPreferences on small instances: a behaviour is     *)
(* about one or the other (part). The accounts, for a bounded number of    *)
(* requests, from a state where an administrator and perhaps a user have   *)
(* logged in. While shared is FALSE no two requests have had one account   *)
(* in hand at the same time, as actor or as target, or the preferences of  *)
(* one user.                                                               *)
(***************************************************************************)
EXTENDS UserAccounts, TLC

CONSTANTS OtherUser, OtherEmail, AdminToken, OtherToken, MaxRequests,
          Leaves, Values, Default, Null, Bodies, MaxVersion, NoDocument

VARIABLES
  part, stored, writer,
  started, \* how many requests have started, at most MaxRequests
  shared,  \* two requests have had an account in hand at once
  cut,     \* accounts whose sessions a request that died should have revoked
  opened,  \* the password each session was opened with
  kept     \* sessions a change of password was told to keep

\* The preferences of one user.
Prefs == INSTANCE UserPreferences WITH Users <- {FirstAdmin}, thread <- writer

ASSUME PreferencesAssumption == Prefs!Parameters
ASSUME OtherAssumption == /\ OtherUser \in UserIds \ {FirstAdmin} /\ OtherEmail \in Emails
                          /\ Setups # {}

accountVars == <<vars, started, cut, opened, kept>>
mcvars      == <<part, accountVars, shared, stored, writer>>

Symmetry == Permutations(Threads)

SetupSet == {[persistent |-> FALSE, governed |-> FALSE],
             [persistent |-> TRUE, governed |-> TRUE]}

RowSet == {[Registered(OtherEmail, FirstSecret) EXCEPT !.role = r, !.verified = TRUE] : r \in Roles}

\* A demotion, a promotion and a disabling.
EditSet == {[email |-> OtherEmail, role |-> "user", level |-> 1, active |-> TRUE],
            [email |-> OtherEmail, role |-> "admin", level |-> 2, active |-> TRUE],
            [email |-> OtherEmail, role |-> "user", level |-> 1, active |-> FALSE]}

BodySet == {[theme |-> "dark"], [account |-> "dark"], [advanced |-> "dark"],
            [account |-> "light", advanced |-> Null]}

MCInit ==
  /\ part \in {"accounts", "preferences"}
  /\ Prefs!Init
  /\ part = "accounts" => stored = [u \in {FirstAdmin} |-> NoDocument]
  /\ setup \in IF part = "accounts" THEN Setups ELSE {CHOOSE x \in Setups : TRUE}
  /\ \E joined \in IF part = "accounts" THEN SUBSET {OtherUser} ELSE {{}} :
       /\ users = [u \in UserIds |->
            CASE u = FirstAdmin -> Administrator
              [] u \in joined -> [Registered(OtherEmail, FirstSecret) EXCEPT !.verified = TRUE]
              [] OTHER -> Blank]
       /\ sessions = [k \in Tokens |-> CASE k = AdminToken -> FirstAdmin
                                         [] k = OtherToken /\ joined # {} -> OtherUser
                                         [] OTHER -> NoUser]
  /\ resets = [r \in ResetIds |-> [user |-> NoUser, is |-> "unborn"]]
  /\ thread = [t \in Threads |-> Idle]
  /\ changed = [r \in ResetIds |-> 0]
  /\ granted = {FirstAdmin}
  /\ started = 0 /\ shared = FALSE /\ cut = {} /\ kept = {}
  /\ opened = [k \in Tokens |-> FirstSecret]

InHand(t) == {thread'[t].actor, thread'[t].user} \ {NoUser}

Starting == {t \in Threads : At(t, "idle") /\ thread'[t].at # "idle"}

\* Requests that end before they have revoked the sessions they should.
Dropped == {t \in Threads : At(t, "revoke") /\ thread'[t].at = "idle" /\ sessions' = sessions}

\* What the history variables take down of a step.
Recorded ==
  /\ shared' = (shared \/ \E t \in Threads : \E v \in Threads \ {t} : InHand(t) \cap InHand(v) # {})
  /\ cut' = cut \cup {u \in UserIds : \E t \in Dropped : /\ thread[t].user = u
                                                        /\ \E k \in Tokens : sessions[k] = u}
  /\ opened' = [k \in Tokens |->
                  IF sessions[k] = NoUser /\ sessions'[k] # NoUser
                  THEN thread[CHOOSE t \in Threads :
                                At(t, "login") /\ thread'[t].at = "idle"].row.secret
                  ELSE opened[k]]
  /\ kept' = kept \cup {k \in Tokens : \E t \in Threads :
                          /\ At(t, "save") /\ sessions[k] = thread[t].user
                          /\ thread[t].reset = NoReset /\ thread[t].then = "idle"
                          /\ users'[thread[t].user].secret # users[thread[t].user].secret}

AccountsNext ==
  /\ Next
  /\ started' = started + (IF Starting = {} THEN 0 ELSE 1)
  /\ started' <= MaxRequests
  /\ Recorded

\* Requests for the preferences of one user, of which one saves or loads while
\* the other is under way.
Meddle ==
  \/ \E t \in Threads : \E v \in Threads \ {t} : "idle" \notin {writer'[t].at, writer'[v].at}
  \/ stored' # stored /\ writer' = writer /\ \E t \in Threads : writer[t].at # "idle"

PreferencesNext ==
  /\ Prefs!Next
  /\ shared' = (shared \/ Meddle)

MCNext ==
  /\ UNCHANGED part
  /\ \/ part = "accounts" /\ AccountsNext /\ UNCHANGED <<stored, writer>>
     \/ part = "preferences" /\ PreferencesNext /\ UNCHANGED accountVars

MCSpec == MCInit /\ [][MCNext]_mcvars

\* A request has yet to revoke the sessions of u, or died before.
Revoking(u) == u \in cut \/ \E t \in Threads : At(t, "revoke") /\ thread[t].user = u

\* Requests that do not share an account leave no session of one that is
\* deleted, disabled or not verified (login, admin_update_user, delete_me,
\* admin_delete_user).
SerialAccess ==
  ~shared => \A k \in Tokens : sessions[k] \in UserIds =>
    LET u == sessions[k] IN
    Revoking(u) \/ (Stored(u) /\ users[u].active /\ users[u].verified)

\* Nor one that was opened with a password changed since, unless its owner
\* asked to keep it (update_my_password, confirm_password_reset).
SerialSecret ==
  ~shared => \A k \in Tokens : sessions[k] \in UserIds =>
    LET u == sessions[k] IN
    Revoking(u) \/ k \in kept \/ ~Stored(u) \/ opened[k] = users[u].secret

\* They change the role, level or state of an account, or delete it, only for
\* one who is an administrator at that moment or, to delete it, its owner. A
\* deleted account stays deleted (_authorize_admin_action, save, delete).
Actor(t, u) ==
  /\ thread[t].user = u /\ thread[t].actor # NoUser
  /\ users[thread[t].actor].role = "admin"

Standing(row) == <<row.role, row.level, row.active>>

SerialAuthority ==
  [][~shared' => \A u \in UserIds :
       /\ users[u].is = "deleted" => users'[u].is = "deleted"
       /\ users[u].is = "stored" /\ users'[u].is = "stored"
            /\ Standing(users'[u]) # Standing(users[u])
          => \E t \in Threads : At(t, "save") /\ Actor(t, u)
       /\ users[u].is = "stored" /\ users'[u].is = "deleted"
          => \E t \in Threads : At(t, "remove") /\ (Actor(t, u) \/ thread[t].actor = u)]_mcvars

\* Requests that do not share an account leave access, passwords and authority
\* as they should be.
SerialAccounts == [](SerialAccess /\ SerialSecret) /\ SerialAuthority

\* While no two requests for the preferences of the user overlap, a patch sets
\* what it names and keeps everything else that is stored, no patch below
\* level 2 changes advanced settings, and a read changes nothing but a document
\* that was missing or old (get_or_create, apply_patch, deep_merge). It speaks
\* of no reset and no import: a reset by any user puts the default for stored
\* advanced settings, an import by one of level 1 null, which
\* user-preferences/spec.md would have the level control as well.
Patched(doc, r, f) == IF f \in DOMAIN r.body THEN r.body[f] ELSE doc.leaf[f]

SerialPatch ==
  [][~shared' => \A t \in Threads : stored' # stored /\ writer'[t] # writer[t] =>
       LET old == stored[writer[t].user]
           new == stored'[writer[t].user] IN
       IF writer[t].at = "settle" THEN old = NoDocument \/ old.version < Prefs!CurrentVersion
       ELSE /\ new.leaf = [f \in Leaves |-> Patched(old, writer[t], f)]
            /\ new.advanced = old.advanced \/ writer[t].level = 2]_mcvars

\* Preferences are never lost nor old again, and patches keep what they do not
\* name.
PreferencesKept == Prefs!StaysMigrated /\ SerialPatch

TypesOK == TypeOK /\ Prefs!TypeOK
=============================================================================

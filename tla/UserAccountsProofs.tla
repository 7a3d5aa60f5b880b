------------------------- MODULE UserAccountsProofs -------------------------
(***************************************************************************)
(* Theorems about UserAccounts. Rows are saved from copies that may be     *)
(* old, so the inductive invariant says of every copy that will be saved   *)
(* what AdminsGranted says of the rows; and that a link of the database    *)
(* is in the hand of one request at most from the moment it is taken until *)
(* the password is changed. Preferences, and requests that share no        *)
(* account, have their invariants in the second half.                      *)
(***************************************************************************)
EXTENDS MCUserAccounts, TLAPS

\* What a request holds fits the step it is at.
Formed(th) ==
  /\ th \in Request
  /\ th.at \in {"save", "remove", "revoke", "login", "claim", "load"} => th.user \in UserIds
  /\ th.at \in {"known", "acting"} => th.actor \in UserIds /\ th.token \in Tokens
  /\ th.at \in {"claim", "load"} => th.reset \in ResetIds
  /\ th.at \in {"idle", "known", "acting"} => th.reset = NoReset

\* A copy that makes an administrator is that of one in g.
Trusted(th, g) ==
  /\ th.at = "save" /\ th.row.role = "admin" => th.user \in g
  /\ th.at = "acting" /\ th.row.role = "admin" => th.actor \in g

ThreadInv == \A t \in Threads : Formed(thread[t]) /\ Trusted(thread[t], granted)

\* A request has taken link r and has yet to change the password.
Bears(th, r) == th.at \in {"load", "save"} /\ th.reset = r

LinksInv ==
  /\ \A r \in ResetIds : resets[r].is = "open" => resets[r].user \in UserIds
  /\ setup.persistent => \A r \in ResetIds :
       /\ changed[r] <= 1
       /\ changed[r] # 0 => resets[r].is = "spent"
       /\ \A t \in Threads : Bears(thread[t], r) =>
            /\ resets[r].is = "spent" /\ changed[r] = 0
            /\ \A v \in Threads \ {t} : ~Bears(thread[v], r)

IInv == TypeOK /\ AdminsGranted /\ ThreadInv /\ LinksInv

-----------------------------------------------------------------------------
(* Lemmas about requests                                                   *)

\* The rows the application makes are rows.
LEMMA RowsMade ==
  /\ Blank \in Row /\ Administrator \in Row /\ [Blank EXCEPT !.is = "deleted"] \in Row
  /\ \A e \in Emails, s \in Secrets : Registered(e, s) \in Row
<1>1. \A e \in Emails, s \in Secrets : Registered(e, s) \in Row
  BY DEF Registered, Row, Stages, Roles, Levels
<1>2. Registered(FirstEmail, FirstSecret) \in Row
  BY <1>1, AccountAssumption
<1>3. Blank \in Row
  BY <1>2 DEF Blank, Row, Stages
<1>4. [Blank EXCEPT !.is = "deleted"] \in Row
  BY <1>3 DEF Row, Stages
<1>5. Administrator \in Row
  <2>1. /\ TRUE \in BOOLEAN /\ "admin" \in Roles /\ 2 \in Levels
    BY DEF Roles, Levels
  <2>2. QED
    BY <1>2, <2>1 DEF Administrator, Row
<1>6. QED BY <1>1, <1>3, <1>4, <1>5

\* An idle request is well formed, makes no administrator and bears no link.
LEMMA IdleFormed ==
  /\ Formed(Idle) /\ \A g : Trusted(Idle, g)
  /\ \A r : ~Bears(Idle, r)
BY RowsMade, AccountAssumption DEF Formed, Trusted, Bears, Idle, Request

\* A request moves to a well-formed state in which it bears no link.
LEMMA Moves ==
  ASSUME IInv, NEW t \in Threads, NEW th, Goto(t, th), Formed(th), Trusted(th, granted'),
         \A r \in ResetIds : ~Bears(th, r),
         granted \subseteq granted', UNCHANGED <<setup, resets, changed>>
  PROVE  thread' \in [Threads -> Request] /\ ThreadInv' /\ LinksInv'
<1>1. thread' \in [Threads -> Request]
  BY DEF IInv, TypeOK, Goto, Formed
<1>2. \A v \in Threads : thread'[v] = IF v = t THEN th ELSE thread[v]
  BY DEF IInv, TypeOK, Goto
<1>3. ThreadInv'
  BY <1>2 DEF IInv, ThreadInv, Trusted
<1>4. LinksInv'
  BY <1>2 DEF IInv, LinksInv
<1>5. QED BY <1>1, <1>3, <1>4

\* A request ends.
LEMMA Ends ==
  ASSUME IInv, NEW t \in Threads, Leave(t), UNCHANGED <<setup, resets, changed, granted>>
  PROVE  thread' \in [Threads -> Request] /\ ThreadInv' /\ LinksInv'
BY IdleFormed, Moves DEF Leave

\* A request that bears no link goes on to save a row of kind Row.
LEMMA Saves ==
  ASSUME IInv, NEW t \in Threads, thread[t].reset = NoReset,
         NEW u \in UserIds, NEW row \in Row, NEW then \in {"idle", "revoke"},
         Goto(t, Saving(t, u, row, then)), granted \subseteq granted',
         row.role = "admin" => u \in granted', UNCHANGED <<setup, resets, changed>>
  PROVE  thread' \in [Threads -> Request] /\ ThreadInv' /\ LinksInv'
<1> DEFINE th == Saving(t, u, row, then)
<1>1. thread[t] \in Request
  BY DEF IInv, TypeOK
<1>2. /\ th \in Request /\ th.at = "save" /\ th.user = u /\ th.row = row /\ th.reset = NoReset
  BY <1>1 DEF Saving, Request
<1>3. Formed(th) /\ Trusted(th, granted')
  BY <1>2 DEF Formed, Trusted
<1>4. \A r \in ResetIds : ~Bears(th, r)
  BY <1>2, AccountAssumption DEF Bears
<1>5. QED BY <1>3, <1>4, Moves

-----------------------------------------------------------------------------
(* The steps                                                               *)

\* An account that is stored, and its row.
LEMMA Rows ==
  ASSUME IInv, NEW u \in UserIds
  PROVE  users[u] \in Row /\ (Stored(u) /\ users[u].role = "admin" => u \in granted)
BY DEF IInv, TypeOK, AdminsGranted

\* What a request at some step holds.
LEMMA Held ==
  ASSUME IInv, NEW t \in Threads
  PROVE  Formed(thread[t]) /\ Trusted(thread[t], granted) /\ thread[t] \in Request
BY DEF IInv, TypeOK, ThreadInv

LEMMA VisitorStep ==
  ASSUME IInv, NEW t \in Threads, Visitor(t)
  PROVE  IInv'
<1>1. CASE \E u \in UserIds, e \in Emails, s \in Secrets : Register(t, u, e, s)
  <2>1. PICK u \in UserIds, e \in Emails, s \in Secrets : Register(t, u, e, s)
    BY <1>1
  <2>2. thread[t].reset = NoReset
    BY <2>1, Held DEF Register, At, Formed
  <2>3. Registered(e, s) \in Row /\ Registered(e, s).role # "admin"
    BY RowsMade DEF Registered
  <2>4. thread' \in [Threads -> Request] /\ ThreadInv' /\ LinksInv'
    BY <2>1, <2>2, <2>3, Saves DEF Register
  <2>5. QED
    BY <2>1, <2>4 DEF Register, IInv, TypeOK, AdminsGranted, Stored
<1>2. CASE \E u \in UserIds, s \in Secrets : LoginCheck(t, u, s)
  <2>1. PICK u \in UserIds, s \in Secrets : LoginCheck(t, u, s)
    BY <1>2
  <2> DEFINE th == [Idle EXCEPT !.at = "login", !.user = u, !.row = users[u]]
  <2>2. th \in Request /\ th.at = "login" /\ th.user = u
    BY IdleFormed, Rows DEF Formed, Idle, Request
  <2>3. Formed(th) /\ Trusted(th, granted') /\ \A r \in ResetIds : ~Bears(th, r)
    BY <2>2 DEF Formed, Trusted, Bears
  <2>4. thread' \in [Threads -> Request] /\ ThreadInv' /\ LinksInv'
    BY <2>1, <2>3, Moves DEF LoginCheck
  <2>5. QED
    BY <2>1, <2>4 DEF LoginCheck, IInv, TypeOK, AdminsGranted, Stored
<1>3. CASE \E k \in Tokens : LoginSave(t, k)
  <2>1. PICK k \in Tokens : LoginSave(t, k)
    BY <1>3
  <2>2. sessions' \in [Tokens -> UserIds \cup {NoUser, Ended}]
    BY <2>1, Held DEF LoginSave, At, Formed, IInv, TypeOK
  <2>3. thread' \in [Threads -> Request] /\ ThreadInv' /\ LinksInv'
    BY <2>1, Ends DEF LoginSave
  <2>4. QED
    BY <2>1, <2>2, <2>3 DEF LoginSave, IInv, TypeOK, AdminsGranted, Stored
<1>4. CASE \E u \in UserIds : VerifyEmail(t, u)
  <2>1. PICK u \in UserIds : VerifyEmail(t, u)
    BY <1>4
  <2> DEFINE row == [users[u] EXCEPT !.verified = TRUE]
  <2>2. thread[t].reset = NoReset
    BY <2>1, Held DEF VerifyEmail, At, Formed
  <2>3. row \in Row /\ (row.role = "admin" => u \in granted')
    BY <2>1, Rows DEF VerifyEmail, Row
  <2>4. thread' \in [Threads -> Request] /\ ThreadInv' /\ LinksInv'
    BY <2>1, <2>2, <2>3, Saves DEF VerifyEmail
  <2>5. QED
    BY <2>1, <2>4 DEF VerifyEmail, IInv, TypeOK, AdminsGranted, Stored
<1>5. QED BY <1>1, <1>2, <1>3, <1>4 DEF Visitor

\* Taking a link keeps LinksInv: an open link is in nobody's hand.
LEMMA ClaimStep ==
  ASSUME IInv, NEW t \in Threads, ClaimReset(t)
  PROVE  IInv'
<1> DEFINE q == thread[t].reset
           th == IF setup.persistent /\ resets[q].is # "open" THEN Idle
                 ELSE [thread[t] EXCEPT !.at = "load"]
<1>1. Formed(thread[t]) /\ thread[t].at = "claim" /\ q \in ResetIds
  BY Held DEF ClaimReset, At, Formed
<1>2. Goto(t, th)
  BY DEF ClaimReset, Leave
<1>3. Formed(th) /\ Trusted(th, granted)
  BY <1>1, IdleFormed DEF Formed, Trusted, Request
<1>4. \A v \in Threads : thread'[v] = IF v = t THEN th ELSE thread[v]
  BY <1>2 DEF IInv, TypeOK, Goto
<1>5. thread' \in [Threads -> Request] /\ ThreadInv'
  <2>1. granted' = granted
    BY DEF ClaimReset
  <2>2. ThreadInv'
    BY <1>3, <1>4, <2>1 DEF IInv, ThreadInv
  <2>3. thread' \in [Threads -> Request]
    BY <1>2, <1>3 DEF Goto, Formed, IInv, TypeOK
  <2>4. QED BY <2>2, <2>3
<1>6. /\ resets' \in [ResetIds -> Reset]
      /\ \A r \in ResetIds : resets'[r] = IF r = q THEN [resets[r] EXCEPT !.is = "spent"] ELSE resets[r]
  BY <1>1 DEF ClaimReset, IInv, TypeOK, Reset
<1>7. \A r \in ResetIds : (resets'[r].is = "open" => resets'[r] = resets[r])
                          /\ (resets[r].is = "spent" => resets'[r].is = "spent")
  BY <1>6 DEF IInv, TypeOK, Reset
<1>8. setup.persistent => \A r \in ResetIds, v \in Threads : Bears(thread'[v], r) =>
          /\ resets'[r].is = "spent" /\ changed[r] = 0
          /\ \A w \in Threads \ {v} : ~Bears(thread'[w], r)
  <2> SUFFICES ASSUME setup.persistent, NEW r \in ResetIds, NEW v \in Threads, Bears(thread'[v], r)
               PROVE  /\ resets'[r].is = "spent" /\ changed[r] = 0
                      /\ \A w \in Threads \ {v} : ~Bears(thread'[w], r)
    OBVIOUS
  <2>1. CASE resets[q].is # "open"
    <3>1. th = Idle
      BY <2>1
    <3>2. \A w \in Threads : Bears(thread'[w], r) => w # t /\ Bears(thread[w], r)
      BY <3>1, <1>4, IdleFormed
    <3>3. QED
      BY <3>2, <1>7 DEF IInv, LinksInv
  <2>2. CASE resets[q].is = "open"
    <3>1. th.at = "load" /\ th.reset = q
      BY <2>2, <1>1 DEF Formed, Request
    <3>2. changed[q] = 0 /\ \A w \in Threads : ~Bears(thread[w], q)
      BY <2>2, <1>1 DEF IInv, LinksInv
    <3>3. CASE r = q
      BY <3>2, <3>3, <1>4, <1>6, <1>1 DEF Reset, IInv, TypeOK
    <3>4. CASE r # q
      <4>1. \A w \in Threads : Bears(thread'[w], r) => Bears(thread[w], r)
        BY <3>1, <3>4, <1>4 DEF Bears
      <4>2. QED
        BY <4>1, <1>7 DEF IInv, LinksInv
    <3>5. QED BY <3>3, <3>4
  <2>3. QED BY <2>1, <2>2
<1>9. LinksInv'
  <2>1. setup' = setup /\ changed' = changed
    BY DEF ClaimReset
  <2>2. \A r \in ResetIds : resets'[r].is = "open" => resets'[r].user \in UserIds
    BY <1>7 DEF IInv, LinksInv
  <2>3. QED
    BY <2>1, <2>2, <1>7, <1>8 DEF IInv, LinksInv
<1>10. QED
  BY <1>5, <1>6, <1>9 DEF ClaimReset, IInv, TypeOK, AdminsGranted, Stored

\* A request reads a link, or loads the account of the one it has taken.
LEMMA LookStep ==
  ASSUME IInv, NEW t \in Threads, NEW r \in ResetIds, NEW s \in Secrets, LookReset(t, r, s)
  PROVE  IInv'
<1> DEFINE th == [Idle EXCEPT !.at = "claim", !.reset = r, !.secret = s, !.user = resets[r].user]
<1>1. resets[r].user \in UserIds
  BY DEF LookReset, IInv, LinksInv
<1>2. th \in Request /\ th.at = "claim" /\ th.reset = r /\ th.user \in UserIds
  BY <1>1, IdleFormed DEF Formed, Idle, Request
<1>3. Formed(th) /\ Trusted(th, granted') /\ \A q \in ResetIds : ~Bears(th, q)
  BY <1>2 DEF Formed, Trusted, Bears
<1>4. thread' \in [Threads -> Request] /\ ThreadInv' /\ LinksInv'
  BY <1>3, Moves DEF LookReset
<1>5. QED
  BY <1>4 DEF LookReset, IInv, TypeOK, AdminsGranted, Stored

\* It keeps the link in its hand.
LEMMA LoadStep ==
  ASSUME IInv, NEW t \in Threads, LoadForReset(t)
  PROVE  IInv'
<1>1. CASE Leave(t)
  <2>1. thread' \in [Threads -> Request] /\ ThreadInv' /\ LinksInv'
    BY <1>1, Ends DEF LoadForReset
  <2>2. QED
    BY <2>1 DEF LoadForReset, IInv, TypeOK, AdminsGranted, Stored
<1>2. CASE ~Leave(t)
  <2> DEFINE u == thread[t].user
             row == [users[u] EXCEPT !.secret = thread[t].secret]
             th == Saving(t, u, row, "revoke")
  <2>1. Stored(u) /\ Goto(t, th) /\ thread[t].at = "load"
    BY <1>2 DEF LoadForReset, At
  <2>2. u \in UserIds /\ thread[t] \in Request
    BY <2>1, Held DEF Formed
  <2>3. row \in Row /\ (row.role = "admin" => u \in granted)
    BY <2>1, <2>2, Rows DEF Row, Request
  <2>4. th \in Request /\ th.at = "save" /\ th.user = u /\ th.row = row /\ th.reset = thread[t].reset
    BY <2>2, <2>3 DEF Saving, Request
  <2>5. Formed(th) /\ Trusted(th, granted)
    BY <2>2, <2>3, <2>4 DEF Formed, Trusted
  <2>6. \A v \in Threads : thread'[v] = IF v = t THEN th ELSE thread[v]
    BY <2>1 DEF IInv, TypeOK, Goto
  <2>7. UNCHANGED <<setup, resets, changed, granted, users, sessions>>
    BY DEF LoadForReset
  <2>8. \A v \in Threads, r \in ResetIds : Bears(thread'[v], r) <=> Bears(thread[v], r)
    BY <2>1, <2>4, <2>6 DEF Bears
  <2>9. LinksInv'
    BY <2>7, <2>8 DEF IInv, LinksInv
  <2>10. thread' \in [Threads -> Request] /\ ThreadInv'
    BY <2>1, <2>4, <2>5, <2>6, <2>7 DEF IInv, TypeOK, ThreadInv, Goto
  <2>11. QED
    BY <2>7, <2>9, <2>10 DEF IInv, TypeOK, AdminsGranted, Stored
<1>3. QED BY <1>1, <1>2

\* A link is issued, or expires: one that is not spent is in nobody's hand.
LEMMA LinkStep ==
  ASSUME IInv, NEW r \in ResetIds,
         (\E u \in UserIds : IssueReset(u, r)) \/ ExpireReset(r)
  PROVE  IInv'
<1>1. UNCHANGED <<setup, users, sessions, thread, changed, granted>>
  BY DEF IssueReset, ExpireReset
<1>2. resets[r].is # "spent"
  BY DEF IssueReset, ExpireReset
<1>3. /\ resets' \in [ResetIds -> Reset]
      /\ resets'[r].is = "open" => resets'[r].user \in UserIds
      /\ \A q \in ResetIds : q # r => resets'[q] = resets[q]
  BY DEF IssueReset, ExpireReset, IInv, TypeOK, LinksInv, Reset
<1>4. LinksInv'
  BY <1>1, <1>2, <1>3 DEF IInv, LinksInv
<1>5. QED
  BY <1>1, <1>3, <1>4 DEF IInv, TypeOK, AdminsGranted, ThreadInv, Stored

\* The save counts the link in its hand, which it lets go.
LEMMA SaveStep ==
  ASSUME IInv, NEW t \in Threads, Save(t)
  PROVE  IInv'
<1> DEFINE u == thread[t].user
           q == thread[t].reset
           th == IF thread[t].then = "idle" THEN Idle
                 ELSE [thread[t] EXCEPT !.at = "revoke", !.row = Blank]
<1>1. /\ thread[t] \in Request /\ thread[t].at = "save" /\ u \in UserIds
      /\ thread[t].row.role = "admin" => u \in granted
  BY Held DEF Save, At, Formed, Trusted
<1>2. UNCHANGED <<setup, sessions, resets, granted>>
  BY DEF Save
<1>3. CASE \E v \in UserIds \ {u} : Stored(v) /\ users[v].email = thread[t].row.email
  <2>1. Leave(t) /\ UNCHANGED <<users, changed>>
    BY <1>3 DEF Save
  <2>2. thread' \in [Threads -> Request] /\ ThreadInv' /\ LinksInv'
    BY <2>1, <1>2, Ends
  <2>3. QED
    BY <2>1, <2>2, <1>2 DEF IInv, TypeOK, AdminsGranted, Stored
<1>4. CASE ~\E v \in UserIds \ {u} : Stored(v) /\ users[v].email = thread[t].row.email
  <2>1. /\ users' = [users EXCEPT ![u] = thread[t].row]
        /\ changed' = IF q = NoReset THEN changed ELSE [changed EXCEPT ![q] = @ + 1]
        /\ Goto(t, th)
    BY <1>4 DEF Save, Leave
  <2>2. users' \in [UserIds -> Row] /\ AdminsGranted'
    BY <2>1, <1>1, <1>2 DEF IInv, TypeOK, AdminsGranted, Stored, Request
  <2>3. changed' \in [ResetIds -> Nat]
    BY <2>1, <1>1 DEF IInv, TypeOK, Request
  <2>4. /\ Formed(th) /\ Trusted(th, granted)
        /\ \A r \in ResetIds : ~Bears(th, r)
    BY <1>1, IdleFormed, RowsMade DEF Formed, Trusted, Bears, Request
  <2>5. \A v \in Threads : thread'[v] = IF v = t THEN th ELSE thread[v]
    BY <2>1 DEF IInv, TypeOK, Goto
  <2>6. thread' \in [Threads -> Request] /\ ThreadInv'
    BY <2>1, <2>4, <2>5, <1>2 DEF IInv, TypeOK, ThreadInv, Goto, Formed
  <2>7. \A r \in ResetIds : r # q => changed'[r] = changed[r]
    BY <2>1 DEF IInv, TypeOK
  <2>8. \A r \in ResetIds, v \in Threads : Bears(thread'[v], r) => v # t /\ Bears(thread[v], r)
    BY <2>4, <2>5
  <2>9. setup.persistent /\ q \in ResetIds =>
          /\ changed[q] = 0 /\ changed'[q] = 1 /\ resets[q].is = "spent"
          /\ \A v \in Threads : ~Bears(thread'[v], q)
    <3> SUFFICES ASSUME setup.persistent, q \in ResetIds
                 PROVE  /\ changed[q] = 0 /\ changed'[q] = 1 /\ resets[q].is = "spent"
                        /\ \A v \in Threads : ~Bears(thread'[v], q)
      OBVIOUS
    <3>1. Bears(thread[t], q)
      BY <1>1 DEF Bears
    <3>2. /\ changed[q] = 0 /\ resets[q].is = "spent"
          /\ \A v \in Threads \ {t} : ~Bears(thread[v], q)
      BY <3>1 DEF IInv, LinksInv
    <3>3. changed'[q] = 1
      BY <3>2, <2>1, AccountAssumption DEF IInv, TypeOK
    <3>4. QED BY <3>2, <3>3, <2>8
  <2>10. LinksInv'
    <3>1. setup.persistent => \A r \in ResetIds :
            /\ changed'[r] <= 1
            /\ changed'[r] # 0 => resets[r].is = "spent"
            /\ \A v \in Threads : Bears(thread'[v], r) =>
                 /\ resets[r].is = "spent" /\ changed'[r] = 0
                 /\ \A w \in Threads \ {v} : ~Bears(thread'[w], r)
      <4> SUFFICES ASSUME setup.persistent, NEW r \in ResetIds
                   PROVE  /\ changed'[r] <= 1
                          /\ changed'[r] # 0 => resets[r].is = "spent"
                          /\ \A v \in Threads : Bears(thread'[v], r) =>
                               /\ resets[r].is = "spent" /\ changed'[r] = 0
                               /\ \A w \in Threads \ {v} : ~Bears(thread'[w], r)
        OBVIOUS
      <4>1. CASE r = q
        BY <4>1, <2>9
      <4>2. CASE r # q
        BY <4>2, <2>7, <2>8 DEF IInv, LinksInv
      <4>3. QED BY <4>1, <4>2
    <3>2. QED
      BY <3>1, <1>2 DEF IInv, LinksInv
  <2>11. QED
    BY <1>2, <2>2, <2>3, <2>6, <2>10 DEF IInv, TypeOK
<1>5. QED BY <1>3, <1>4

\* An account is deleted; sessions are revoked.
LEMMA RemoveStep ==
  ASSUME IInv, NEW t \in Threads, Remove(t)
  PROVE  IInv'
<1> DEFINE u == thread[t].user
           th == [thread[t] EXCEPT !.at = "revoke", !.row = Blank]
<1>1. thread[t] \in Request /\ thread[t].at = "remove" /\ u \in UserIds
  BY Held DEF Remove, At, Formed
<1>2. Formed(th) /\ Trusted(th, granted') /\ \A r \in ResetIds : ~Bears(th, r)
  BY <1>1, RowsMade DEF Formed, Trusted, Bears, Request
<1>3. thread' \in [Threads -> Request] /\ ThreadInv' /\ LinksInv'
  BY <1>2, Moves DEF Remove
<1>4. users' \in [UserIds -> Row] /\ AdminsGranted'
  BY <1>1, RowsMade DEF Remove, IInv, TypeOK, AdminsGranted, Stored, Row
<1>5. QED
  BY <1>3, <1>4 DEF Remove, IInv, TypeOK

LEMMA RevokeStep ==
  ASSUME IInv, NEW t \in Threads, Revoke(t)
  PROVE  IInv'
<1>1. thread' \in [Threads -> Request] /\ ThreadInv' /\ LinksInv'
  BY Ends DEF Revoke
<1>2. sessions' \in [Tokens -> UserIds \cup {NoUser, Ended}]
  BY DEF Revoke, IInv, TypeOK
<1>3. QED
  BY <1>1, <1>2 DEF Revoke, IInv, TypeOK, AdminsGranted, Stored

\* The routes of the current user.
LEMMA MyStep ==
  ASSUME IInv, NEW t \in Threads, MyRoutes(t)
  PROVE  IInv'
<1>1. CASE \E k \in Tokens : Authenticate(t, k)
  <2>1. PICK k \in Tokens : Authenticate(t, k)
    BY <1>1
  <2> DEFINE th == [Idle EXCEPT !.at = "known", !.actor = sessions[k], !.token = k]
  <2>2. th \in Request /\ th.at = "known" /\ th.actor \in UserIds /\ th.token = k /\ th.reset = NoReset
    BY <2>1, IdleFormed DEF Authenticate, Formed, Idle, Request
  <2>3. Formed(th) /\ Trusted(th, granted') /\ \A r \in ResetIds : ~Bears(th, r)
    BY <2>2 DEF Formed, Trusted, Bears
  <2>4. thread' \in [Threads -> Request] /\ ThreadInv' /\ LinksInv'
    BY <2>1, <2>3, Moves DEF Authenticate
  <2>5. QED
    BY <2>1, <2>4 DEF Authenticate, IInv, TypeOK, AdminsGranted, Stored
<1>2. CASE LoadActor(t)
  <2> DEFINE a == thread[t].actor
             th == IF Stored(a) THEN [thread[t] EXCEPT !.at = "acting", !.row = users[a]] ELSE Idle
  <2>1. Formed(thread[t]) /\ thread[t].at = "known" /\ a \in UserIds
    BY <1>2, Held DEF LoadActor, At, Formed
  <2>2. Formed(th) /\ Trusted(th, granted) /\ \A r \in ResetIds : ~Bears(th, r)
    <3>1. CASE Stored(a)
      <4> DEFINE ac == [thread[t] EXCEPT !.at = "acting", !.row = users[a]]
      <4>1. users[a] \in Row /\ (users[a].role = "admin" => a \in granted)
        BY <3>1, <2>1, Rows
      <4>2. /\ ac \in Request /\ ac.at = "acting" /\ ac.row = users[a] /\ ac.actor = a
            /\ ac.token = thread[t].token /\ ac.reset = NoReset
        BY <4>1, <2>1 DEF Formed, Request
      <4>3. Formed(ac) /\ Trusted(ac, granted) /\ \A r \in ResetIds : ~Bears(ac, r)
        BY <4>1, <4>2, <2>1 DEF Formed, Trusted, Bears
      <4>4. QED BY <4>3, <3>1
    <3>2. CASE ~Stored(a)
      BY <3>2, IdleFormed
    <3>3. QED BY <3>1, <3>2
  <2>3. Goto(t, th) /\ UNCHANGED <<setup, users, sessions, resets, changed, granted>>
    BY <1>2 DEF LoadActor, Leave
  <2>4. thread' \in [Threads -> Request] /\ ThreadInv' /\ LinksInv'
    BY <2>2, <2>3, Moves
  <2>5. QED
    BY <2>3, <2>4 DEF IInv, TypeOK, AdminsGranted, Stored
<1>3. CASE Logout(t)
  <2>1. thread' \in [Threads -> Request] /\ ThreadInv' /\ LinksInv'
    BY <1>3, Ends DEF Logout
  <2>2. sessions' \in [Tokens -> UserIds \cup {NoUser, Ended}]
    BY <1>3 DEF Logout, IInv, TypeOK
  <2>3. QED
    BY <1>3, <2>1, <2>2 DEF Logout, IInv, TypeOK, AdminsGranted, Stored
<1>4. CASE DeleteMe(t)
  <2> DEFINE th == [thread[t] EXCEPT !.at = "remove", !.user = thread[t].actor]
  <2>1. thread[t] \in Request /\ thread[t].actor \in UserIds
    BY <1>4, Held DEF DeleteMe, At, Formed
  <2>2. Formed(th) /\ Trusted(th, granted') /\ \A r \in ResetIds : ~Bears(th, r)
    BY <2>1 DEF Formed, Trusted, Bears, Request
  <2>3. thread' \in [Threads -> Request] /\ ThreadInv' /\ LinksInv'
    BY <1>4, <2>2, Moves DEF DeleteMe
  <2>4. QED
    BY <1>4, <2>3 DEF DeleteMe, IInv, TypeOK, AdminsGranted, Stored
<1>5. CASE \/ \E e \in Emails : UpdateMe(t, e)
           \/ \E s \in Secrets, then \in {"idle", "revoke"} : ChangePassword(t, s, then)
  <2> DEFINE a == thread[t].actor
  <2>1. /\ thread[t] \in Request /\ a \in UserIds /\ thread[t].reset = NoReset
        /\ thread[t].row.role = "admin" => a \in granted
    BY <1>5, Held DEF UpdateMe, ChangePassword, At, Formed, Trusted
  <2>2. PICK row \in Row, then \in {"idle", "revoke"} :
          row.role = thread[t].row.role /\ Goto(t, Saving(t, a, row, then))
    <3>1. CASE \E e \in Emails : UpdateMe(t, e)
      <4>1. PICK e \in Emails : UpdateMe(t, e)
        BY <3>1
      <4>2. [thread[t].row EXCEPT !.email = e] \in Row
        BY <2>1 DEF Request, Row
      <4>3. [thread[t].row EXCEPT !.email = e].role = thread[t].row.role
        BY <2>1 DEF Request, Row
      <4>4. QED BY <4>1, <4>2, <4>3 DEF UpdateMe
    <3>2. CASE \E s \in Secrets, then \in {"idle", "revoke"} : ChangePassword(t, s, then)
      <4>1. PICK s \in Secrets, then \in {"idle", "revoke"} : ChangePassword(t, s, then)
        BY <3>2
      <4>2. [thread[t].row EXCEPT !.secret = s] \in Row
        BY <2>1 DEF Request, Row
      <4>3. [thread[t].row EXCEPT !.secret = s].role = thread[t].row.role
        BY <2>1 DEF Request, Row
      <4>4. QED BY <4>1, <4>2, <4>3 DEF ChangePassword
    <3>3. QED BY <1>5, <3>1, <3>2
  <2>3. UNCHANGED <<setup, users, sessions, resets, changed, granted>>
    BY <1>5 DEF UpdateMe, ChangePassword
  <2>4. thread' \in [Threads -> Request] /\ ThreadInv' /\ LinksInv'
    BY <2>1, <2>2, <2>3, Saves
  <2>5. QED
    BY <2>3, <2>4 DEF IInv, TypeOK, AdminsGranted, Stored
<1>6. QED BY <1>1, <1>2, <1>3, <1>4, <1>5 DEF MyRoutes

\* The routes of an administrator: who gets the role gets it from the actor.
LEMMA AdminStep ==
  ASSUME IInv, NEW t \in Threads, AdminRoutes(t)
  PROVE  IInv'
<1>1. CASE \E u \in UserIds, row \in NewRows : AdminCreate(t, u, row)
  <2>1. PICK u \in UserIds, row \in NewRows : AdminCreate(t, u, row)
    BY <1>1
  <2>2. thread[t].reset = NoReset
    BY <2>1, Held DEF AdminCreate, Authorized, At, Formed
  <2>3. /\ row \in Row /\ (row.role = "admin" => u \in granted')
        /\ granted \subseteq granted' /\ granted' \subseteq UserIds
    BY <2>1, BodyAssumption DEF AdminCreate, IInv, TypeOK
  <2>4. UNCHANGED <<setup, users, sessions, resets, changed>>
    BY <2>1 DEF AdminCreate
  <2>5. thread' \in [Threads -> Request] /\ ThreadInv' /\ LinksInv'
    BY <2>1, <2>2, <2>3, <2>4, Saves DEF AdminCreate
  <2>6. QED
    BY <2>3, <2>4, <2>5 DEF IInv, TypeOK, AdminsGranted, Stored
<1>2. CASE \E u \in UserIds, d \in Edits : AdminUpdate(t, u, d)
  <2>1. PICK u \in UserIds, d \in Edits : AdminUpdate(t, u, d)
    BY <1>2
  <2> DEFINE row == [users[u] EXCEPT !.email = d.email, !.role = d.role,
                                    !.level = d.level, !.active = d.active]
  <2>2. thread[t].reset = NoReset
    BY <2>1, Held DEF AdminUpdate, Authorized, At, Formed
  <2>3. row \in Row /\ row.role = d.role
    BY <2>1, Rows, BodyAssumption DEF Edit, Row
  <2>4. /\ row.role = "admin" => u \in granted'
        /\ granted \subseteq granted' /\ granted' \subseteq UserIds
    BY <2>1, <2>3 DEF AdminUpdate, IInv, TypeOK
  <2>5. PICK then \in {"idle", "revoke"} : Goto(t, Saving(t, u, row, then))
    BY <2>1 DEF AdminUpdate
  <2>6. UNCHANGED <<setup, users, sessions, resets, changed>>
    BY <2>1 DEF AdminUpdate
  <2>7. thread' \in [Threads -> Request] /\ ThreadInv' /\ LinksInv'
    BY <2>2, <2>3, <2>4, <2>5, <2>6, Saves
  <2>8. QED
    BY <2>4, <2>6, <2>7 DEF IInv, TypeOK, AdminsGranted, Stored
<1>3. CASE \E u \in UserIds : AdminDelete(t, u)
  <2>1. PICK u \in UserIds : AdminDelete(t, u)
    BY <1>3
  <2> DEFINE th == [thread[t] EXCEPT !.at = "remove", !.user = u]
  <2>2. Formed(th) /\ Trusted(th, granted') /\ \A r \in ResetIds : ~Bears(th, r)
    BY Held DEF Formed, Trusted, Bears, Request
  <2>3. thread' \in [Threads -> Request] /\ ThreadInv' /\ LinksInv'
    BY <2>1, <2>2, Moves DEF AdminDelete
  <2>4. QED
    BY <2>1, <2>3 DEF AdminDelete, IInv, TypeOK, AdminsGranted, Stored
<1>4. QED BY <1>1, <1>2, <1>3 DEF AdminRoutes

\* A session expires.
LEMMA ExpireStep ==
  ASSUME IInv, NEW k \in Tokens, ExpireSession(k)
  PROVE  IInv'
<1>1. sessions' \in [Tokens -> UserIds \cup {NoUser, Ended}]
  BY DEF ExpireSession, IInv, TypeOK
<1>2. UNCHANGED <<setup, users, resets, thread, changed, granted>>
  BY DEF ExpireSession
<1>3. QED
  BY <1>1, <1>2 DEF IInv, TypeOK, AdminsGranted, ThreadInv, LinksInv, Stored

\* A crash takes the links out of every hand.
LEMMA CrashStep ==
  ASSUME IInv, Crash
  PROVE  IInv'
<1>1. UNCHANGED <<setup, users, sessions, changed, granted>>
  BY DEF Crash
<1>2. \A t \in Threads : thread'[t] = Idle
  BY DEF Crash
<1>3. thread' \in [Threads -> Request] /\ ThreadInv'
  BY <1>2, IdleFormed DEF Crash, ThreadInv, Formed
<1>4. /\ resets' \in [ResetIds -> Reset]
      /\ \A r \in ResetIds : resets'[r].is = "open" => resets'[r] = resets[r]
      /\ setup.persistent => resets' = resets
  <2>1. CASE setup.persistent
    BY <2>1 DEF Crash, IInv, TypeOK
  <2>2. CASE ~setup.persistent
    <3>1. \A r \in ResetIds : resets'[r] = IF resets[r].is = "open"
                                           THEN [resets[r] EXCEPT !.is = "spent"] ELSE resets[r]
      BY <2>2 DEF Crash
    <3>2. QED
      BY <2>2, <3>1 DEF Crash, IInv, TypeOK, Reset
  <2>3. QED BY <2>1, <2>2
<1>5. LinksInv'
  BY <1>1, <1>2, <1>4, IdleFormed DEF IInv, LinksInv
<1>6. QED
  BY <1>1, <1>3, <1>4, <1>5 DEF IInv, TypeOK, AdminsGranted, Stored

-----------------------------------------------------------------------------
(* The invariant and what follows from it                                  *)

LEMMA InitEstablishes == Init => IInv
<1> SUFFICES ASSUME Init PROVE IInv
  OBVIOUS
<1>1. \A t \in Threads : thread[t] = Idle
  BY DEF Init
<1>2. thread \in [Threads -> Request] /\ ThreadInv
  BY <1>1, IdleFormed DEF Init, ThreadInv, Formed
<1>3. TypeOK
  BY <1>2, RowsMade, AccountAssumption, SetupAssumption DEF Init, TypeOK, Reset
<1>4. AdminsGranted
  BY DEF Init, AdminsGranted, Stored, Blank, Registered
<1>5. LinksInv
  BY <1>1, IdleFormed DEF Init, LinksInv
<1>6. QED BY <1>2, <1>3, <1>4, <1>5 DEF IInv

LEMMA StepPreserves == IInv /\ [Next]_vars => IInv'
<1> SUFFICES ASSUME IInv, [Next]_vars PROVE IInv'
  OBVIOUS
<1>1. ASSUME NEW t \in Threads,
             \/ Visitor(t) \/ ResetRoutes(t) \/ MyRoutes(t) \/ AdminRoutes(t)
             \/ Save(t) \/ Remove(t) \/ Revoke(t)
      PROVE  IInv'
  BY <1>1, VisitorStep, LookStep, ClaimStep, LoadStep, MyStep, AdminStep,
     SaveStep, RemoveStep, RevokeStep DEF ResetRoutes
<1>2. ASSUME NEW r \in ResetIds, (\E u \in UserIds : IssueReset(u, r)) \/ ExpireReset(r)
      PROVE  IInv'
  BY <1>2, LinkStep
<1>3. ASSUME NEW k \in Tokens, ExpireSession(k) PROVE IInv'
  BY <1>3, ExpireStep
<1>4. CASE Crash
  BY <1>4, CrashStep
<1>5. CASE UNCHANGED vars
  BY <1>5 DEF vars, IInv, TypeOK, AdminsGranted, ThreadInv, LinksInv, Stored
<1>6. QED BY <1>1, <1>2, <1>3, <1>4, <1>5 DEF Next

\* Rows, sessions, links and the copies in the hands of requests fit together
\* in every reachable state.
THEOREM InductiveInvariant == Spec => []IInv
<1>1. Init => IInv
  BY InitEstablishes
<1>2. IInv /\ [Next]_vars => IInv'
  BY StepPreserves
<1>3. QED BY <1>1, <1>2, PTL DEF Spec

\* Every table and every request holds values of its kind (types of the rows
\* of repository_postgres.py and of the requests of app.py).
THEOREM TypeCorrect == Spec => []TypeOK
<1>1. IInv => TypeOK
  BY DEF IInv
<1>2. QED BY <1>1, InductiveInvariant, PTL

\* A link kept in the database changes a password at most once (consume of
\* password_reset_postgres.py).
THEOREM ResetCorrect == Spec => []ResetOnce
<1>1. IInv => ResetOnce
  BY DEF IInv, LinksInv, ResetOnce
<1>2. QED BY <1>1, InductiveInvariant, PTL

\* Only an administrator makes an administrator, also through copies of rows
\* that are out of date when they are saved (update_profile, set_role, save).
THEOREM AdminsCorrect == Spec => []AdminsGranted
<1>1. IInv => AdminsGranted
  BY DEF IInv
<1>2. QED BY <1>1, InductiveInvariant, PTL
-----------------------------------------------------------------------------
(* Preferences                                                             *)

\* A document of the current version or a later one.
Recent(doc) == doc \in Prefs!Document /\ doc.version >= Prefs!CurrentVersion

\* A body that sets only the advanced settings to null.
Proper(body) == body \in Prefs!Body /\ \A f \in DOMAIN body : body[f] = Null => f = "advanced"

\* What a request holds while no other is about the same preferences.
Intact(t) ==
  LET q == writer[t]
      old == stored[q.user] IN
  /\ q.at = "settle" => old = NoDocument \/ old.version < Prefs!CurrentVersion
  /\ q.at = "patch" => q.doc = old
  /\ q.at = "save" => /\ q.doc = Prefs!Merge(old, q.body) /\ old # NoDocument
                      /\ "advanced" \in DOMAIN q.body => q.level = 2

PrefsInv ==
  /\ Prefs!TypeOK
  /\ \A t \in Threads : writer[t].at # "idle" => writer[t].user = FirstAdmin
  /\ \A t \in Threads : Proper(writer[t].body)
  /\ \A t \in Threads : writer[t].at \in {"settle", "patch", "save"} => Recent(writer[t].doc)
  /\ ~shared => \A t, v \in Threads : t # v => writer[t].at = "idle" \/ writer[v].at = "idle"
  /\ ~shared => \A t \in Threads : Intact(t)

\* What a step does to the document, while requests do not overlap and always.
Patches ==
  ~shared' => \A t \in Threads : stored' # stored /\ writer'[t] # writer[t] =>
    LET old == stored[writer[t].user]
        new == stored'[writer[t].user] IN
    IF writer[t].at = "settle" THEN old = NoDocument \/ old.version < Prefs!CurrentVersion
    ELSE /\ new.leaf = [f \in Leaves |-> Patched(old, writer[t], f)]
         /\ new.advanced = old.advanced \/ writer[t].level = 2

Migrates ==
  stored[FirstAdmin] # NoDocument =>
    /\ stored'[FirstAdmin] # NoDocument
    /\ stored[FirstAdmin].version >= Prefs!CurrentVersion => stored'[FirstAdmin].version >= Prefs!CurrentVersion

LEMMA RecentDocument ==
  ASSUME NEW doc, Recent(doc)
  PROVE  doc \in Prefs!Document /\ doc # NoDocument /\ doc.version >= Prefs!CurrentVersion
BY PreferencesAssumption DEF Recent, Prefs!Parameters

LEMMA DefaultRecent == Recent(Prefs!DefaultPreferences)
BY PreferencesAssumption
DEF Recent, Prefs!DefaultPreferences, Prefs!Document, Prefs!CurrentVersion, Prefs!Parameters

LEMMA MergeRecent ==
  ASSUME NEW doc, Recent(doc), NEW body, Proper(body)
  PROVE  Recent(Prefs!Merge(doc, body))
<1>1. PICK S \in SUBSET Prefs!Fields : body \in [S -> Values \cup {Null}]
  BY DEF Proper, Prefs!Body
<1> DEFINE leaf == [f \in Leaves |-> IF f \in DOMAIN body THEN body[f] ELSE doc.leaf[f]]
           advanced == IF "advanced" \in DOMAIN body THEN body["advanced"] ELSE doc.advanced
<1>2. leaf \in [Leaves -> Values]
  <2>1. ASSUME NEW f \in Leaves PROVE (IF f \in DOMAIN body THEN body[f] ELSE doc.leaf[f]) \in Values
    BY <1>1, PreferencesAssumption DEF Recent, Prefs!Document, Prefs!Parameters, Proper
  <2>2. QED BY <2>1
<1>3. advanced \in Values \cup {Null}
  BY <1>1 DEF Recent, Prefs!Document
<1>4. Prefs!Merge(doc, body) = [doc EXCEPT !.leaf = leaf, !.advanced = advanced]
  BY DEF Prefs!Merge, Recent, Prefs!Document
<1> HIDE DEF leaf, advanced
<1>5. QED BY <1>2, <1>3, <1>4 DEF Recent, Prefs!Document

LEMMA MigratedRecent ==
  ASSUME NEW doc \in Prefs!Document
  PROVE  /\ Recent(Prefs!Migrated(doc))
         /\ Prefs!Migrated(doc) = doc => Recent(doc)
         /\ Prefs!Migrated(doc) # doc => doc.version < Prefs!CurrentVersion
BY PreferencesAssumption
DEF Recent, Prefs!Document, Prefs!Migrated, Prefs!CurrentVersion, Prefs!Parameters

\* A body with a version is read over the default document.
LEMMA ImportedRecent ==
  ASSUME NEW body, Proper(body), NEW version \in 0..MaxVersion
  PROVE  Recent(Prefs!Imported(body, version))
<1> DEFINE doc == Prefs!Merge(Prefs!DefaultPreferences, body)
<1>1. doc \in Prefs!Document
  BY DefaultRecent, MergeRecent, RecentDocument
<1> HIDE DEF doc
<1>2. [doc EXCEPT !.version = version] \in Prefs!Document
  BY <1>1 DEF Prefs!Document
<1>3. QED BY <1>2, MigratedRecent DEF Prefs!Imported, doc

LEMMA BodiesProper == \A body \in Bodies \cup {Prefs!Nothing} : Proper(body)
<1>1. Proper(Prefs!Nothing)
  BY DEF Proper, Prefs!Nothing, Prefs!Body
<1>2. QED BY <1>1, PreferencesAssumption DEF Proper, Prefs!Parameters

LEMMA IdleWriter ==
  /\ Prefs!Idle \in Prefs!Request /\ Prefs!Idle.at = "idle" /\ Proper(Prefs!Idle.body)
<1>1. Prefs!DefaultPreferences \in Prefs!Document /\ Prefs!Nothing \in Prefs!Body
  BY DefaultRecent, RecentDocument, BodiesProper DEF Proper
<1>2. QED BY <1>1, BodiesProper DEF Prefs!Idle, Prefs!Request, Prefs!Levels
\* What must be shown of every step for the preferences.
PrefsStep == PrefsInv' /\ Patches /\ Migrates

LEMMA WriterMove ==
  ASSUME PrefsInv, shared' = (shared \/ Meddle), NEW t \in Threads, NEW q \in Prefs!Request,
         Prefs!Goto(t, q), Proper(q.body), q.at # "idle" => q.user = FirstAdmin,
         q.at \in {"settle", "patch", "save"} => Recent(q.doc),
         stored' \in [{FirstAdmin} -> Prefs!Document \cup {NoDocument}],
         stored' = stored \/ writer[t].at # "idle",
         writer'[t] = q /\ ~shared => Intact(t)'
  PROVE  PrefsInv'
<1>1. writer' = [writer EXCEPT ![t] = q]
  BY DEF Prefs!Goto
<1>2. writer'[t] = q /\ \A v \in Threads \ {t} : writer'[v] = writer[v]
  BY <1>1 DEF PrefsInv, Prefs!TypeOK
<1>3. Prefs!TypeOK'
  BY <1>1 DEF PrefsInv, Prefs!TypeOK
<1>4. ASSUME ~shared'
      PROVE  /\ \A u, v \in Threads : u # v => writer'[u].at = "idle" \/ writer'[v].at = "idle"
             /\ \A v \in Threads : Intact(v)'
  <2>1. ~shared /\ ~Meddle
    BY <1>4
  <2>2. \A u, v \in Threads : u # v => writer'[u].at = "idle" \/ writer'[v].at = "idle"
    BY <2>1 DEF Meddle
  <2>3. ASSUME NEW v \in Threads, v # t
        PROVE  Intact(v)'
    <3>1. CASE writer[v].at = "idle"
      BY <1>2, <2>3, <3>1 DEF Intact
    <3>2. CASE writer[v].at # "idle"
      <4>1. stored' = stored /\ Intact(v) /\ writer'[v] = writer[v]
        BY <1>2, <2>1, <2>3, <3>2 DEF PrefsInv
      <4>2. QED BY <4>1 DEF Intact
    <3>3. QED BY <3>1, <3>2
  <2>4. QED BY <1>2, <2>1, <2>2, <2>3
<1>5. QED BY <1>2, <1>3, <1>4 DEF PrefsInv

\* The document is replaced at once, without a copy.
LEMMA StoredAtOnce ==
  ASSUME PrefsInv, shared' = (shared \/ Meddle), UNCHANGED writer,
         stored' = stored \/ Recent(stored'[FirstAdmin]),
         stored' \in [{FirstAdmin} -> Prefs!Document \cup {NoDocument}]
  PROVE  PrefsStep
<1>1. Patches /\ Migrates
  BY PreferencesAssumption DEF Patches, Migrates, Recent, Prefs!Parameters
<1>2. Prefs!TypeOK'
  BY DEF PrefsInv, Prefs!TypeOK
<1>3. ASSUME ~shared'
      PROVE  \A v \in Threads : Intact(v)'
  <2>1. ~shared /\ ~Meddle
    BY <1>3
  <2>2. ASSUME NEW v \in Threads PROVE Intact(v)'
    <3>1. CASE writer[v].at = "idle"
      BY <3>1 DEF Intact
    <3>2. CASE writer[v].at # "idle"
      <4>1. stored' = stored /\ Intact(v)
        BY <2>1, <3>2 DEF PrefsInv, Meddle
      <4>2. QED BY <4>1 DEF Intact
    <3>3. QED BY <3>1, <3>2
  <2>3. QED BY <2>2
<1>4. PrefsInv'
  BY <1>2, <1>3 DEF PrefsInv
<1>5. QED BY <1>1, <1>4 DEF PrefsStep

\* The request has no document yet, or the one that is stored.
LEMMA LoadedRequest ==
  ASSUME NEW r \in Prefs!Request, Proper(r.body), r.user = FirstAdmin, Recent(r.doc)
  PROVE  LET q == Prefs!Loaded(r) IN
         /\ q \in Prefs!Request /\ Proper(q.body) /\ q.at \in {"idle", "patch"}
         /\ q.at # "idle" => q.user = FirstAdmin /\ q.doc = r.doc
<1>1. [r EXCEPT !.at = "patch"] \in Prefs!Request
  BY DEF Prefs!Request
<1>2. LET q == [r EXCEPT !.at = "patch"] IN
      q.at = "patch" /\ q.body = r.body /\ q.user = r.user /\ q.doc = r.doc
  BY DEF Prefs!Request
<1>3. CASE DOMAIN r.body = {}
  BY <1>3, IdleWriter DEF Prefs!Loaded
<1>4. CASE DOMAIN r.body # {}
  BY <1>1, <1>2, <1>4 DEF Prefs!Loaded
<1>5. QED BY <1>3, <1>4

LEMMA PrefsSame ==
  ASSUME PrefsInv, stored' = stored
  PROVE  Patches /\ Migrates /\ stored' \in [{FirstAdmin} -> Prefs!Document \cup {NoDocument}]
BY DEF Patches, Migrates, PrefsInv, Prefs!TypeOK

LEMMA LoadPrefsStep ==
  ASSUME PrefsInv, shared' = (shared \/ Meddle), NEW t \in Threads, Prefs!Load(t)
  PROVE  PrefsStep
<1> DEFINE old == stored[FirstAdmin]
           qd == [writer[t] EXCEPT !.at = "settle", !.doc = Prefs!DefaultPreferences]
           qm == [writer[t] EXCEPT !.at = "settle", !.doc = Prefs!Migrated(old)]
           r == [writer[t] EXCEPT !.doc = old]
<1>1. /\ writer[t].at = "load" /\ writer[t].user = FirstAdmin /\ stored' = stored
      /\ writer[t] \in Prefs!Request /\ Proper(writer[t].body)
  BY DEF PrefsInv, Prefs!TypeOK, Prefs!Load, Prefs!At
<1>2. Prefs!Goto(t, IF old = NoDocument THEN qd
                    ELSE IF Prefs!Migrated(old) # old THEN qm ELSE Prefs!Loaded(r))
  BY <1>1 DEF Prefs!Load
<1>3. old \in Prefs!Document \cup {NoDocument}
  BY DEF PrefsInv, Prefs!TypeOK
<1>4. Patches /\ Migrates /\ stored' \in [{FirstAdmin} -> Prefs!Document \cup {NoDocument}]
  BY <1>1, PrefsSame
<1>5. CASE old = NoDocument
  <2>1. Prefs!DefaultPreferences \in Prefs!Document
    BY DefaultRecent, RecentDocument
  <2>2. /\ qd \in Prefs!Request /\ qd.at = "settle" /\ qd.user = FirstAdmin
        /\ qd.body = writer[t].body /\ qd.doc = Prefs!DefaultPreferences
    BY <1>1, <2>1 DEF Prefs!Request
  <2> HIDE DEF qd, qm, r
  <2>3. Prefs!Goto(t, qd)
    BY <1>2, <1>5
  <2>4. writer'[t] = qd => Intact(t)'
    BY <1>1, <1>5, <2>2 DEF Intact
  <2>5. QED BY <1>1, <1>4, <2>2, <2>3, <2>4, DefaultRecent, WriterMove DEF PrefsStep
<1>6. CASE old # NoDocument /\ Prefs!Migrated(old) # old
  <2>1. /\ Recent(Prefs!Migrated(old)) /\ old.version < Prefs!CurrentVersion
        /\ Prefs!Migrated(old) \in Prefs!Document
    BY <1>3, <1>6, MigratedRecent, RecentDocument
  <2>2. /\ qm \in Prefs!Request /\ qm.at = "settle" /\ qm.user = FirstAdmin
        /\ qm.body = writer[t].body /\ qm.doc = Prefs!Migrated(old)
    BY <1>1, <2>1 DEF Prefs!Request
  <2> HIDE DEF qd, qm, r
  <2>3. Prefs!Goto(t, qm)
    BY <1>2, <1>6
  <2>4. writer'[t] = qm => Intact(t)'
    BY <1>1, <2>1, <2>2 DEF Intact
  <2>5. QED BY <1>1, <1>4, <2>1, <2>2, <2>3, <2>4, WriterMove DEF PrefsStep
<1>7. CASE old # NoDocument /\ Prefs!Migrated(old) = old
  <2>1. Recent(old) /\ old \in Prefs!Document
    BY <1>3, <1>7, MigratedRecent
  <2>2. r \in Prefs!Request /\ Proper(r.body) /\ r.user = FirstAdmin /\ r.doc = old
    BY <1>1, <2>1 DEF Prefs!Request
  <2> HIDE DEF qd, qm, r
  <2>3. Prefs!Goto(t, Prefs!Loaded(r))
    BY <1>2, <1>7
  <2>4. PICK q \in Prefs!Request :
          /\ Prefs!Goto(t, q) /\ Proper(q.body) /\ q.at \in {"idle", "patch"}
          /\ q.at # "idle" => q.user = FirstAdmin /\ q.doc = old
    BY <2>1, <2>2, <2>3, LoadedRequest
  <2>5. writer'[t] = q => Intact(t)'
    BY <1>1, <2>4 DEF Intact
  <2>6. QED BY <1>1, <1>4, <2>1, <2>4, <2>5, WriterMove DEF PrefsStep
<1>8. QED BY <1>5, <1>6, <1>7
\* A copy is saved over whatever is stored by then.
LEMMA SavedCopy ==
  ASSUME PrefsInv, shared' = (shared \/ Meddle), NEW t \in Threads,
         writer[t].at \in {"settle", "save"}, NEW q, Prefs!Goto(t, q),
         stored' = [stored EXCEPT ![writer[t].user] = writer[t].doc]
  PROVE  /\ Recent(writer[t].doc) /\ stored'[FirstAdmin] = writer[t].doc /\ Patches /\ Migrates
         /\ stored' \in [{FirstAdmin} -> Prefs!Document \cup {NoDocument}]
<1>1. /\ writer[t].user = FirstAdmin /\ Recent(writer[t].doc) /\ writer[t].doc \in Prefs!Document
      /\ stored[FirstAdmin] \in Prefs!Document \cup {NoDocument}
      /\ \A v \in Threads \ {t} : writer'[v] = writer[v]
  BY RecentDocument DEF PrefsInv, Prefs!TypeOK, Prefs!Goto
<1>2. /\ stored'[FirstAdmin] = writer[t].doc
      /\ stored' \in [{FirstAdmin} -> Prefs!Document \cup {NoDocument}]
  BY <1>1 DEF PrefsInv, Prefs!TypeOK
<1>3. Migrates
  BY <1>1, <1>2, RecentDocument DEF Migrates
<1>4. ASSUME ~shared'
      PROVE  IF writer[t].at = "settle"
             THEN stored[FirstAdmin] = NoDocument \/ stored[FirstAdmin].version < Prefs!CurrentVersion
             ELSE /\ writer[t].doc.leaf = [f \in Leaves |-> Patched(stored[FirstAdmin], writer[t], f)]
                  /\ writer[t].doc.advanced = stored[FirstAdmin].advanced \/ writer[t].level = 2
  <2>1. Intact(t)
    BY <1>4 DEF PrefsInv
  <2>2. CASE writer[t].at = "settle"
    BY <1>1, <2>1, <2>2 DEF Intact
  <2>3. CASE writer[t].at = "save"
    <3>1. PICK old \in Prefs!Document :
            /\ old = stored[FirstAdmin]
            /\ writer[t].doc = Prefs!Merge(old, writer[t].body)
            /\ "advanced" \in DOMAIN writer[t].body => writer[t].level = 2
      BY <1>1, <2>1, <2>3 DEF Intact
    <3>2. /\ Prefs!Merge(old, writer[t].body).leaf = [f \in Leaves |-> Patched(old, writer[t], f)]
          /\ "advanced" \notin DOMAIN writer[t].body =>
               Prefs!Merge(old, writer[t].body).advanced = old.advanced
      BY DEF Prefs!Merge, Prefs!Document, Patched
    <3>3. QED BY <2>3, <3>1, <3>2
  <2>4. QED BY <2>2, <2>3
<1>5. Patches
  BY <1>1, <1>2, <1>4 DEF Patches
<1>6. QED BY <1>1, <1>2, <1>3, <1>5

LEMMA SettleStep ==
  ASSUME PrefsInv, shared' = (shared \/ Meddle), NEW t \in Threads, Prefs!Settle(t)
  PROVE  PrefsStep
<1>1. /\ writer[t].at = "settle" /\ writer[t].user = FirstAdmin /\ Recent(writer[t].doc)
      /\ writer[t] \in Prefs!Request /\ Proper(writer[t].body)
      /\ stored' = [stored EXCEPT ![writer[t].user] = writer[t].doc]
      /\ Prefs!Goto(t, Prefs!Loaded(writer[t]))
  BY DEF PrefsInv, Prefs!TypeOK, Prefs!Settle, Prefs!At
<1>2. PICK q \in Prefs!Request :
        /\ Prefs!Goto(t, q) /\ Proper(q.body) /\ q.at \in {"idle", "patch"}
        /\ q.at # "idle" => q.user = FirstAdmin /\ q.doc = writer[t].doc
  BY <1>1, LoadedRequest
<1>3. /\ stored'[FirstAdmin] = writer[t].doc /\ Patches /\ Migrates
      /\ stored' \in [{FirstAdmin} -> Prefs!Document \cup {NoDocument}]
  BY <1>1, SavedCopy
<1>4. writer'[t] = q => Intact(t)'
  BY <1>2, <1>3 DEF Intact
<1>5. QED BY <1>1, <1>2, <1>3, <1>4, WriterMove DEF PrefsStep

LEMMA SavePrefsStep ==
  ASSUME PrefsInv, shared' = (shared \/ Meddle), NEW t \in Threads, Prefs!Save(t)
  PROVE  PrefsStep
<1>1. /\ writer[t].at = "save" /\ stored' = [stored EXCEPT ![writer[t].user] = writer[t].doc]
      /\ Prefs!Goto(t, Prefs!Idle)
  BY DEF Prefs!Save, Prefs!At
<1>2. /\ Patches /\ Migrates
      /\ stored' \in [{FirstAdmin} -> Prefs!Document \cup {NoDocument}]
  BY <1>1, SavedCopy
<1>3. writer'[t] = Prefs!Idle => Intact(t)'
  BY IdleWriter DEF Intact
<1>4. QED BY <1>1, <1>2, <1>3, IdleWriter, WriterMove DEF PrefsStep

LEMMA ApplyStep ==
  ASSUME PrefsInv, shared' = (shared \/ Meddle), NEW t \in Threads, Prefs!ApplyPatch(t)
  PROVE  PrefsStep
<1> DEFINE doc == Prefs!Merge(writer[t].doc, writer[t].body)
           q == [writer[t] EXCEPT !.at = "save", !.doc = doc]
<1>1. /\ writer[t].at = "patch" /\ writer[t].user = FirstAdmin /\ Recent(writer[t].doc)
      /\ writer[t] \in Prefs!Request /\ Proper(writer[t].body) /\ stored' = stored
      /\ \/ Prefs!Goto(t, Prefs!Idle)
         \/ /\ Prefs!Goto(t, q)
            /\ "advanced" \in DOMAIN writer[t].body => writer[t].level = 2
  BY DEF PrefsInv, Prefs!TypeOK, Prefs!ApplyPatch, Prefs!At, Prefs!Request, Prefs!Levels
<1>2. /\ Patches /\ Migrates
      /\ stored' \in [{FirstAdmin} -> Prefs!Document \cup {NoDocument}]
  BY <1>1, PrefsSame
<1>3. CASE Prefs!Goto(t, Prefs!Idle)
  <2>1. writer'[t] = Prefs!Idle => Intact(t)'
    BY IdleWriter DEF Intact
  <2>2. QED BY <1>1, <1>2, <1>3, <2>1, IdleWriter, WriterMove DEF PrefsStep
<1>4. CASE Prefs!Goto(t, q) /\ ("advanced" \in DOMAIN writer[t].body => writer[t].level = 2)
  <2>1. Recent(doc) /\ doc \in Prefs!Document
    BY <1>1, MergeRecent, RecentDocument
  <2> HIDE DEF doc
  <2>2. /\ q \in Prefs!Request /\ q.at = "save" /\ q.user = FirstAdmin /\ q.doc = doc
        /\ q.body = writer[t].body /\ q.level = writer[t].level
    BY <1>1, <2>1 DEF Prefs!Request
  <2>3. ASSUME writer'[t] = q, ~shared
        PROVE  Intact(t)'
    <3>1. writer[t].doc = stored[FirstAdmin]
      BY <1>1, <2>3 DEF PrefsInv, Intact
    <3>2. stored[FirstAdmin] # NoDocument
      BY <1>1, <3>1, RecentDocument
    <3>3. doc = Prefs!Merge(stored[FirstAdmin], writer[t].body)
      BY <3>1 DEF doc
    <3> HIDE DEF q
    <3>4. QED BY <1>1, <1>4, <2>2, <2>3, <3>2, <3>3 DEF Intact
  <2> HIDE DEF q
  <2>4. QED BY <1>1, <1>2, <1>4, <2>1, <2>2, <2>3, WriterMove DEF PrefsStep
<1>5. QED BY <1>1, <1>3, <1>4

LEMMA StartPrefsStep ==
  ASSUME PrefsInv, shared' = (shared \/ Meddle), NEW t \in Threads, NEW u \in {FirstAdmin},
         NEW level \in Prefs!Levels, NEW body \in Bodies \cup {Prefs!Nothing},
         Prefs!Start(t, u, level, body)
  PROVE  PrefsStep
<1> DEFINE q == [Prefs!Idle EXCEPT !.at = "load", !.user = u, !.level = level, !.body = body]
<1>1. Proper(body) /\ body \in Prefs!Body
  BY BodiesProper DEF Proper
<1>2. q \in Prefs!Request /\ q.at = "load" /\ q.user = FirstAdmin /\ q.body = body
  BY <1>1, IdleWriter DEF Prefs!Request
<1>3. Prefs!Goto(t, q) /\ stored' = stored
  BY DEF Prefs!Start
<1> HIDE DEF q
<1>4. writer'[t] = q => Intact(t)'
  BY <1>2 DEF Intact
<1>5. QED BY <1>1, <1>2, <1>3, <1>4, PrefsSame, WriterMove DEF PrefsStep

LEMMA PrefsNextStep ==
  ASSUME PrefsInv, PreferencesNext
  PROVE  PrefsStep
<1>1. shared' = (shared \/ Meddle)
  BY DEF PreferencesNext
<1>2. ASSUME NEW t \in Threads, Prefs!Routes(t)
      PROVE  PrefsStep
  BY <1>1, <1>2, StartPrefsStep, LoadPrefsStep, SettleStep, ApplyStep, SavePrefsStep DEF Prefs!Routes
<1>3. ASSUME NEW doc, Recent(doc), stored' = [stored EXCEPT ![FirstAdmin] = doc], UNCHANGED writer
      PROVE  PrefsStep
  <2>1. stored'[FirstAdmin] = doc /\ stored' \in [{FirstAdmin} -> Prefs!Document \cup {NoDocument}]
    BY <1>3, RecentDocument DEF PrefsInv, Prefs!TypeOK
  <2>2. QED BY <1>1, <1>3, <2>1, StoredAtOnce
<1>4. ASSUME NEW u \in {FirstAdmin}, Prefs!ResetPreferences(u)
      PROVE  PrefsStep
  BY <1>3, <1>4, DefaultRecent DEF Prefs!ResetPreferences
<1>5. CASE Prefs!Imports
  <2>1. PICK body \in Bodies \cup {Prefs!Nothing}, version \in 0..MaxVersion :
          stored' = [stored EXCEPT ![FirstAdmin] = Prefs!Imported(body, version)] /\ UNCHANGED writer
    BY <1>5 DEF Prefs!Imports, Prefs!ImportPreferences
  <2>2. Recent(Prefs!Imported(body, version))
    BY BodiesProper, ImportedRecent
  <2>3. QED BY <1>3, <2>1, <2>2
<1>6. CASE Prefs!Crash
  <2>1. stored' = stored /\ writer' = [t \in Threads |-> Prefs!Idle]
    BY <1>6 DEF Prefs!Crash
  <2>2. \A t \in Threads : writer'[t] = Prefs!Idle /\ Intact(t)'
    BY <2>1, IdleWriter DEF Intact
  <2>3. PrefsInv'
    BY <2>1, <2>2, IdleWriter DEF PrefsInv, Prefs!TypeOK
  <2>4. QED BY <2>1, <2>3, PrefsSame DEF PrefsStep
<1>7. QED BY <1>2, <1>4, <1>5, <1>6 DEF PreferencesNext, Prefs!Next

\* Steps of the accounts leave the preferences alone.
LEMMA PrefsAside ==
  ASSUME PrefsInv, UNCHANGED <<stored, writer>>, shared => shared'
  PROVE  PrefsStep
<1>1. Patches /\ Migrates
  BY PrefsSame
<1>2. \A t \in Threads : Intact(t)' = Intact(t)
  BY DEF Intact
<1>3. PrefsInv'
  BY <1>2 DEF PrefsInv, Prefs!TypeOK
<1>4. QED BY <1>1, <1>3 DEF PrefsStep
-----------------------------------------------------------------------------
(* Requests that share no account                                          *)

\* The accounts a request has in hand.
Hand(t) == {thread[t].actor, thread[t].user} \ {NoUser}

Able(u) == Stored(u) /\ users[u].active /\ users[u].verified

\* What a request was let through for still holds: its copies are the rows, an
\* account that loses its access has its sessions revoked next, and only an
\* administrator changes the standing of an account.
Commands(q, u) == q.actor # NoUser /\ users[q.actor].role = "admin"

Holds(t) ==
  LET q == thread[t]
      u == q.user IN
  /\ q.at = "acting" => Stored(q.actor) /\ q.row = users[q.actor]
  /\ q.at = "login" => Able(u) /\ q.row = users[u]
  /\ q.at = "save" =>
       /\ q.row.is = "stored" /\ users[u].is # "deleted"
       /\ q.reset # NoReset => q.then = "revoke"
       /\ Stored(u) => /\ q.then = "idle" /\ Able(u) => q.row.active /\ q.row.verified
                       /\ Standing(q.row) # Standing(users[u]) => Commands(q, u)
  /\ q.at = "remove" => q.actor = u \/ Commands(q, u)

\* A session of u is that of somebody who may have it, or it will be revoked.
Guarded(k, u) ==
  /\ users[u].is # "unborn"
  /\ Revoking(u) \/ Able(u)
  /\ Revoking(u) \/ k \in kept \/ ~Stored(u) \/ opened[k] = users[u].secret

AloneInv ==
  ~shared => /\ \A t, v \in Threads : t # v => Hand(t) \cap Hand(v) = {}
             /\ \A t \in Threads : Holds(t)
             /\ \A k \in Tokens : sessions[k] \in UserIds => Guarded(k, sessions[k])

\* What a step may do to the accounts.
Rightful ==
  \A u \in UserIds :
    /\ users[u].is = "deleted" => users'[u].is = "deleted"
    /\ users[u].is = "stored" /\ users'[u].is = "stored"
         /\ Standing(users'[u]) # Standing(users[u])
       => \E t \in Threads : At(t, "save") /\ Actor(t, u)
    /\ users[u].is = "stored" /\ users'[u].is = "deleted"
       => \E t \in Threads : At(t, "remove") /\ (Actor(t, u) \/ thread[t].actor = u)

LEMMA HandsApart ==
  ASSUME AloneInv, Recorded, ~shared'
  PROVE  /\ ~shared
         /\ \A t, v \in Threads : t # v => Hand(t)' \cap Hand(v)' = {}
         /\ \A t, v \in Threads : t # v => Hand(t) \cap Hand(v) = {}
         /\ \A t \in Threads : Holds(t)
         /\ \A k \in Tokens : sessions[k] \in UserIds => Guarded(k, sessions[k])
<1>1. ~shared /\ \A t \in Threads : \A v \in Threads \ {t} : InHand(t) \cap InHand(v) = {}
  BY DEF Recorded
<1>2. \A t \in Threads : Hand(t)' = InHand(t)
  BY DEF Hand, InHand
<1>3. QED BY <1>1, <1>2 DEF AloneInv

\* A request that stays where it is, with its accounts.
LEMMA HoldsStays ==
  ASSUME IInv, NEW v \in Threads, Holds(v), thread'[v] = thread[v],
         \A u \in Hand(v) : users'[u] = users[u]
  PROVE  Holds(v)'
<1>1. Formed(thread[v]) /\ NoUser \notin UserIds
  BY Held, AccountAssumption
<1>2. thread[v].at \in {"save", "remove", "login"} =>
        users'[thread[v].user] = users[thread[v].user]
  BY <1>1 DEF Formed, Hand
<1>3. thread[v].actor # NoUser => users'[thread[v].actor] = users[thread[v].actor]
  BY DEF Hand
<1>4. thread[v].at = "acting" => thread[v].actor # NoUser
  BY <1>1 DEF Formed
<1>5. QED BY <1>2, <1>3, <1>4 DEF Holds, Stored, Able, Commands

\* A session goes on whose account does not change.
LEMMA SessionsStay ==
  ASSUME Recorded, NEW k \in Tokens, users'[sessions[k]] = users[sessions[k]],
         sessions'[k] \in UserIds, sessions[k] = sessions'[k], sessions[k] # NoUser,
         Guarded(k, sessions[k]), Revoking(sessions[k]) => Revoking(sessions[k])'
  PROVE  Guarded(k, sessions[k])'
<1>1. opened'[k] = opened[k] /\ kept \subseteq kept'
  BY DEF Recorded
<1>2. PICK u : u = sessions[k]
  OBVIOUS
<1>3. sessions'[k] = u /\ Guarded(k, u) /\ (Revoking(u) => Revoking(u)')
  BY <1>2
<1>4. Guarded(k, u)'
  BY <1>1, <1>3 DEF Guarded, Able, Stored
<1>5. QED BY <1>2, <1>3, <1>4
\* A request that moves on, or ends, without a change of an account or session.
LEMMA MoveAlone ==
  ASSUME IInv, AloneInv, Recorded, NEW t \in Threads, NEW th, Goto(t, th),
         UNCHANGED <<users, sessions>>, thread[t].at # "revoke",
         thread'[t] = th /\ ~shared /\ Holds(t) => Holds(t)'
  PROVE  AloneInv' /\ (~shared' => Rightful)
<1>1. Rightful
  BY DEF Rightful
<1>2. thread'[t] = th /\ \A v \in Threads \ {t} : thread'[v] = thread[v]
  BY DEF Goto, IInv, TypeOK
<1>3. ASSUME ~shared'
      PROVE  /\ \A u, v \in Threads : u # v => Hand(u)' \cap Hand(v)' = {}
             /\ \A v \in Threads : Holds(v)'
             /\ \A k \in Tokens : sessions'[k] \in UserIds => Guarded(k, sessions[k])'
  <2>1. /\ ~shared /\ \A u, v \in Threads : u # v => Hand(u)' \cap Hand(v)' = {}
        /\ \A v \in Threads : Holds(v)
        /\ \A k \in Tokens : sessions[k] \in UserIds => Guarded(k, sessions[k])
    BY <1>3, HandsApart
  <2>2. \A v \in Threads : Holds(v)'
    BY <1>2, <2>1, HoldsStays
  <2>3. ASSUME NEW u, Revoking(u)
        PROVE  Revoking(u)'
    BY <1>2, <2>3 DEF Revoking, At, Recorded
  <2>4. ASSUME NEW k \in Tokens, sessions'[k] \in UserIds
        PROVE  Guarded(k, sessions[k])'
    <3>1. PICK u : u = sessions[k]
      OBVIOUS
    <3>2. Revoking(sessions[k]) => Revoking(sessions[k])'
      BY <2>3, <3>1 DEF Revoking
    <3>3. QED BY <2>1, <2>4, <3>2, SessionsStay, AccountAssumption
  <2>5. QED BY <2>1, <2>2, <2>4
<1>4. QED BY <1>1, <1>3 DEF AloneInv

LEMMA LeaveAlone ==
  ASSUME IInv, AloneInv, Recorded, NEW t \in Threads, Leave(t),
         UNCHANGED <<users, sessions>>, thread[t].at # "revoke"
  PROVE  AloneInv' /\ (~shared' => Rightful)
<1>1. Idle.at = "idle"
  BY DEF Idle
<1>2. thread'[t] = Idle => Holds(t)'
  BY <1>1 DEF Holds
<1>3. QED BY <1>2, MoveAlone DEF Leave

\* A request goes on to save a row.
LEMMA SavingAlone ==
  ASSUME IInv, AloneInv, Recorded, NEW t \in Threads, NEW u \in UserIds, NEW row,
         NEW then \in {"idle", "revoke"}, Goto(t, Saving(t, u, row, then)),
         UNCHANGED <<users, sessions>>, thread[t].at # "revoke",
         row.is = "stored", thread[t].reset # NoReset => then = "revoke",
         ~shared /\ Holds(t) =>
           /\ users[u].is # "deleted"
           /\ Stored(u) => /\ then = "idle" /\ Able(u) => row.active /\ row.verified
                           /\ Standing(row) # Standing(users[u]) => Commands(thread[t], u)
  PROVE  AloneInv' /\ (~shared' => Rightful)
<1> DEFINE th == Saving(t, u, row, then)
<1>1. thread[t] \in Request
  BY Held
<1>2. /\ th.at = "save" /\ th.user = u /\ th.row = row /\ th.then = then
      /\ th.reset = thread[t].reset /\ th.actor = thread[t].actor
  BY <1>1 DEF Saving, Request
<1> HIDE DEF th
<1>3. ASSUME thread'[t] = th, ~shared, Holds(t)
      PROVE  Holds(t)'
  BY <1>2, <1>3 DEF Holds, Stored, Able, Commands
<1>4. Goto(t, th)
  BY DEF th
<1>5. QED BY <1>3, <1>4, MoveAlone

LEMMA VisitorAlone ==
  ASSUME IInv, AloneInv, Recorded, NEW t \in Threads, Visitor(t), UNCHANGED sessions
  PROVE  AloneInv' /\ (~shared' => Rightful)
<1>1. thread[t].at = "idle" => thread[t].reset = NoReset
  BY Held DEF Formed
<1>2. ASSUME NEW u \in UserIds, NEW e \in Emails, NEW s \in Secrets, Register(t, u, e, s)
      PROVE  AloneInv' /\ (~shared' => Rightful)
  <2> DEFINE row == Registered(e, s)
  <2>1. row.is = "stored"
    BY DEF Registered
  <2>2. /\ thread[t].at = "idle" /\ users[u].is = "unborn" /\ UNCHANGED users
        /\ Goto(t, Saving(t, u, row, "idle"))
    BY <1>2 DEF Register, At, Fresh
  <2> HIDE DEF row
  <2>3. QED BY <1>1, <2>1, <2>2, SavingAlone DEF Stored
<1>3. ASSUME NEW u \in UserIds, NEW s \in Secrets, LoginCheck(t, u, s)
      PROVE  AloneInv' /\ (~shared' => Rightful)
  <2> DEFINE th == [Idle EXCEPT !.at = "login", !.user = u, !.row = users[u]]
  <2>1. th.at = "login" /\ th.user = u /\ th.row = users[u]
    BY DEF Idle
  <2>2. thread[t].at = "idle" /\ Able(u) /\ UNCHANGED users /\ Goto(t, th)
    BY <1>3 DEF LoginCheck, At, Able
  <2> HIDE DEF th
  <2>3. thread'[t] = th => Holds(t)'
    BY <2>1, <2>2 DEF Holds, Able, Stored
  <2>4. QED BY <2>2, <2>3, MoveAlone
<1>4. ASSUME NEW u \in UserIds, VerifyEmail(t, u)
      PROVE  AloneInv' /\ (~shared' => Rightful)
  <2> DEFINE row == [users[u] EXCEPT !.verified = TRUE]
  <2>1. /\ thread[t].at = "idle" /\ Stored(u) /\ UNCHANGED users
        /\ Goto(t, Saving(t, u, row, "idle"))
    BY <1>4 DEF VerifyEmail, At
  <2>2. /\ row.is = users[u].is /\ row.active = users[u].active /\ row.verified
        /\ Standing(row) = Standing(users[u])
    BY Rows DEF Row, Standing
  <2> HIDE DEF row
  <2>3. QED BY <1>1, <2>1, <2>2, SavingAlone DEF Stored, Able
<1>5. CASE \E k \in Tokens : LoginSave(t, k)
  <2>1. FALSE
    BY <1>5, Held, AccountAssumption DEF LoginSave, At, Formed, IInv, TypeOK
  <2>2. QED BY <2>1
<1>6. QED BY <1>2, <1>3, <1>4, <1>5 DEF Visitor
\* A request goes on to a step at which nothing has to hold.
LEMMA AsideAlone ==
  ASSUME IInv, AloneInv, Recorded, NEW t \in Threads, NEW th, Goto(t, th),
         UNCHANGED <<users, sessions>>, thread[t].at # "revoke",
         th.at \notin {"acting", "login", "save", "remove"}
  PROVE  AloneInv' /\ (~shared' => Rightful)
<1>1. thread'[t] = th => Holds(t)'
  BY DEF Holds
<1>2. QED BY <1>1, MoveAlone

LEMMA ResetAlone ==
  ASSUME IInv, AloneInv, Recorded, NEW t \in Threads, ResetRoutes(t)
  PROVE  AloneInv' /\ (~shared' => Rightful)
<1>1. UNCHANGED <<users, sessions>> /\ thread[t].at # "revoke" /\ thread[t] \in Request
  BY Held DEF ResetRoutes, LookReset, ClaimReset, LoadForReset, At
<1>2. ASSUME NEW r \in ResetIds, NEW s \in Secrets, LookReset(t, r, s)
      PROVE  AloneInv' /\ (~shared' => Rightful)
  <2> DEFINE th == [Idle EXCEPT !.at = "claim", !.reset = r, !.secret = s, !.user = resets[r].user]
  <2>1. th.at = "claim" /\ Goto(t, th)
    BY <1>2 DEF Idle, LookReset
  <2> HIDE DEF th
  <2>2. QED BY <1>1, <2>1, AsideAlone
<1>3. CASE ClaimReset(t)
  <2> DEFINE th == [thread[t] EXCEPT !.at = "load"]
  <2>1. th.at = "load" /\ (Leave(t) \/ Goto(t, th))
    BY <1>1, <1>3 DEF ClaimReset, Request
  <2> HIDE DEF th
  <2>2. QED BY <1>1, <2>1, AsideAlone, LeaveAlone
<1>4. CASE LoadForReset(t)
  <2> DEFINE u == thread[t].user
             row == [users[u] EXCEPT !.secret = thread[t].secret]
  <2>1. u \in UserIds /\ (Leave(t) \/ (Stored(u) /\ Goto(t, Saving(t, u, row, "revoke"))))
    BY <1>4, Held DEF LoadForReset, At, Formed
  <2>2. /\ row.is = users[u].is /\ row.active = users[u].active /\ row.verified = users[u].verified
        /\ Standing(row) = Standing(users[u])
    BY <2>1, Rows DEF Row, Standing
  <2> HIDE DEF row
  <2>3. QED BY <1>1, <2>1, <2>2, LeaveAlone, SavingAlone DEF Stored
<1>5. QED BY <1>2, <1>3, <1>4 DEF ResetRoutes

\* The routes of the current user, but for those that change sessions.
LEMMA MyAlone ==
  ASSUME IInv, AloneInv, Recorded, NEW t \in Threads, MyRoutes(t), UNCHANGED sessions
  PROVE  AloneInv' /\ (~shared' => Rightful)
<1>1. /\ UNCHANGED users /\ thread[t].at \in {"idle", "known", "acting"} /\ thread[t] \in Request
      /\ thread[t].reset = NoReset
  BY Held DEF MyRoutes, Authenticate, LoadActor, Logout, DeleteMe, UpdateMe, ChangePassword, At, Formed
<1>2. thread[t].at # "idle" => thread[t].actor \in UserIds
  BY <1>1, Held DEF Formed
<1>3. ASSUME NEW k \in Tokens, Authenticate(t, k)
      PROVE  AloneInv' /\ (~shared' => Rightful)
  <2> DEFINE th == [Idle EXCEPT !.at = "known", !.actor = sessions[k], !.token = k]
  <2>1. th.at = "known" /\ Goto(t, th)
    BY <1>3 DEF Idle, Authenticate
  <2> HIDE DEF th
  <2>2. QED BY <1>1, <2>1, AsideAlone
<1>4. CASE LoadActor(t)
  <2> DEFINE u == thread[t].actor
             th == [thread[t] EXCEPT !.at = "acting", !.row = users[u]]
  <2>1. u \in UserIds /\ (Leave(t) \/ (Stored(u) /\ Goto(t, th)))
    BY <1>2, <1>4 DEF LoadActor, At
  <2>2. th.at = "acting" /\ th.actor = u /\ th.row = users[u]
    BY <1>1 DEF Request
  <2> HIDE DEF th
  <2>3. Stored(u) /\ thread'[t] = th => Holds(t)'
    BY <1>1, <2>2 DEF Holds, Stored
  <2>4. QED BY <1>1, <2>1, <2>3, LeaveAlone, MoveAlone
<1>5. CASE Logout(t)
  BY <1>1, <1>5, LeaveAlone DEF Logout
<1>6. CASE DeleteMe(t)
  <2> DEFINE th == [thread[t] EXCEPT !.at = "remove", !.user = thread[t].actor]
  <2>1. th.at = "remove" /\ th.user = th.actor /\ Goto(t, th)
    BY <1>1, <1>6 DEF Request, DeleteMe
  <2> HIDE DEF th
  <2>2. thread'[t] = th => Holds(t)'
    BY <2>1 DEF Holds
  <2>3. QED BY <1>1, <2>1, <2>2, MoveAlone
<1>7. ASSUME NEW e \in Emails, NEW s \in Secrets, NEW then \in {"idle", "revoke"}, NEW row,
             \/ row = [thread[t].row EXCEPT !.email = e]
             \/ row = [thread[t].row EXCEPT !.secret = s],
             thread[t].at = "acting", Goto(t, Saving(t, thread[t].actor, row, then)), ~shared => Holds(t)
      PROVE  AloneInv' /\ (~shared' => Rightful)
  <2>1. PICK old \in Row, u \in UserIds : old = thread[t].row /\ u = thread[t].actor
    BY <1>1, <1>2, <1>7 DEF Request
  <2>2. /\ row.is = old.is /\ row.active = old.active /\ row.verified = old.verified
        /\ Standing(row) = Standing(old)
    BY <1>7, <2>1 DEF Row, Standing
  <2>3. CASE shared
    <3>1. shared'
      BY <2>3 DEF Recorded
    <3>2. QED BY <3>1 DEF AloneInv
  <2>4. CASE ~shared
    <3>1. Stored(u) /\ old = users[u]
      BY <1>7, <2>1, <2>4 DEF Holds
    <3>2. QED BY <1>1, <1>7, <2>1, <2>2, <3>1, SavingAlone DEF Stored, Able
  <2>5. QED BY <2>3, <2>4
<1>8. ~shared => Holds(t)
  BY DEF AloneInv
<1>9. ASSUME NEW e \in Emails, UpdateMe(t, e)
      PROVE  AloneInv' /\ (~shared' => Rightful)
  BY <1>7, <1>8, <1>9, AccountAssumption DEF UpdateMe, At
<1>10. ASSUME NEW s \in Secrets, NEW then \in {"idle", "revoke"}, ChangePassword(t, s, then)
      PROVE  AloneInv' /\ (~shared' => Rightful)
  BY <1>7, <1>8, <1>10, AccountAssumption DEF ChangePassword, At
<1>11. QED BY <1>3, <1>4, <1>5, <1>6, <1>9, <1>10 DEF MyRoutes

LEMMA AdminAlone ==
  ASSUME IInv, AloneInv, Recorded, NEW t \in Threads, AdminRoutes(t)
  PROVE  AloneInv' /\ (~shared' => Rightful)
<1>1. /\ UNCHANGED <<users, sessions>> /\ thread[t].at = "acting" /\ thread[t] \in Request
      /\ thread[t].reset = NoReset /\ thread[t].actor \in UserIds
      /\ thread[t].row.role = "admin"
  BY Held DEF AdminRoutes, AdminCreate, AdminUpdate, AdminDelete, Authorized, At, Formed, Permits
<1>2. ~shared => Commands(thread[t], NoUser)
  BY <1>1, AccountAssumption DEF AloneInv, Holds, Commands
<1>3. ASSUME NEW u \in UserIds, NEW row \in NewRows, AdminCreate(t, u, row)
      PROVE  AloneInv' /\ (~shared' => Rightful)
  <2>1. row.is = "stored" /\ users[u].is = "unborn" /\ Goto(t, Saving(t, u, row, "idle"))
    BY <1>3, BodyAssumption DEF AdminCreate, Fresh
  <2>2. QED BY <1>1, <2>1, SavingAlone DEF Stored
<1>4. ASSUME NEW u \in UserIds, NEW d \in Edits, AdminUpdate(t, u, d)
      PROVE  AloneInv' /\ (~shared' => Rightful)
  <2> DEFINE row == [users[u] EXCEPT !.email = d.email, !.role = d.role,
                                    !.level = d.level, !.active = d.active]
  <2>1. /\ row.is = users[u].is /\ row.active = d.active /\ row.verified = users[u].verified
    BY Rows DEF Row
  <2>2. PICK then \in {"idle", "revoke"} :
          /\ Goto(t, Saving(t, u, row, then)) /\ Stored(u)
          /\ then = "idle" => d.active \/ ~users[u].active
    BY <1>4 DEF AdminUpdate
  <2> HIDE DEF row
  <2>3. ~shared => Commands(thread[t], u)
    BY <1>2 DEF Commands
  <2>4. CASE shared
    <3>1. shared'
      BY <2>4 DEF Recorded
    <3>2. QED BY <3>1 DEF AloneInv
  <2>5. CASE ~shared
    BY <1>1, <2>1, <2>2, <2>3, <2>5, SavingAlone DEF Stored, Able
  <2>6. QED BY <2>4, <2>5
<1>5. ASSUME NEW u \in UserIds, AdminDelete(t, u)
      PROVE  AloneInv' /\ (~shared' => Rightful)
  <2> DEFINE th == [thread[t] EXCEPT !.at = "remove", !.user = u]
  <2>1. th.at = "remove" /\ th.actor = thread[t].actor /\ Goto(t, th)
    BY <1>1, <1>5 DEF Request, AdminDelete
  <2> HIDE DEF th
  <2>2. thread'[t] = th /\ ~shared => Holds(t)'
    BY <1>1, <1>2, <2>1 DEF Holds, Commands
  <2>3. QED BY <1>1, <2>1, <2>2, MoveAlone
<1>6. QED BY <1>3, <1>4, <1>5 DEF AdminRoutes

-----------------------------------------------------------------------------
\* Requests go on or end, and so do sessions.
LEMMA SettleAlone ==
  ASSUME IInv, AloneInv, Recorded, UNCHANGED users,
         \A v \in Threads : thread'[v] = thread[v] \/ thread'[v].at = "idle",
         \A k \in Tokens : sessions'[k] \in UserIds =>
           sessions'[k] = sessions[k] /\ (Revoking(sessions[k]) => Revoking(sessions[k])')
  PROVE  AloneInv' /\ (~shared' => Rightful)
<1>1. Rightful
  BY DEF Rightful
<1>2. ASSUME ~shared'
      PROVE  /\ \A u, v \in Threads : u # v => Hand(u)' \cap Hand(v)' = {}
             /\ \A v \in Threads : Holds(v)'
             /\ \A k \in Tokens : sessions'[k] \in UserIds => Guarded(k, sessions[k])'
  <2>1. /\ ~shared /\ \A u, v \in Threads : u # v => Hand(u)' \cap Hand(v)' = {}
        /\ \A v \in Threads : Holds(v)
        /\ \A k \in Tokens : sessions[k] \in UserIds => Guarded(k, sessions[k])
    BY <1>2, HandsApart
  <2>2. ASSUME NEW v \in Threads
        PROVE  Holds(v)'
    <3>1. CASE thread'[v] = thread[v]
      BY <2>1, <3>1, HoldsStays
    <3>2. CASE thread'[v].at = "idle"
      BY <3>2 DEF Holds
    <3>3. QED BY <3>1, <3>2
  <2>3. ASSUME NEW k \in Tokens, sessions'[k] \in UserIds
        PROVE  Guarded(k, sessions[k])'
    BY <2>1, <2>3, SessionsStay, AccountAssumption
  <2>4. QED BY <2>1, <2>2, <2>3
<1>3. QED BY <1>1, <1>2 DEF AloneInv

LEMMA LogoutAlone ==
  ASSUME IInv, AloneInv, Recorded, NEW t \in Threads, Logout(t)
  PROVE  AloneInv' /\ (~shared' => Rightful)
<1>1. /\ thread[t].at = "acting" /\ UNCHANGED users /\ Idle.at = "idle"
      /\ thread' = [thread EXCEPT ![t] = Idle]
      /\ sessions' = [sessions EXCEPT ![thread[t].token] = Ended]
  BY DEF Logout, At, Leave, Goto, Idle
<1>2. \A v \in Threads : thread'[v] = thread[v] \/ thread'[v].at = "idle"
  BY <1>1 DEF IInv, TypeOK
<1>3. \A u : Revoking(u) => Revoking(u)'
  BY <1>1 DEF Revoking, At, Recorded, IInv, TypeOK
<1>4. ASSUME NEW k \in Tokens, sessions'[k] \in UserIds
      PROVE  sessions'[k] = sessions[k] /\ (Revoking(sessions[k]) => Revoking(sessions[k])')
  <2>1. sessions'[k] = sessions[k]
    BY <1>1, <1>4, AccountAssumption DEF IInv, TypeOK
  <2>2. PICK u : u = sessions[k]
    OBVIOUS
  <2>3. QED BY <1>3, <2>1, <2>2 DEF Revoking
<1>5. QED BY <1>1, <1>2, <1>4, SettleAlone

\* The sessions of the account a request has in hand are revoked.
LEMMA RevokeAlone ==
  ASSUME IInv, AloneInv, Recorded, NEW t \in Threads, Revoke(t)
  PROVE  AloneInv' /\ (~shared' => Rightful)
<1>1. /\ thread[t].at = "revoke" /\ UNCHANGED users /\ Idle.at = "idle"
      /\ thread' = [thread EXCEPT ![t] = Idle]
      /\ sessions' = [k \in Tokens |-> IF sessions[k] = thread[t].user THEN Ended ELSE sessions[k]]
  BY DEF Revoke, At, Leave, Goto, Idle
<1>2. \A v \in Threads : thread'[v] = thread[v] \/ thread'[v].at = "idle"
  BY <1>1 DEF IInv, TypeOK
<1>3. \A u : u # thread[t].user /\ Revoking(u) => Revoking(u)'
  BY <1>1 DEF Revoking, At, Recorded, IInv, TypeOK
<1>4. ASSUME NEW k \in Tokens, sessions'[k] \in UserIds
      PROVE  sessions'[k] = sessions[k] /\ (Revoking(sessions[k]) => Revoking(sessions[k])')
  <2>1. sessions'[k] = sessions[k] /\ sessions[k] # thread[t].user
    BY <1>1, <1>4, AccountAssumption
  <2>2. PICK u : u = sessions[k]
    OBVIOUS
  <2>3. QED BY <1>3, <2>1, <2>2 DEF Revoking
<1>5. QED BY <1>1, <1>2, <1>4, SettleAlone

\* A request that dies leaves its account among those cut.
LEMMA CrashAlone ==
  ASSUME IInv, AloneInv, Recorded, Crash
  PROVE  AloneInv' /\ (~shared' => Rightful)
<1>1. /\ UNCHANGED <<users, sessions>> /\ Idle.at = "idle"
      /\ thread' = [t \in Threads |-> Idle]
  BY DEF Crash, Idle
<1>2. \A v \in Threads : thread'[v].at = "idle"
  BY <1>1
<1>3. ASSUME NEW k \in Tokens, sessions[k] \in UserIds, NEW u, u = sessions[k], Revoking(u)
      PROVE  Revoking(u)'
  <2>1. CASE u \in cut
    BY <2>1 DEF Recorded, Revoking
  <2>2. ASSUME NEW t \in Threads, At(t, "revoke"), thread[t].user = u
        PROVE  Revoking(u)'
    <3>1. t \in Dropped
      BY <1>1, <1>2, <2>2 DEF Dropped
    <3>2. u \in cut'
      BY <1>3, <2>2, <3>1 DEF Recorded
    <3>3. QED BY <3>2 DEF Revoking
  <2>3. QED BY <1>3, <2>1, <2>2 DEF Revoking
<1>4. ASSUME NEW k \in Tokens, sessions'[k] \in UserIds
      PROVE  sessions'[k] = sessions[k] /\ (Revoking(sessions[k]) => Revoking(sessions[k])')
  <2>1. PICK u : u = sessions[k]
    OBVIOUS
  <2>2. QED BY <1>1, <1>3, <1>4, <2>1 DEF Revoking
<1>5. QED BY <1>1, <1>2, <1>4, SettleAlone

\* Links and sessions expire, and links are issued, outside the requests.
LEMMA OutsideAlone ==
  ASSUME IInv, AloneInv, Recorded, UNCHANGED <<users, thread>>,
         UNCHANGED sessions \/ \E k \in Tokens : ExpireSession(k)
  PROVE  AloneInv' /\ (~shared' => Rightful)
<1>1. \A u : Revoking(u) => Revoking(u)'
  BY DEF Revoking, At, Recorded
<1>2. ASSUME NEW k \in Tokens, sessions'[k] \in UserIds
      PROVE  sessions'[k] = sessions[k] /\ (Revoking(sessions[k]) => Revoking(sessions[k])')
  <2>1. sessions'[k] = sessions[k]
    BY <1>2, AccountAssumption DEF ExpireSession, IInv, TypeOK
  <2>2. PICK u : u = sessions[k]
    OBVIOUS
  <2>3. QED BY <1>1, <2>1, <2>2 DEF Revoking
<1>3. QED BY <1>2, SettleAlone

\* A session begins: its account is that of the row which was let through.
LEMMA LoginAlone ==
  ASSUME IInv, AloneInv, Recorded, NEW t \in Threads, NEW k \in Tokens, LoginSave(t, k)
  PROVE  AloneInv' /\ (~shared' => Rightful)
<1>1. /\ At(t, "login") /\ UNCHANGED users /\ Idle.at = "idle" /\ sessions[k] = NoUser
      /\ thread' = [thread EXCEPT ![t] = Idle]
      /\ sessions' = [sessions EXCEPT ![k] = thread[t].user]
  BY DEF LoginSave, Leave, Goto, Idle
<1>2. thread'[t] = Idle /\ \A v \in Threads \ {t} : thread'[v] = thread[v]
  BY <1>1 DEF IInv, TypeOK
<1>3. Rightful
  BY <1>1 DEF Rightful
<1>4. \A u : Revoking(u) => Revoking(u)'
  BY <1>1, <1>2 DEF Revoking, At, Recorded
<1>5. PICK u \in UserIds : u = thread[t].user
  BY <1>1, Held DEF At, Formed
<1>6. u # NoUser /\ sessions'[k] = u
  BY <1>1, <1>5, AccountAssumption DEF IInv, TypeOK
<1>7. opened'[k] = thread[t].row.secret
  <2>1. \A v \in Threads : At(v, "login") /\ thread'[v].at = "idle" <=> v = t
    BY <1>1, <1>2 DEF At
  <2>2. (CHOOSE v \in Threads : At(v, "login") /\ thread'[v].at = "idle") = t
    BY <2>1
  <2>3. QED BY <1>1, <1>6, <2>2 DEF Recorded
<1>8. ASSUME ~shared'
      PROVE  /\ \A x, v \in Threads : x # v => Hand(x)' \cap Hand(v)' = {}
             /\ \A v \in Threads : Holds(v)'
             /\ \A l \in Tokens : sessions'[l] \in UserIds => Guarded(l, sessions[l])'
  <2>1. /\ ~shared /\ \A x, v \in Threads : x # v => Hand(x)' \cap Hand(v)' = {}
        /\ \A v \in Threads : Holds(v)
        /\ \A l \in Tokens : sessions[l] \in UserIds => Guarded(l, sessions[l])
    BY <1>8, HandsApart
  <2>2. ASSUME NEW v \in Threads
        PROVE  Holds(v)'
    <3>1. CASE v # t
      BY <1>1, <1>2, <2>1, <3>1, HoldsStays
    <3>2. CASE v = t
      BY <1>1, <1>2, <3>2 DEF Holds
    <3>3. QED BY <3>1, <3>2
  <2>3. ASSUME NEW l \in Tokens, sessions'[l] \in UserIds, l # k
        PROVE  Guarded(l, sessions[l])'
    <3>1. sessions'[l] = sessions[l]
      BY <1>1, <2>3 DEF IInv, TypeOK
    <3>2. PICK x : x = sessions[l]
      OBVIOUS
    <3>3. Revoking(sessions[l]) => Revoking(sessions[l])'
      BY <1>4, <3>1, <3>2 DEF Revoking
    <3>4. QED BY <1>1, <2>1, <2>3, <3>1, <3>3, SessionsStay, AccountAssumption
  <2>4. Guarded(k, u)'
    <3>1. Able(u) /\ thread[t].row = users[u]
      BY <1>1, <1>5, <2>1 DEF Holds, At
    <3>2. QED BY <1>1, <1>7, <3>1 DEF Guarded, Able, Stored
  <2>5. Guarded(k, sessions[k])'
    BY <1>6, <2>4 DEF Guarded
  <2>6. QED BY <2>1, <2>2, <2>3, <2>5
<1>9. QED BY <1>3, <1>8 DEF AloneInv

\* A request writes the row of an account it has in hand.
LEMMA WriteAlone ==
  ASSUME IInv, AloneInv, Recorded, NEW t \in Threads, NEW u \in UserIds, u = thread[t].user,
         NEW row, users' = [users EXCEPT ![u] = row], UNCHANGED sessions,
         thread[t].at # "revoke",
         NEW q, thread' = [thread EXCEPT ![t] = q], q.at \in {"idle", "revoke"},
         NEW k \in Tokens, sessions[k] \in UserIds, ~shared',
         sessions[k] = u /\ Holds(t) /\ Guarded(k, u) => Guarded(k, u)'
  PROVE  Guarded(k, sessions[k])'
<1>1. thread'[t] = q /\ \A v \in Threads \ {t} : thread'[v] = thread[v]
  BY DEF IInv, TypeOK
<1>2. /\ ~shared /\ Holds(t)
      /\ \A l \in Tokens : sessions[l] \in UserIds => Guarded(l, sessions[l])
  BY HandsApart
<1>3. CASE sessions[k] = u
  <2>1. Guarded(k, u)
    BY <1>2, <1>3
  <2>2. Guarded(k, u)'
    BY <1>2, <1>3, <2>1
  <2>3. PICK x : x = u
    OBVIOUS
  <2>4. sessions'[k] = x /\ Guarded(k, x)'
    BY <1>3, <2>2, <2>3 DEF Guarded, Revoking
  <2>5. QED BY <2>4
<1>4. CASE sessions[k] # u
  <2>1. users'[sessions[k]] = users[sessions[k]]
    BY <1>4 DEF IInv, TypeOK
  <2>2. PICK x : x = sessions[k]
    OBVIOUS
  <2>3. Revoking(x) => Revoking(x)'
    BY <1>1 DEF Revoking, At, Recorded
  <2>4. Revoking(sessions[k]) => Revoking(sessions[k])'
    BY <2>2, <2>3 DEF Revoking
  <2>5. QED BY <1>2, <2>1, <2>4, SessionsStay, AccountAssumption
<1>5. QED BY <1>3, <1>4

\* The requests that have other accounts in hand are not disturbed.
LEMMA WriteApart ==
  ASSUME IInv, AloneInv, Recorded, NEW t \in Threads, NEW u \in UserIds, u = thread[t].user,
         NEW row, users' = [users EXCEPT ![u] = row],
         NEW q, thread' = [thread EXCEPT ![t] = q], q.at \in {"idle", "revoke"}, ~shared'
  PROVE  /\ \A x, v \in Threads : x # v => Hand(x)' \cap Hand(v)' = {}
         /\ \A v \in Threads : Holds(v)'
<1>1. thread'[t] = q /\ \A v \in Threads \ {t} : thread'[v] = thread[v]
  BY DEF IInv, TypeOK
<1>2. /\ \A x, v \in Threads : x # v => Hand(x)' \cap Hand(v)' = {}
      /\ \A x, v \in Threads : x # v => Hand(x) \cap Hand(v) = {}
      /\ \A v \in Threads : Holds(v)
  BY HandsApart
<1>3. u \in Hand(t)
  BY AccountAssumption DEF Hand
<1>4. ASSUME NEW v \in Threads
      PROVE  Holds(v)'
  <2>1. CASE v # t
    <3>1. \A x \in Hand(v) : users'[x] = users[x]
      BY <1>2, <1>3, <2>1 DEF IInv, TypeOK
    <3>2. QED BY <1>1, <1>2, <2>1, <3>1, HoldsStays
  <2>2. CASE v = t
    BY <1>1, <2>2 DEF Holds
  <2>3. QED BY <2>1, <2>2
<1>5. QED BY <1>2, <1>4

LEMMA SaveAlone ==
  ASSUME IInv, AloneInv, Recorded, NEW t \in Threads, Save(t)
  PROVE  AloneInv' /\ (~shared' => Rightful)
<1>1. thread[t].at = "save" /\ UNCHANGED sessions
  BY DEF Save, At
<1>2. PICK u \in UserIds : u = thread[t].user
  BY <1>1, Held DEF Formed
<1>3. PICK row \in Row : row = thread[t].row
  BY Held DEF Request
<1>4. CASE UNCHANGED users /\ Leave(t)
  BY <1>1, <1>4, LeaveAlone
<1>5. CASE /\ users' = [users EXCEPT ![u] = row]
           /\ IF thread[t].then = "idle" THEN Leave(t)
              ELSE Goto(t, [thread[t] EXCEPT !.at = "revoke", !.row = Blank])
  <2>1. PICK q : /\ thread' = [thread EXCEPT ![t] = q]
                 /\ IF thread[t].then = "idle" THEN q.at = "idle" ELSE q.at = "revoke" /\ q.user = u
    <3> DEFINE q == [thread[t] EXCEPT !.at = "revoke", !.row = Blank]
    <3>1. q.at = "revoke" /\ q.user = u /\ Idle.at = "idle"
      BY <1>2, Held DEF Request, Idle
    <3>2. IF thread[t].then = "idle" THEN thread' = [thread EXCEPT ![t] = Idle]
          ELSE thread' = [thread EXCEPT ![t] = q]
      BY <1>5 DEF Leave, Goto
    <3> HIDE DEF q
    <3>3. QED BY <3>1, <3>2
  <2>2. /\ thread'[t] = q /\ \A v \in Threads \ {t} : thread'[v] = thread[v]
        /\ users'[u] = row
    BY <1>5, <2>1 DEF IInv, TypeOK
  <2>3. ASSUME NEW k \in Tokens, sessions[k] = u, Holds(t), Guarded(k, u)
        PROVE  Guarded(k, u)'
    <3>1. /\ row.is = "stored"
          /\ thread[t].then = "idle" => thread[t].reset = NoReset
          /\ Stored(u) /\ thread[t].then = "idle" /\ Able(u) => row.active /\ row.verified
      BY <1>1, <1>2, <1>3, <2>3 DEF Holds
    <3>2. CASE Revoking(u)
      BY <1>1, <2>2, <3>1, <3>2 DEF Guarded, Revoking, At, Recorded
    <3>3. CASE thread[t].then # "idle"
      BY <1>2, <2>1, <2>2, <3>1, <3>3 DEF Guarded, Revoking, At
    <3>4. CASE ~Revoking(u) /\ thread[t].then = "idle"
      <4>1. Able(u) /\ row.active /\ row.verified
        BY <2>3, <3>1, <3>4 DEF Guarded, Able
      <4>2. Able(u)'
        BY <2>2, <3>1, <4>1 DEF Able, Stored
      <4>3. opened'[k] = opened[k]
        BY <1>1, <1>2, <2>3, AccountAssumption DEF Recorded
      <4>4. k \in kept' \/ opened'[k] = row.secret
        <5>1. CASE row.secret = users[u].secret
          BY <2>3, <3>4, <4>1, <4>3, <5>1 DEF Guarded, Able, Recorded
        <5>2. CASE row.secret # users[u].secret
          <6>1. /\ At(t, "save") /\ sessions[k] = thread[t].user
                /\ thread[t].reset = NoReset /\ thread[t].then = "idle"
                /\ users'[thread[t].user].secret # users[thread[t].user].secret
            BY <1>1, <1>2, <2>2, <2>3, <3>1, <3>4, <5>2 DEF At
          <6>2. QED BY <6>1 DEF Recorded
        <5>3. QED BY <5>1, <5>2
      <4>5. QED BY <2>2, <3>1, <4>2, <4>4 DEF Guarded
    <3>5. QED BY <3>2, <3>3, <3>4
  <2>4. ASSUME ~shared'
        PROVE  AloneInv'
    <3>1. ASSUME NEW k \in Tokens, sessions[k] \in UserIds
          PROVE  Guarded(k, sessions[k])'
      BY <1>1, <1>2, <1>5, <2>1, <2>3, <2>4, <3>1, WriteAlone
    <3>2. /\ \A x, v \in Threads : x # v => Hand(x)' \cap Hand(v)' = {}
          /\ \A v \in Threads : Holds(v)'
      BY <1>2, <1>5, <2>1, <2>4, WriteApart
    <3>3. QED BY <1>1, <3>1, <3>2 DEF AloneInv
  <2>5. ASSUME ~shared'
        PROVE  Rightful
    <3>1. Holds(t)
      BY <2>5, HandsApart
    <3>2. /\ row.is = "stored" /\ users[u].is # "deleted"
          /\ Stored(u) /\ Standing(row) # Standing(users[u]) => Commands(thread[t], u)
      BY <1>1, <1>2, <1>3, <3>1 DEF Holds
    <3>3. \A v \in UserIds : users'[v] = IF v = u THEN row ELSE users[v]
      BY <1>5 DEF IInv, TypeOK
    <3>4. QED BY <1>1, <1>2, <3>2, <3>3 DEF Rightful, Actor, Commands, At, Stored
  <2>6. QED BY <2>4, <2>5 DEF AloneInv
<1>6. QED BY <1>2, <1>3, <1>4, <1>5 DEF Save

LEMMA RemoveAlone ==
  ASSUME IInv, AloneInv, Recorded, NEW t \in Threads, Remove(t)
  PROVE  AloneInv' /\ (~shared' => Rightful)
<1>1. thread[t].at = "remove" /\ UNCHANGED sessions
  BY DEF Remove, At
<1>2. PICK u \in UserIds : u = thread[t].user
  BY <1>1, Held DEF Formed
<1>3. PICK row : row.is = "deleted" /\ users' = [users EXCEPT ![u] = row]
  <2> DEFINE row == [Blank EXCEPT !.is = "deleted"]
  <2>1. row.is = "deleted" /\ users' = [users EXCEPT ![u] = row]
    BY <1>2, RowsMade DEF Remove, Row
  <2> HIDE DEF row
  <2>2. QED BY <2>1
<1>4. PICK q : thread' = [thread EXCEPT ![t] = q] /\ q.at = "revoke" /\ q.user = u
  <2> DEFINE q == [thread[t] EXCEPT !.at = "revoke", !.row = Blank]
  <2>1. q.at = "revoke" /\ q.user = u /\ thread' = [thread EXCEPT ![t] = q]
    BY <1>2, Held DEF Request, Remove, Goto
  <2> HIDE DEF q
  <2>2. QED BY <2>1
<1>5. thread'[t] = q /\ users'[u] = row
  BY <1>3, <1>4 DEF IInv, TypeOK
<1>6. ASSUME ~shared'
      PROVE  AloneInv'
  <2>1. \A k \in Tokens : Guarded(k, u)'
    BY <1>2, <1>3, <1>4, <1>5 DEF Guarded, Revoking, At
  <2>2. ASSUME NEW k \in Tokens, sessions[k] \in UserIds
        PROVE  Guarded(k, sessions[k])'
    <3>1. Guarded(k, u)'
      BY <2>1
    <3>2. QED BY <1>1, <1>2, <1>3, <1>4, <1>6, <2>2, <3>1, WriteAlone
  <2>3. /\ \A x, v \in Threads : x # v => Hand(x)' \cap Hand(v)' = {}
        /\ \A v \in Threads : Holds(v)'
    BY <1>2, <1>3, <1>4, <1>6, WriteApart
  <2>4. QED BY <1>1, <2>2, <2>3 DEF AloneInv
<1>7. ASSUME ~shared'
      PROVE  Rightful
  <2>1. Holds(t)
    BY <1>7, HandsApart
  <2>2. thread[t].actor = u \/ Commands(thread[t], u)
    BY <1>1, <1>2, <2>1 DEF Holds
  <2>3. \A v \in UserIds : users'[v] = IF v = u THEN row ELSE users[v]
    BY <1>3 DEF IInv, TypeOK
  <2>4. QED BY <1>1, <1>2, <1>3, <2>2, <2>3 DEF Rightful, Actor, Commands, At
<1>8. QED BY <1>6, <1>7 DEF AloneInv

LEMMA AccountsAlone ==
  ASSUME IInv, AloneInv, Recorded, Next
  PROVE  AloneInv' /\ (~shared' => Rightful)
<1>1. ASSUME NEW t \in Threads, Visitor(t)
      PROVE  AloneInv' /\ (~shared' => Rightful)
  <2>1. UNCHANGED sessions \/ \E k \in Tokens : LoginSave(t, k)
    BY <1>1 DEF Visitor, Register, LoginCheck, VerifyEmail
  <2>2. QED BY <1>1, <2>1, VisitorAlone, LoginAlone
<1>2. ASSUME NEW t \in Threads, MyRoutes(t)
      PROVE  AloneInv' /\ (~shared' => Rightful)
  <2>1. UNCHANGED sessions \/ Logout(t)
    BY <1>2 DEF MyRoutes, Authenticate, LoadActor, DeleteMe, UpdateMe, ChangePassword
  <2>2. QED BY <1>2, <2>1, MyAlone, LogoutAlone
<1>3. ASSUME NEW t \in Threads,
             ResetRoutes(t) \/ AdminRoutes(t) \/ Save(t) \/ Remove(t) \/ Revoke(t)
      PROVE  AloneInv' /\ (~shared' => Rightful)
  BY <1>3, ResetAlone, AdminAlone, SaveAlone, RemoveAlone, RevokeAlone
<1>4. CASE \/ \E u \in UserIds, r \in ResetIds : IssueReset(u, r)
           \/ \E r \in ResetIds : ExpireReset(r)
           \/ \E k \in Tokens : ExpireSession(k)
  <2>1. UNCHANGED <<users, thread>> /\ (UNCHANGED sessions \/ \E k \in Tokens : ExpireSession(k))
    BY <1>4 DEF IssueReset, ExpireReset, ExpireSession
  <2>2. QED BY <2>1, OutsideAlone
<1>5. CASE Crash
  BY <1>5, CrashAlone
<1>6. QED BY <1>1, <1>2, <1>3, <1>4, <1>5 DEF Next

-----------------------------------------------------------------------------
(* Both parts                                                              *)

\* The part of a behaviour that is not its own stays as it is.
MCInv == IInv /\ PrefsInv /\ AloneInv

LEMMA MCInitEstablishes == MCInit => MCInv
<1> SUFFICES ASSUME MCInit PROVE MCInv
  OBVIOUS
<1>1. PICK joined \in SUBSET {OtherUser} :
        /\ users = [u \in UserIds |->
             CASE u = FirstAdmin -> Administrator
               [] u \in joined -> [Registered(OtherEmail, FirstSecret) EXCEPT !.verified = TRUE]
               [] OTHER -> Blank]
        /\ sessions = [k \in Tokens |-> CASE k = AdminToken -> FirstAdmin
                                          [] k = OtherToken /\ joined # {} -> OtherUser
                                          [] OTHER -> NoUser]
  BY DEF MCInit
<1> DEFINE other == [Registered(OtherEmail, FirstSecret) EXCEPT !.verified = TRUE]
<1>2. /\ other \in Row /\ other.is = "stored" /\ other.active /\ other.verified
      /\ other.role = "user" /\ other.secret = FirstSecret
  <2>1. Registered(OtherEmail, FirstSecret) \in Row
    BY RowsMade, OtherAssumption, AccountAssumption
  <2>2. QED BY <2>1 DEF Registered, Row
<1>3. /\ Administrator \in Row /\ Administrator.is = "stored" /\ Administrator.active
      /\ Administrator.verified /\ Administrator.secret = FirstSecret
      /\ Blank \in Row /\ Blank.is = "unborn"
  <2>1. Registered(FirstEmail, FirstSecret) \in Row
    BY RowsMade, AccountAssumption
  <2>2. QED BY <2>1, RowsMade DEF Registered, Row, Administrator, Blank
<1> HIDE DEF other
<1>4. \A u \in UserIds : \/ u = FirstAdmin /\ users[u] = Administrator
                         \/ u \in joined /\ u # FirstAdmin /\ users[u] = other
                         \/ u # FirstAdmin /\ u \notin joined /\ users[u] = Blank
  BY <1>1, OtherAssumption DEF other
<1>5. users \in [UserIds -> Row]
  <2>1. users = [u \in UserIds |-> users[u]]
    BY <1>1
  <2>2. QED BY <1>2, <1>3, <1>4, <2>1
<1>6. \A k \in Tokens : \/ sessions[k] = FirstAdmin
                        \/ sessions[k] = OtherUser /\ OtherUser \in joined
                        \/ sessions[k] = NoUser
  BY <1>1
<1>7. sessions \in [Tokens -> UserIds \cup {NoUser, Ended}]
  <2>1. sessions = [k \in Tokens |-> sessions[k]]
    BY <1>1
  <2>2. QED BY <1>6, <2>1, OtherAssumption, AccountAssumption
<1>8. /\ resets = [r \in ResetIds |-> [user |-> NoUser, is |-> "unborn"]]
      /\ thread = [t \in Threads |-> Idle] /\ changed = [r \in ResetIds |-> 0]
      /\ granted = {FirstAdmin} /\ setup \in Setup
  <2>1. setup \in Setups
    BY OtherAssumption DEF MCInit
  <2>2. QED BY <2>1, SetupAssumption DEF MCInit
<1>9. \A t \in Threads : thread[t] = Idle /\ Formed(thread[t]) /\ Trusted(thread[t], granted)
                         /\ \A r : ~Bears(thread[t], r)
  BY <1>8, IdleFormed
<1>10. IInv
  <2>1. TypeOK
    BY <1>5, <1>7, <1>8, IdleFormed, AccountAssumption DEF TypeOK, Reset, Formed
  <2>2. AdminsGranted
    BY <1>2, <1>3, <1>4, <1>8 DEF AdminsGranted, Stored
  <2>3. ThreadInv /\ LinksInv
    BY <1>8, <1>9 DEF ThreadInv, LinksInv
  <2>4. QED BY <2>1, <2>2, <2>3 DEF IInv
<1>11. PrefsInv
  <2>1. Prefs!Init
    BY DEF MCInit
  <2>2. \A t \in Threads : writer[t] = Prefs!Idle
    BY <2>1 DEF Prefs!Init
  <2>3. stored \in [{FirstAdmin} -> Prefs!Document \cup {NoDocument}]
    <3>1. /\ Prefs!DefaultPreferences \in Prefs!Document
          /\ [Prefs!DefaultPreferences EXCEPT !.version = 0] \in Prefs!Document
      BY DefaultRecent, RecentDocument, PreferencesAssumption DEF Prefs!Document, Prefs!Parameters
    <3>2. QED BY <2>1, <3>1 DEF Prefs!Init
  <2>4. QED BY <2>1, <2>2, <2>3, IdleWriter DEF PrefsInv, Prefs!TypeOK, Prefs!Init, Intact
<1>12. AloneInv
  <2>1. \A t \in Threads : Hand(t) = {} /\ Holds(t)
    BY <1>9, RowsMade DEF Hand, Holds, Idle
  <2>2. ASSUME NEW k \in Tokens, sessions[k] \in UserIds
        PROVE  Guarded(k, sessions[k])
    <3>1. users[sessions[k]] \in {Administrator, other}
      BY <1>4, <1>6, <2>2, AccountAssumption
    <3>2. opened[k] = FirstSecret
      BY DEF MCInit
    <3>3. QED BY <1>2, <1>3, <3>1, <3>2 DEF Guarded, Able, Stored
  <2>3. QED BY <2>1, <2>2 DEF AloneInv
<1>13. QED BY <1>10, <1>11, <1>12 DEF MCInv

\* Every step, of one part or of the other.
MCStep == MCInv' /\ PrefsStep /\ (~shared' => Rightful)

LEMMA MCStepPreserves == MCInv /\ [MCNext]_mcvars => MCStep
<1> SUFFICES ASSUME MCInv, [MCNext]_mcvars PROVE MCStep
  OBVIOUS
<1>1. IInv /\ PrefsInv /\ AloneInv
  BY DEF MCInv
<1>2. CASE AccountsNext /\ UNCHANGED <<stored, writer>>
  <2>1. Next /\ Recorded /\ (shared => shared')
    BY <1>2 DEF AccountsNext, Recorded
  <2>2. IInv'
    BY <1>1, <2>1, StepPreserves
  <2>3. PrefsStep
    BY <1>1, <1>2, <2>1, PrefsAside
  <2>4. AloneInv' /\ (~shared' => Rightful)
    BY <1>1, <2>1, AccountsAlone
  <2>5. QED BY <2>2, <2>3, <2>4 DEF MCStep, MCInv, PrefsStep
<1>3. ASSUME UNCHANGED accountVars, shared => shared'
      PROVE  IInv' /\ AloneInv' /\ Rightful
  <2>1. UNCHANGED <<setup, users, sessions, resets, thread, changed, granted, cut, opened, kept>>
    BY <1>3 DEF accountVars, vars
  <2>2. IInv'
    BY <1>1, <2>1, StepPreserves DEF vars
  <2>3. \A t \in Threads : Hand(t)' = Hand(t) /\ Holds(t)' = Holds(t)
    BY <2>1 DEF Hand, Holds, Stored, Able, Commands
  <2>4. \A k \in Tokens : \A u : Guarded(k, u)' = Guarded(k, u)
    BY <2>1 DEF Guarded, Stored, Able, Revoking, At
  <2>5. ASSUME ~shared', NEW k \in Tokens, sessions'[k] \in UserIds
        PROVE  Guarded(k, sessions[k])'
    <3>1. PICK u : u = sessions[k]
      OBVIOUS
    <3>2. Guarded(k, u)
      BY <1>1, <1>3, <2>1, <2>5, <3>1 DEF AloneInv
    <3>3. Guarded(k, u)'
      BY <2>4, <3>2
    <3>4. QED BY <2>1, <3>1, <3>3 DEF Guarded, Revoking
  <2>6. AloneInv'
    BY <1>1, <1>3, <2>1, <2>3, <2>5 DEF AloneInv
  <2>7. Rightful
    BY <2>1 DEF Rightful
  <2>8. QED BY <2>2, <2>6, <2>7
<1>4. CASE PreferencesNext /\ UNCHANGED accountVars
  <2>1. PrefsStep /\ (shared => shared')
    BY <1>1, <1>4, PrefsNextStep DEF PreferencesNext
  <2>2. QED BY <1>3, <1>4, <2>1 DEF MCStep, MCInv, PrefsStep
<1>5. CASE UNCHANGED mcvars
  <2>1. UNCHANGED <<accountVars, shared, stored, writer>>
    BY <1>5 DEF mcvars
  <2>2. PrefsStep
    BY <1>1, <2>1, PrefsAside
  <2>3. QED BY <1>3, <2>1, <2>2 DEF MCStep, MCInv, PrefsStep
<1>6. QED BY <1>2, <1>4, <1>5 DEF MCNext

\* What each step of the run keeps and does, in every behaviour: accounts and
\* the copies of requests fit together, and so do the preferences; requests
\* that share no account, or no preferences, find their copies up to date.
THEOREM MCInvariant == MCSpec => []MCInv /\ [][MCStep]_mcvars
<1>1. MCInit => MCInv
  BY MCInitEstablishes
<1>2. MCInv /\ [MCNext]_mcvars => MCInv'
  BY MCStepPreserves DEF MCStep
<1>3. MCInv /\ [MCNext]_mcvars => MCStep
  BY MCStepPreserves
<1>4. QED BY <1>1, <1>2, <1>3, PTL DEF MCSpec

\* Accounts, sessions, links, requests and preferences hold values of their
\* kinds (repository_postgres.py, session_postgres.py, preferences.py).
THEOREM TypesCorrect == MCSpec => []TypesOK
<1>1. MCInv => TypesOK
  BY DEF MCInv, IInv, PrefsInv, TypesOK
<1>2. QED BY <1>1, MCInvariant, PTL

\* Requests that do not share an account leave no session of one that lost its
\* access or whose password was changed since, and the standing of an account
\* changes only at the hand of an administrator (login, admin_update_user,
\* update_my_password, confirm_password_reset, _authorize_admin_action).
THEOREM AccountsCorrect == MCSpec => SerialAccounts
<1>1. MCInv => SerialAccess /\ SerialSecret
  BY DEF MCInv, AloneInv, Guarded, Able, SerialAccess, SerialSecret
<1>2. MCStep => (~shared' => \A u \in UserIds :
       /\ users[u].is = "deleted" => users'[u].is = "deleted"
       /\ users[u].is = "stored" /\ users'[u].is = "stored"
            /\ Standing(users'[u]) # Standing(users[u])
          => \E t \in Threads : At(t, "save") /\ Actor(t, u)
       /\ users[u].is = "stored" /\ users'[u].is = "deleted"
          => \E t \in Threads : At(t, "remove") /\ (Actor(t, u) \/ thread[t].actor = u))
  BY DEF MCStep, Rightful
<1>3. QED BY <1>1, <1>2, MCInvariant, PTL DEF SerialAccounts, SerialAuthority

\* Preferences are never lost nor old again, and while no two requests for
\* them overlap a patch sets what it names and keeps the rest (get_or_create,
\* apply_patch, deep_merge, migrate_preferences).
THEOREM PreferencesCorrect == MCSpec => PreferencesKept
<1>1. MCStep => (~shared' => \A t \in Threads : stored' # stored /\ writer'[t] # writer[t] =>
       LET old == stored[writer[t].user]
           new == stored'[writer[t].user] IN
       IF writer[t].at = "settle" THEN old = NoDocument \/ old.version < Prefs!CurrentVersion
       ELSE /\ new.leaf = [f \in Leaves |-> Patched(old, writer[t], f)]
            /\ new.advanced = old.advanced \/ writer[t].level = 2)
  BY DEF MCStep, PrefsStep, Patches
<1>2. MCStep => \A u \in {FirstAdmin} : stored[u] # NoDocument =>
       /\ stored'[u] # NoDocument
       /\ stored[u].version >= Prefs!CurrentVersion => stored'[u].version >= Prefs!CurrentVersion
  BY DEF MCStep, PrefsStep, Migrates
<1>3. UNCHANGED mcvars => UNCHANGED Prefs!vars
  BY DEF mcvars, Prefs!vars
<1>4. QED BY <1>1, <1>2, <1>3, MCInvariant, PTL DEF PreferencesKept, SerialPatch, Prefs!StaysMigrated
=============================================================================

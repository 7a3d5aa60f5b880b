--------------------------- MODULE UserPreferences ---------------------------
(***************************************************************************)
(* User preferences (libs/user_preferences). A document per user, stored   *)
(* whole; a request loads it in one transaction, which may have to create  *)
(* or to migrate it in another, and a patch merges what it names into that *)
(* copy and saves it. Of a document its leaves are kept, each set to some  *)
(* value; a patch or an import that is not valid is refused and left out.  *)
(***************************************************************************)
EXTENDS Naturals

CONSTANTS
  Users, Threads,
  Leaves,      \* the fields every level may write, of any depth
  Values,      \* what they and the advanced settings can be set to
  Default,     \* the value of default_preferences
  Null,        \* advanced settings of null
  Bodies,      \* bound: what bodies name, and set it to
  MaxVersion,  \* bound: the versions an import may give
  NoDocument, NoUser

CurrentVersion == 1

VARIABLES
  stored, \* user -> the document
  thread  \* what each request thread is doing

vars == <<stored, thread>>

Levels   == 1..2
Fields   == Leaves \cup {"advanced"}
Document == [version: 0..MaxVersion, leaf: [Leaves -> Values], advanced: Values \cup {Null}]

\* What a body names: leaves, advanced settings, or null for these.
Body == UNION {[S -> Values \cup {Null}] : S \in SUBSET Fields}

\* What the constants must be.
Parameters ==
  /\ Default \in Values /\ Null \notin Values /\ "advanced" \notin Leaves
  /\ MaxVersion \in Nat \ {0} /\ NoUser \notin Users /\ NoDocument \notin Document
  /\ Bodies \subseteq {b \in Body : \A f \in DOMAIN b : b[f] = Null => f = "advanced"}

Nothing == [f \in {} |-> Null]

DefaultPreferences ==
  [version |-> CurrentVersion, leaf |-> [f \in Leaves |-> Default], advanced |-> Default]

\* Mutant: the fields a body does not name are those of the default.
MergeDefaults(doc, body) ==
  [doc EXCEPT !.leaf = [f \in Leaves |-> IF f \in DOMAIN body THEN body[f] ELSE Default],
              !.advanced = IF "advanced" \in DOMAIN body THEN body["advanced"] ELSE @]

\* deep_merge.
Merge(doc, body) ==
  [doc EXCEPT !.leaf = [f \in Leaves |-> IF f \in DOMAIN body THEN body[f] ELSE doc.leaf[f]],
              !.advanced = IF "advanced" \in DOMAIN body THEN body["advanced"] ELSE @]

\* Mutant: the version is bumped every time.
MigratedAgain(doc) == [doc EXCEPT !.version = @ + 1]

\* migrate_preferences, of a stored document and of a body with a version.
Migrated(doc) == [doc EXCEPT !.version = IF @ < CurrentVersion THEN CurrentVersion ELSE @]
Imported(body, version) == Migrated([Merge(DefaultPreferences, body) EXCEPT !.version = version])

\* A request: what remains to be done with the copy doc. A patch has a body, a
\* read, an export or a patch refused for its advanced settings has none.
Request == [at: {"idle", "load", "settle", "patch", "save"}, user: Users \cup {NoUser},
            level: Levels, body: Body, doc: Document]

Idle == [at |-> "idle", user |-> NoUser, level |-> 1, body |-> Nothing,
         doc |-> DefaultPreferences]

At(t, p)   == thread[t].at = p
Goto(t, r) == thread' = [thread EXCEPT ![t] = r]

\* A request whose document is loaded: a patch goes on, a read is answered.
Loaded(r) == IF DOMAIN r.body = {} THEN Idle ELSE [r EXCEPT !.at = "patch"]

-----------------------------------------------------------------------------
\* get_preferences and export_preferences (body names nothing) and
\* patch_preferences. The level is the one the user is authenticated with.
Start(t, u, level, body) ==
  /\ At(t, "idle")
  /\ Goto(t, [Idle EXCEPT !.at = "load", !.user = u, !.level = level, !.body = body])
  /\ UNCHANGED stored

\* get_or_create reads the document ...
Load(t) ==
  /\ At(t, "load")
  /\ LET u == thread[t].user IN
     Goto(t, IF stored[u] = NoDocument
             THEN [thread[t] EXCEPT !.at = "settle", !.doc = DefaultPreferences]
             ELSE IF Migrated(stored[u]) # stored[u]
             THEN [thread[t] EXCEPT !.at = "settle", !.doc = Migrated(stored[u])]
             ELSE Loaded([thread[t] EXCEPT !.doc = stored[u]]))
  /\ UNCHANGED stored

\* ... and saves the default one, or the migrated one, over whatever is stored
\* by then.
Settle(t) ==
  /\ At(t, "settle")
  /\ stored' = [stored EXCEPT ![thread[t].user] = thread[t].doc]
  /\ Goto(t, Loaded(thread[t]))

\* Mutant: the level is not asked for.
ApplyUnchecked(t) ==
  /\ At(t, "patch")
  /\ Goto(t, [thread[t] EXCEPT !.at = "save", !.doc = Merge(thread[t].doc, thread[t].body)])
  /\ UNCHANGED stored

\* apply_patch. It keeps the version of the document.
ApplyPatch(t) ==
  /\ At(t, "patch")
  /\ Goto(t, IF "advanced" \in DOMAIN thread[t].body /\ thread[t].level < 2 THEN Idle
             ELSE [thread[t] EXCEPT !.at = "save", !.doc = Merge(thread[t].doc, thread[t].body)])
  /\ UNCHANGED stored

Save(t) ==
  /\ At(t, "save")
  /\ stored' = [stored EXCEPT ![thread[t].user] = thread[t].doc]
  /\ Goto(t, Idle)

ResetPreferences(u) ==
  /\ stored' = [stored EXCEPT ![u] = DefaultPreferences]
  /\ UNCHANGED thread

\* Mutant: a body with an old version is stored with it.
ImportAsIs(u, level, body, version) ==
  /\ Imported(body, version).advanced # Null => level = 2
  /\ stored' = [stored EXCEPT ![u] = [Imported(body, version) EXCEPT !.version = version]]
  /\ UNCHANGED thread

\* import_preferences. What the body leaves out is the default, the advanced
\* settings included, so that a user of level 1 must set these to null.
ImportPreferences(u, level, body, version) ==
  /\ Imported(body, version).advanced # Null => level = 2
  /\ stored' = [stored EXCEPT ![u] = Imported(body, version)]
  /\ UNCHANGED thread

Crash == thread' = [t \in Threads |-> Idle] /\ UNCHANGED stored

-----------------------------------------------------------------------------
\* A document may be there from before.
Init ==
  /\ stored \in [Users -> {NoDocument, DefaultPreferences, [DefaultPreferences EXCEPT !.version = 0]}]
  /\ thread = [t \in Threads |-> Idle]

Routes(t) ==
  \/ \E u \in Users, level \in Levels, body \in Bodies \cup {Nothing} : Start(t, u, level, body)
  \/ Load(t) \/ Settle(t) \/ ApplyPatch(t) \/ Save(t)

Imports ==
  \E u \in Users, level \in Levels, body \in Bodies \cup {Nothing}, version \in 0..MaxVersion :
    ImportPreferences(u, level, body, version)

Next ==
  \/ \E t \in Threads : Routes(t)
  \/ \E u \in Users : ResetPreferences(u)
  \/ Imports
  \/ Crash

Spec == Init /\ [][Next]_vars

-----------------------------------------------------------------------------
(* Properties                                                              *)

TypeOK ==
  /\ stored \in [Users -> Document \cup {NoDocument}]
  /\ thread \in [Threads -> Request]

\* A document that has the current version, or a later one, never goes back to
\* an old one, and is never lost: not by a patch that names a version, an
\* import of an old export, or a copy saved late (migrate_preferences).
StaysMigrated ==
  [][\A u \in Users : stored[u] # NoDocument =>
       /\ stored'[u] # NoDocument
       /\ stored[u].version >= CurrentVersion => stored'[u].version >= CurrentVersion]_vars
=============================================================================

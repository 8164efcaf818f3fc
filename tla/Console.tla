------------------------------ MODULE Console ------------------------------
(***************************************************************************)
(* An API token or an account, and the console sessions opened with it.    *)
(*                                                                         *)
(* A login verifies a secret in one statement and inserts its session in   *)
(* another; an administrator's edit reads a token's row, and saves all of  *)
(* it in a transaction that also writes the token's scopes and revokes     *)
(* sessions.  Logins and edits interleave.  A secret is a generation: a    *)
(* rotation, a new password or a reset takes the next one.  One subject is *)
(* modelled, of either kind: two share no row.  The lifetime setting is    *)
(* fixed for a behaviour.                                                  *)
(***************************************************************************)
EXTENDS Naturals, FiniteSets

CONSTANTS
  Handlers,     \* login requests of one client address
  Editors,      \* requests of administrators
  Models,       \* models a token can be limited to
  Slots,        \* bound of the model: sessions at a time
  MaxSecret,    \* bound of the model: generations of a secret
  MaxFailures,  \* failures after which a client waits (8)
  Window,       \* how long, in ticks (5 minutes)
  Lifetimes,    \* values of the session lifetime setting; 0 is permanent
  Absent        \* no session

ASSUME AbsentAssumption == Absent \notin [key: Nat, age: Nat, late: BOOLEAN]
ASSUME WindowAssumption == Window \in Nat

VARIABLES
  subject,   \* row of client_tokens or admin_users: kind, present, enabled, key and,
             \* of a token, all (AllowAllModels)
  links,     \* client_token_models: the models a token is limited to
  session,   \* admin_sessions
  login,     \* each login: step and the key it has verified
  edit,      \* each edit: step and what it keeps of the row it has read
  failures,  \* loginAttempts of the client: count and age; Window stands for none
  lifetime,  \* the setting
  issued,    \* history: the subject's secrets so far
  undone     \* history: a save has written an older key over a newer one

vars == <<subject, links, session, login, edit, failures, lifetime, issued, undone>>

-----------------------------------------------------------------------------
Kinds      == {"access_token", "admin"}
Sessions   == [key: Nat, age: Nat, late: BOOLEAN]
Logins     == [step: {"idle", "allowed", "verified", "rejected", "opened"}, key: Nat]
Edits      == [step: {"idle", "password"}] \cup [step: {"update"}, key: Nat]
              \cup [step: {"rotate", "links"}, enabled: BOOLEAN, all: BOOLEAN, models: SUBSET Models]
NoLogin    == [step |-> "idle", key |-> 0]
NoEdit     == [step |-> "idle"]
MaxAge     == CHOOSE n \in Lifetimes : \A m \in Lifetimes : m <= n
Open       == {i \in Slots : session[i] # Absent}
Without(S) == [i \in Slots |-> IF i \in S THEN Absent ELSE session[i]]

IsToken == subject.kind = "access_token"
Usable  == subject.present /\ subject.enabled

-----------------------------------------------------------------------------
(* Login and LoginWithAccessToken, behind allowLogin. *)

NoFailures == failures.age >= Window
Allowed         == NoFailures \/ failures.count < MaxFailures

\* allowLogin also forgets an expired record, which counts as none anyway.
AllowLogin(h) ==
  /\ login[h].step = "idle" /\ Allowed
  /\ login' = [login EXCEPT ![h].step = "allowed"]
  /\ UNCHANGED <<subject, links, session, edit, failures, lifetime, issued, undone>>

Verify(h) ==
  /\ login[h].step = "allowed" /\ Usable
  /\ login' = [login EXCEPT ![h] = [step |-> "verified", key |-> subject.key]]
  /\ UNCHANGED <<subject, links, session, edit, failures, lifetime, issued, undone>>

\* A wrong secret, or a subject that is disabled or gone.
Reject(h) ==
  /\ login[h].step = "allowed"
  /\ login' = [login EXCEPT ![h].step = "rejected"]
  /\ UNCHANGED <<subject, links, session, edit, failures, lifetime, issued, undone>>

RecordLoginFailure(h) ==
  /\ login[h].step = "rejected"
  /\ failures' = IF NoFailures THEN [count |-> 1, age |-> 0] ELSE [failures EXCEPT !.count = @ + 1]
  /\ login' = [login EXCEPT ![h] = NoLogin]
  /\ UNCHANGED <<subject, links, session, edit, lifetime, issued, undone>>

\* createSession.  late: what was verified has been revoked in the meantime.
CreateSession(h, i) ==
  /\ login[h].step = "verified" /\ session[i] = Absent
  /\ session' = [session EXCEPT ![i] =
       [key |-> login[h].key, age |-> 0, late |-> ~Usable \/ subject.key # login[h].key]]
  /\ login' = [login EXCEPT ![h] = [step |-> "opened", key |-> 0]]
  /\ UNCHANGED <<subject, links, edit, failures, lifetime, issued, undone>>

ClearLoginFailures(h) ==
  /\ login[h].step = "opened"
  /\ failures' = [count |-> 0, age |-> Window]
  /\ login' = [login EXCEPT ![h] = NoLogin]
  /\ UNCHANGED <<subject, links, session, edit, lifetime, issued, undone>>

Logout(i) ==
  /\ session[i] # Absent
  /\ session' = Without({i})
  /\ UNCHANGED <<subject, links, login, edit, failures, lifetime, issued, undone>>

-----------------------------------------------------------------------------
(* The edits of a token.  UpdateToken and RotateToken read the row first;  *)
(* what they do not replace of it, they save as they have read it.         *)

ReadToken(e) ==
  /\ IsToken /\ edit[e].step = "idle" /\ subject.present
  /\ \/ edit' = [edit EXCEPT ![e] = [step |-> "update", key |-> subject.key]]
     \/ edit' = [edit EXCEPT ![e] = [step |-> "rotate", enabled |-> subject.enabled,
                                                        all |-> subject.all, models |-> {}]]
  /\ UNCHANGED <<subject, links, session, login, failures, lifetime, issued, undone>>

\* RotateToken reads the links after the row (tokenView).
ReadLinks(e) ==
  /\ edit[e].step = "rotate"
  /\ edit' = [edit EXCEPT ![e].step = "links", ![e].models = links]
  /\ UNCHANGED <<subject, links, session, login, failures, lifetime, issued, undone>>

\* validateTokenInput wants a model for a token that is limited to some.
Valid(all, models) == all \/ models # {}

\* db.Save: every column, and a row that is gone comes back.
Save(enabled, key, all) ==
  /\ subject' = [kind |-> "access_token", present |-> TRUE, enabled |-> enabled,
                 key |-> key, all |-> all]
  /\ undone' = (undone \/ key < subject.key)

\* Mutant: replaceTokenModels keeps the links of a token that now has all models.
KeepModels(all, models)    == links' = IF all THEN links ELSE models
ReplaceModels(all, models) == links' = IF all THEN {} ELSE models

RevokeSessions == session' = Without(Open)

UpdateToken(e, enabled, all, models) ==
  /\ edit[e].step = "update" /\ Valid(all, models)
  /\ Save(enabled, edit[e].key, all)
  /\ ReplaceModels(all, models)
  /\ IF enabled THEN UNCHANGED session ELSE RevokeSessions
  /\ edit' = [edit EXCEPT ![e] = NoEdit]
  /\ UNCHANGED <<login, failures, lifetime, issued>>

\* Mutant: only disabling a token revokes its sessions.
RotateRevokesNothing == UNCHANGED session
RotateRevokes        == session' = Without(Open)

\* issueToken for an existing token.
RotateToken(e) ==
  /\ edit[e].step = "links" /\ Valid(edit[e].all, edit[e].models)
  /\ issued < MaxSecret
  /\ Save(edit[e].enabled, issued + 1, edit[e].all)
  /\ issued' = issued + 1
  /\ ReplaceModels(edit[e].all, edit[e].models)
  /\ RotateRevokes
  /\ edit' = [edit EXCEPT ![e] = NoEdit]
  /\ UNCHANGED <<login, failures, lifetime>>

RotationRefused(e) ==
  /\ edit[e].step = "links" /\ ~Valid(edit[e].all, edit[e].models)
  /\ edit' = [edit EXCEPT ![e] = NoEdit]
  /\ UNCHANGED <<subject, links, session, login, failures, lifetime, issued, undone>>

DeleteToken ==
  /\ IsToken /\ subject.present
  /\ subject' = [subject EXCEPT !.present = FALSE]
  /\ links' = {}
  /\ RevokeSessions
  /\ UNCHANGED <<login, edit, failures, lifetime, issued, undone>>

\* DeleteModel, as far as tokens are concerned: a token may be left with no model at all.
DeleteModel(m) ==
  /\ m \in links
  /\ links' = links \ {m}
  /\ UNCHANGED <<subject, session, login, edit, failures, lifetime, issued, undone>>

-----------------------------------------------------------------------------
(* Passwords. *)

\* Both write the new hash and delete the account's sessions in one transaction.
NewPassword(enabled) ==
  /\ ~IsToken /\ issued < MaxSecret
  /\ issued' = issued + 1
  /\ subject' = [subject EXCEPT !.key = issued + 1, !.enabled = enabled]
  /\ RevokeSessions
  /\ UNCHANGED <<links, login, failures, lifetime, undone>>

\* ChangePassword compares the current password before its transaction.
ComparePassword(e) ==
  /\ ~IsToken /\ edit[e].step = "idle" /\ subject.enabled
  /\ edit' = [edit EXCEPT ![e] = [step |-> "password"]]
  /\ UNCHANGED <<subject, links, session, login, failures, lifetime, issued, undone>>

ChangePassword(e) ==
  /\ edit[e].step = "password"
  /\ NewPassword(subject.enabled)
  /\ edit' = [edit EXCEPT ![e] = NoEdit]

\* ResetPassword also enables the account.
ResetPassword == NewPassword(TRUE) /\ UNCHANGED edit

-----------------------------------------------------------------------------
(* Time. *)

\* cleanupExpired; AuthenticateConsole refuses a session one tick earlier.
CleanedUp(s) == lifetime > 0 /\ s.age > lifetime

CleanupSessions ==
  /\ \E i \in Open : CleanedUp(session[i])
  /\ session' = Without({i \in Open : CleanedUp(session[i])})
  /\ UNCHANGED <<subject, links, login, edit, failures, lifetime, issued, undone>>

Older(n, bound) == IF n < bound THEN n + 1 ELSE n
Tick ==
  /\ session' = [i \in Slots |-> IF i \in Open /\ lifetime > 0
                                 THEN [session[i] EXCEPT !.age = Older(@, MaxAge + 1)]
                                 ELSE session[i]]
  /\ failures' = [failures EXCEPT !.age = Older(@, Window)]
  /\ <<session', failures'>> # <<session, failures>>
  /\ UNCHANGED <<subject, links, login, edit, lifetime, issued, undone>>

-----------------------------------------------------------------------------
Init ==
  /\ \E kind \in Kinds, enabled \in BOOLEAN :
       subject = [kind |-> kind, present |-> TRUE, enabled |-> enabled, key |-> 1, all |-> TRUE]
  /\ links = {}
  /\ session = [i \in Slots |-> Absent]
  /\ login = [h \in Handlers |-> NoLogin]
  /\ edit = [e \in Editors |-> NoEdit]
  /\ failures = [count |-> 0, age |-> Window]
  /\ lifetime \in Lifetimes
  /\ issued = 1 /\ undone = FALSE

Next ==
  \/ \E h \in Handlers : \/ AllowLogin(h) \/ Verify(h) \/ Reject(h) \/ RecordLoginFailure(h)
                         \/ \E i \in Slots : CreateSession(h, i)
                         \/ ClearLoginFailures(h)
  \/ \E e \in Editors : \/ ReadToken(e)
                        \/ \E enabled, all \in BOOLEAN, models \in SUBSET Models :
                             UpdateToken(e, enabled, all, models)
                        \/ ReadLinks(e) \/ RotateToken(e) \/ RotationRefused(e)
                        \/ ComparePassword(e) \/ ChangePassword(e)
  \/ \E i \in Slots : Logout(i)
  \/ \E m \in Models : DeleteModel(m)
  \/ DeleteToken \/ ResetPassword \/ CleanupSessions \/ Tick

Spec == Init /\ [][Next]_vars

-----------------------------------------------------------------------------
(* Properties. *)

\* Rows and handlers hold values of the code.
TypeOK ==
  /\ subject \in [kind: Kinds, present: BOOLEAN, enabled: BOOLEAN, key: Nat, all: BOOLEAN]
  /\ links \subseteq Models
  /\ session \in [Slots -> Sessions \cup {Absent}]
  /\ login \in [Handlers -> Logins]
  /\ edit \in [Editors -> Edits]
  /\ failures \in [count: Nat, age: Nat]
  /\ issued \in Nat /\ undone \in BOOLEAN

\* Every session was opened with the secret its subject has now, and the subject is
\* enabled: what takes a secret away revokes the sessions in the same transaction.
\* Excepted are logins that had verified the secret before, and keys that the save of a
\* row read earlier has put back.
RevocationComplete ==
  undone \/ \A i \in Open : session[i].late \/ (subject.key = session[i].key /\ Usable)

\* A token that has all models, or is gone, has no links, whichever edits overlap and
\* however old the row and the links are that they save: the links a token gets back when it
\* is limited again are those of that edit.
ScopeMatchesLinks == subject.all \/ ~subject.present => links = {}
=============================================================================
